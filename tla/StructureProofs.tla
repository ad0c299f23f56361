-------------------------- MODULE StructureProofs ---------------------------
(***************************************************************************)
(* Proofs about the structures of MCStructures, for any size.              *)
(*                                                                         *)
(* The load order of mods (ModOrder): the ready mods are those outside the *)
(* order whose dependencies are all in it (OrderedSoFar), so the order     *)
(* takes each mod once and after its dependencies; and when no mod is      *)
(* ready, each mod outside the order depends on another there, which is    *)
(* a cycle.                                                                *)
(*                                                                         *)
(* The hash map (HashMap): the free list is a sequence of spans, apart and *)
(* in order (Spans), and covers what is not an entry; the chains of the    *)
(* cells have each entry once, in the cell of its key (Linked); with this  *)
(* an operation finds the entry of a key if there is one (FindIs), and     *)
(* changes what one key is bound to (Binds) and no other.                  *)
(*                                                                         *)
(* The dynamic object (DynObj): the pointers are numbered by their indexes *)
(* (Numbered), raw data is aligned and apart (Placed), the virtuals are    *)
(* views of the fields (Follows); an operation leaves the fields that are  *)
(* not named in it holding what they held (Keeps), wherever it moves them. *)
(***************************************************************************)
EXTENDS ModOrder, HashMap, DynObj, Recursion, FiniteSetTheorems, SequenceTheorems, TLAPS

(* The elements of a sequence. *)
LEMMA Elements ==
  ASSUME NEW T, NEW s \in Seq(T)
  PROVE  /\ Len(s) \in Nat /\ DOMAIN s = 1 .. Len(s) /\ \A i \in 1 .. Len(s) : s[i] \in T
         /\ ToSet(s) \subseteq T
         /\ \A x : x \in ToSet(s) <=> \E i \in 1 .. Len(s) : x = s[i]
  BY LenProperties DEF ToSet

(* One is added. *)
LEMMA ElementsOfAppend ==
  ASSUME NEW T, NEW s \in Seq(T), NEW e \in T
  PROVE  /\ Append(s, e) \in Seq(T) /\ Len(Append(s, e)) = Len(s) + 1
         /\ \A i \in 1 .. Len(s) : Append(s, e)[i] = s[i]
         /\ Append(s, e)[Len(s) + 1] = e
         /\ ToSet(Append(s, e)) = ToSet(s) \cup {e}
         /\ IsInjective(s) /\ e \notin ToSet(s) => IsInjective(Append(s, e))
<1> DEFINE r == Append(s, e)
<1>1. /\ r \in Seq(T) /\ Len(r) = Len(s) + 1 /\ Len(s) \in Nat
      /\ \A i \in 1 .. Len(s) : r[i] = s[i]
      /\ r[Len(s) + 1] = e
  BY AppendProperties, Elements
<1> HIDE DEF r
<1>2. ToSet(r) = ToSet(s) \cup {e}
  <2>1. \A x : x \in ToSet(r) <=> \E i \in 1 .. Len(r) : x = r[i]
    BY <1>1, Elements
  <2>2. \A x : x \in ToSet(s) <=> \E i \in 1 .. Len(s) : x = s[i]
    BY Elements
  <2>3. ASSUME NEW x \in ToSet(r) PROVE x \in ToSet(s) \cup {e}
    BY <1>1, <2>1, <2>2
  <2>4. ASSUME NEW x \in ToSet(s) \cup {e} PROVE x \in ToSet(r)
    BY <1>1, <2>1, <2>2
  <2> QED
    BY <2>3, <2>4
<1>3. ASSUME IsInjective(s), e \notin ToSet(s) PROVE IsInjective(r)
  <2>1. DOMAIN r = 1 .. Len(s) + 1 /\ DOMAIN s = 1 .. Len(s)
    BY <1>1, Elements
  <2>2. \A i \in 1 .. Len(s) : r[i] # e
    BY <1>1, <1>3, Elements
  <2>3. ASSUME NEW i \in 1 .. Len(s) + 1, NEW j \in 1 .. Len(s) + 1, r[i] = r[j] PROVE i = j
    <3>1. CASE i \in 1 .. Len(s) /\ j \in 1 .. Len(s)
      BY <1>1, <1>3, <2>1, <2>3, <3>1 DEF IsInjective
    <3>2. CASE i = Len(s) + 1 \/ j = Len(s) + 1
      BY <1>1, <2>2, <2>3, <3>2
    <3> QED
      BY <1>1, <3>1, <3>2
  <2> QED
    BY <2>1, <2>3 DEF IsInjective
<1> QED
  BY <1>1, <1>2, <1>3 DEF r

(* One sequence comes after another. *)
LEMMA ElementsOfConcat ==
  ASSUME NEW T, NEW s \in Seq(T), NEW r \in Seq(T)
  PROVE  /\ s \o r \in Seq(T)
         /\ ToSet(s \o r) = ToSet(s) \cup ToSet(r)
         /\ IsInjective(s) /\ IsInjective(r) /\ ToSet(s) \cap ToSet(r) = {} => IsInjective(s \o r)
<1> DEFINE c == s \o r
<1>1. /\ c \in Seq(T) /\ Len(c) = Len(s) + Len(r) /\ Len(s) \in Nat /\ Len(r) \in Nat
      /\ \A i \in 1 .. Len(c) : c[i] = IF i <= Len(s) THEN s[i] ELSE r[i - Len(s)]
  BY ConcatProperties, Elements
<1> HIDE DEF c
<1>2. /\ \A x : x \in ToSet(c) <=> \E i \in 1 .. Len(c) : x = c[i]
      /\ \A x : x \in ToSet(s) <=> \E i \in 1 .. Len(s) : x = s[i]
      /\ \A x : x \in ToSet(r) <=> \E i \in 1 .. Len(r) : x = r[i]
  BY <1>1, Elements
<1>3. ASSUME NEW x \in ToSet(c) PROVE x \in ToSet(s) \cup ToSet(r)
  <2>1. PICK i \in 1 .. Len(c) : x = c[i]
    BY <1>2
  <2>2. CASE i <= Len(s)
    BY <1>1, <1>2, <2>1, <2>2
  <2>3. CASE ~ (i <= Len(s))
    <3>1. i - Len(s) \in 1 .. Len(r)
      BY <1>1, <2>3
    <3> QED
      BY <1>1, <1>2, <2>1, <2>3, <3>1
  <2> QED
    BY <2>2, <2>3
<1>4. ASSUME NEW x \in ToSet(s) PROVE x \in ToSet(c)
  <2>1. PICK i \in 1 .. Len(s) : x = s[i]
    BY <1>2
  <2>2. i \in 1 .. Len(c) /\ c[i] = x
    BY <1>1, <2>1
  <2> QED
    BY <1>2, <2>2
<1>5. ASSUME NEW x \in ToSet(r) PROVE x \in ToSet(c)
  <2>1. PICK i \in 1 .. Len(r) : x = r[i]
    BY <1>2
  <2>2. /\ i + Len(s) \in 1 .. Len(c) /\ ~ (i + Len(s) <= Len(s)) /\ (i + Len(s)) - Len(s) = i
    BY <1>1, <2>1
  <2>3. c[i + Len(s)] = x
    BY <1>1, <2>1, <2>2
  <2> QED
    BY <1>2, <2>2, <2>3
<1>6. ASSUME IsInjective(s), IsInjective(r), ToSet(s) \cap ToSet(r) = {}
      PROVE  IsInjective(c)
  <2>1. DOMAIN c = 1 .. Len(c) /\ DOMAIN s = 1 .. Len(s) /\ DOMAIN r = 1 .. Len(r)
    BY <1>1, Elements
  <2>2. ASSUME NEW i \in 1 .. Len(c), NEW j \in 1 .. Len(c), c[i] = c[j] PROVE i = j
    <3>1. /\ \A k \in 1 .. Len(c) : ~ (k <= Len(s)) => k - Len(s) \in 1 .. Len(r)
          /\ \A k \in 1 .. Len(c) : k <= Len(s) => k \in 1 .. Len(s)
      BY <1>1
    <3>2. CASE i <= Len(s) /\ j <= Len(s)
      BY <1>1, <1>6, <2>1, <2>2, <3>1, <3>2 DEF IsInjective
    <3>3. CASE ~ (i <= Len(s)) /\ ~ (j <= Len(s))
      <4>1. r[i - Len(s)] = r[j - Len(s)]
        BY <1>1, <2>2, <3>3
      <4>2. i - Len(s) = j - Len(s)
        BY <1>6, <2>1, <3>1, <3>3, <4>1 DEF IsInjective
      <4> QED
        BY <1>1, <4>2
    <3>4. CASE i <= Len(s) /\ ~ (j <= Len(s))
      <4>1. c[i] \in ToSet(s) /\ c[j] \in ToSet(r)
        BY <1>1, <1>2, <3>1, <3>4
      <4> QED
        BY <1>6, <2>2, <4>1
    <3>5. CASE ~ (i <= Len(s)) /\ j <= Len(s)
      <4>1. c[j] \in ToSet(s) /\ c[i] \in ToSet(r)
        BY <1>1, <1>2, <3>1, <3>5
      <4> QED
        BY <1>6, <2>2, <4>1
    <3> QED
      BY <3>2, <3>3, <3>4, <3>5
  <2> QED
    BY <2>1, <2>2 DEF IsInjective
<1> QED
  BY <1>1, <1>3, <1>4, <1>5, <1>6 DEF c

(* The first is taken away. *)
LEMMA ElementsOfTail ==
  ASSUME NEW T, NEW s \in Seq(T), s # <<>>, IsInjective(s)
  PROVE  /\ Head(s) \in ToSet(s) /\ Tail(s) \in Seq(T)
         /\ ToSet(Tail(s)) = ToSet(s) \ {Head(s)}
         /\ IsInjective(Tail(s))
<1> DEFINE r == Tail(s)
<1>1. /\ Len(s) \in Nat /\ Len(s) # 0 /\ DOMAIN s = 1 .. Len(s)
      /\ r \in Seq(T) /\ Len(r) = Len(s) - 1 /\ Head(s) = s[1]
      /\ \A i \in 1 .. Len(r) : r[i] = s[i + 1]
  BY HeadTailProperties, Elements, EmptySeq
<1> HIDE DEF r
<1>2. /\ \A x : x \in ToSet(s) <=> \E i \in 1 .. Len(s) : x = s[i]
      /\ \A x : x \in ToSet(r) <=> \E i \in 1 .. Len(r) : x = r[i]
      /\ DOMAIN r = 1 .. Len(r)
  BY <1>1, Elements
<1>3. \A i, j \in 1 .. Len(s) : s[i] = s[j] => i = j
  BY <1>1 DEF IsInjective
<1>4. Head(s) \in ToSet(s)
  BY <1>1, <1>2
<1>5. ASSUME NEW x \in ToSet(r) PROVE x \in ToSet(s) /\ x # Head(s)
  <2>1. PICK i \in 1 .. Len(r) : x = r[i]
    BY <1>2
  <2>2. i + 1 \in 1 .. Len(s) /\ 1 \in 1 .. Len(s) /\ i + 1 # 1 /\ x = s[i + 1]
    BY <1>1, <2>1
  <2> QED
    BY <1>1, <1>2, <1>3, <2>2
<1>6. ASSUME NEW x \in ToSet(s), x # Head(s) PROVE x \in ToSet(r)
  <2>1. PICK i \in 1 .. Len(s) : x = s[i]
    BY <1>2
  <2>2. i - 1 \in 1 .. Len(r) /\ (i - 1) + 1 = i
    BY <1>1, <1>6, <2>1
  <2> QED
    BY <1>1, <1>2, <2>1, <2>2
<1>7. IsInjective(r)
  <2>1. ASSUME NEW i \in 1 .. Len(r), NEW j \in 1 .. Len(r), r[i] = r[j] PROVE i = j
    <3>1. i + 1 \in 1 .. Len(s) /\ j + 1 \in 1 .. Len(s) /\ s[i + 1] = s[j + 1]
      BY <1>1, <2>1
    <3>2. i + 1 = j + 1
      BY <1>3, <3>1
    <3> QED
      BY <3>2
  <2> QED
    BY <1>2, <2>1 DEF IsInjective
<1> QED
  BY <1>1, <1>4, <1>5, <1>6, <1>7 DEF r

(* What Only selects. *)
LEMMA Selected ==
  ASSUME NEW T, NEW s \in Seq(T), NEW S
  PROVE  /\ Only(s, S) \in Seq(T)
         /\ ToSet(Only(s, S)) = ToSet(s) \cap S
         /\ IsInjective(s) => IsInjective(Only(s, S))
<1> DEFINE N == Len(s)
           Is(k) == k = [n \in 0 .. N |->
                           IF n = 0 THEN <<>>
                           ELSE IF s[n] \in S THEN Append(k[n - 1], s[n])
                           ELSE k[n - 1]]
           Longer(n, q) == IF n \in 1 .. N /\ s[n] \in S THEN Append(q, s[n]) ELSE q
           step == [n \in Nat |-> [q \in Seq(T) |-> Longer(n, q)]]
<1>1. N \in Nat /\ DOMAIN s = 1 .. N /\ \A i \in 1 .. N : s[i] \in T
  BY Elements
<1>2. ASSUME NEW n \in Nat, NEW q \in Seq(T) PROVE Longer(n, q) \in Seq(T)
  BY <1>1, ElementsOfAppend
<1> HIDE DEF Longer, N
<1>3. <<>> \in Seq(T) /\ step \in [Nat -> [Seq(T) -> Seq(T)]]
  BY <1>2, EmptySeq
<1>4. PICK f : Iterates(f, Seq(T), <<>>, step)
  <2> HIDE DEF step
  <2> QED
    BY <1>3, Iteration, Zenon
<1>5. \A n \in Nat : f[n + 1] = Longer(n + 1, f[n])
  <2>1. \A n \in Nat : f[n] \in Seq(T) /\ n + 1 \in Nat
    BY <1>4 DEF Iterates
  <2>2. \A n \in Nat, q \in Seq(T) : step[n][q] = Longer(n, q)
    OBVIOUS
  <2> HIDE DEF step
  <2> QED
    BY <1>4, <2>1, <2>2, Zenon DEF Iterates
<1> DEFINE g == [n \in 0 .. N |-> f[n]]
<1>6. Is(g)
  <2>1. ASSUME NEW n \in 0 .. N
        PROVE  f[n] = IF n = 0 THEN <<>>
                      ELSE IF s[n] \in S THEN Append(g[n - 1], s[n])
                      ELSE g[n - 1]
    <3>1. CASE n = 0
      BY <1>4, <3>1 DEF Iterates
    <3>2. CASE n # 0
      <4>1. n - 1 \in Nat /\ (n - 1) + 1 = n /\ n \in 1 .. N /\ n - 1 \in 0 .. N
        BY <1>1, <3>2
      <4>2. f[n] = Longer(n, f[n - 1]) /\ g[n - 1] = f[n - 1]
        BY <1>5, <4>1
      <4> QED
        BY <3>2, <4>1, <4>2 DEF Longer
    <3> QED
      BY <3>1, <3>2
  <2> QED
    BY <2>1
<1> DEFINE kept == CHOOSE k : Is(k)
<1>7. Only(s, S) = kept[N]
  BY DEF Only, N
<1>8. Is(kept)
  <2> HIDE DEF Is, g
  <2> QED
    BY <1>6, Zenon
<1> HIDE DEF kept
<1> DEFINE U == {n \in Nat : n <= N =>
                   /\ kept[n] \in Seq(T)
                   /\ ToSet(kept[n]) = {s[i] : i \in 1 .. n} \cap S
                   /\ IsInjective(s) => IsInjective(kept[n])}
<1>9. 0 \in U
  <2>1. kept[0] = <<>>
    BY <1>1, <1>8
  <2>2. ToSet(<<>>) = {} /\ IsInjective(<<>>)
    BY DEF ToSet, IsInjective
  <2>3. {s[i] : i \in 1 .. 0} \cap S = {}
    OBVIOUS
  <2>4. /\ kept[0] \in Seq(T)
        /\ ToSet(kept[0]) = {s[i] : i \in 1 .. 0} \cap S
        /\ IsInjective(kept[0])
    BY <1>3, <2>1, <2>2, <2>3
  <2> QED
    BY <2>4
<1>10. ASSUME NEW n \in Nat, n \in U PROVE n + 1 \in U
  <2> SUFFICES ASSUME n + 1 <= N
               PROVE  /\ kept[n + 1] \in Seq(T)
                      /\ ToSet(kept[n + 1]) = {s[i] : i \in 1 .. n + 1} \cap S
                      /\ IsInjective(s) => IsInjective(kept[n + 1])
    OBVIOUS
  <2>1. n + 1 \in 0 .. N /\ n + 1 # 0 /\ (n + 1) - 1 = n /\ n + 1 \in 1 .. N
    BY <1>1
  <2>2. kept[n + 1] = IF s[n + 1] \in S THEN Append(kept[n], s[n + 1]) ELSE kept[n]
    BY <1>8, <2>1
  <2>3. /\ kept[n] \in Seq(T)
        /\ ToSet(kept[n]) = {s[i] : i \in 1 .. n} \cap S
        /\ IsInjective(s) => IsInjective(kept[n])
    BY <1>1, <1>10
  <2>4. s[n + 1] \in T /\ {s[i] : i \in 1 .. n + 1} = {s[i] : i \in 1 .. n} \cup {s[n + 1]}
    BY <1>1, <2>1
  <2>5. IsInjective(s) => s[n + 1] \notin {s[i] : i \in 1 .. n}
    BY <1>1, <2>1 DEF IsInjective
  <2>6. CASE s[n + 1] \in S
    <3>1. kept[n + 1] = Append(kept[n], s[n + 1])
      BY <2>2, <2>6
    <3> HIDE DEF kept
    <3> QED
      BY <2>3, <2>4, <2>5, <2>6, <3>1, ElementsOfAppend
  <2>7. CASE s[n + 1] \notin S
    BY <2>2, <2>3, <2>4, <2>7
  <2> QED
    BY <2>6, <2>7
<1>11. \A n \in Nat : n \in U
  <2> HIDE DEF U
  <2> QED
    BY <1>9, <1>10, Induction
<1>12. N \in U
  BY <1>1, <1>11
<1>13. ToSet(s) = {s[i] : i \in 1 .. N}
  BY <1>1 DEF ToSet
<1> QED
  BY <1>1, <1>7, <1>12, <1>13

(* A sequence without duplicates is as long as it has elements. *)
LEMMA Counted ==
  ASSUME NEW T, NEW s \in Seq(T), IsInjective(s)
  PROVE  IsFiniteSet(ToSet(s)) /\ Cardinality(ToSet(s)) = Len(s)
<1>1. /\ Len(s) \in Nat /\ DOMAIN s = 1 .. Len(s)
      /\ \A x : x \in ToSet(s) <=> \E i \in 1 .. Len(s) : x = s[i]
      /\ s \in [1 .. Len(s) -> T]
  BY Elements, LenProperties
<1>2. s \in [1 .. Len(s) -> ToSet(s)]
  BY <1>1
<1>3. s \in Bijection(1 .. Len(s), ToSet(s))
  BY <1>1, <1>2 DEF Bijection, Injection, Surjection, IsInjective
<1>4. IsFiniteSet(1 .. Len(s)) /\ Cardinality(1 .. Len(s)) = Len(s)
  BY <1>1, FS_Interval
<1>5. IsFiniteSet(ToSet(s)) /\ Cardinality(1 .. Len(s)) = Cardinality(ToSet(s))
  BY <1>3, <1>4, FS_Bijection DEF ExistsBijection
<1> QED
  BY <1>4, <1>5

(* The enabled mods, and their ids. *)
LEMMA EnabledMods ==
  ASSUME found \in Seq(File)
  PROVE  /\ Enabled \in Seq(Info) /\ Ids(Enabled) \in Seq(Id)
         /\ ToSet(Enabled) = {info \in ToSet(found) : info.enabled}
         /\ ToSet(Ids(Enabled)) = {info.id : info \in ToSet(Enabled)}
<1>1. /\ Enabled \in Seq(File)
      /\ ToSet(Enabled) = ToSet(found) \cap {info \in Info : info.enabled}
  BY Selected DEF Enabled
<1>2. ToSet(found) \subseteq Info \cup {Malformed} /\ ~ Malformed.enabled
  BY Elements DEF File, Malformed
<1> DEFINE e == Enabled
<1>3. \A info \in Info : info.id \in Id
  BY DEF Info
<1> HIDE DEF e
<1>4. /\ Len(e) \in Nat /\ DOMAIN e = 1 .. Len(e) /\ \A i \in 1 .. Len(e) : e[i] \in Info
      /\ \A x : x \in ToSet(e) <=> \E i \in 1 .. Len(e) : x = e[i]
      /\ e \in Seq(Info)
  <2>1. /\ Len(e) \in Nat /\ DOMAIN e = 1 .. Len(e) /\ e \in [1 .. Len(e) -> File]
        /\ \A x : x \in ToSet(e) <=> \E i \in 1 .. Len(e) : x = e[i]
    BY <1>1, Elements, LenProperties DEF e
  <2>2. \A i \in 1 .. Len(e) : e[i] \in Info
    BY <1>1, <2>1 DEF e
  <2> QED
    BY <2>1, <2>2, SeqDef
<1>5. Ids(e) \in Seq(Id) /\ DOMAIN Ids(e) = 1 .. Len(e) /\ \A i \in 1 .. Len(e) : Ids(e)[i] = e[i].id
  BY <1>3, <1>4, SeqDef DEF Ids
<1>6. ToSet(Ids(e)) = {info.id : info \in ToSet(e)}
  BY <1>4, <1>5 DEF ToSet
<1> QED
  BY <1>1, <1>2, <1>4, <1>5, <1>6 DEF e

(* The dependencies of the enabled mods are enabled when each mod's are. *)
LEMMA DepsClosed ==
  ASSUME found \in Seq(File), NEW S, \A info \in ToSet(Enabled) : info.deps \subseteq S
  PROVE  \A id : Deps(id) \subseteq S
  BY EnabledMods DEF Deps

(* At the start nothing is collected. *)
LEMMA ModsInitInv == ModsInit => ModsInv
<1> SUFFICES ASSUME ModsInit PROVE ModsInv
  OBVIOUS
<1>1. found \in Seq(File)
  BY FoundAssumption DEF ModsInit, SeqOf
<1>2. /\ ToSet(<<>>) = {} /\ IsInjective(<<>>) /\ Len(<<>>) = 0 /\ <<>> \in Seq(Id)
      /\ <<>> \in [{} -> Nat]
  BY EmptySeq DEF ToSet, IsInjective
<1>3. ModsTypeOK
  BY <1>1, <1>2 DEF ModsInit, ModsTypeOK
<1>4. ModsCollected /\ OrderedSoFar /\ StageLeaves
  BY <1>2 DEF ModsInit, ModsCollected, OrderedSoFar, StageLeaves
<1> QED
  BY <1>3, <1>4 DEF ModsInv

(* What is collected is in the shape to be sorted. *)
LEMMA CollectKeeps ==
  ASSUME ModsInv, CollectMods
  PROVE  ModsInv'
<1> DEFINE ids == Ids(Enabled)
           none == {id \in Id : Deps(id) = {}}
<1>1. /\ stage = "collect" /\ IsInjective(ids) /\ stage' = "sort" /\ mods' = ids
      /\ \A info \in ToSet(Enabled) : info.deps \subseteq ToSet(ids)
      /\ indegree' = [id \in ToSet(ids) |-> Cardinality(Deps(id))]
      /\ ready' = Only(ids, none)
      /\ UNCHANGED <<found, order, loaded>>
  BY DEF CollectMods
<1>2. found \in Seq(File) /\ mods = <<>> /\ loaded = 0 /\ order \in Seq(Id)
  BY <1>1 DEF ModsInv, ModsTypeOK, ModsCollected, StageLeaves
<1>3. order = <<>> /\ ToSet(order) = {}
  <2>1. ToSet(mods) = {}
    BY <1>2 DEF ToSet
  <2>2. ToSet(order) = {}
    BY <2>1 DEF ModsInv, OrderedSoFar
  <2>3. Len(order) \in Nat /\ \A x : x \in ToSet(order) <=> \E i \in 1 .. Len(order) : x = order[i]
    BY <1>2, Elements
  <2>4. Len(order) = 0
    <3>1. \A i \in 1 .. Len(order) : FALSE
      BY <2>2, <2>3
    <3> QED
      BY <2>3, <3>1
  <2> QED
    BY <1>2, <2>2, <2>4, EmptySeq
<1>4. ids \in Seq(Id) /\ ids = Ids(Enabled)' /\ \A id : Deps(id)' = Deps(id)
  BY <1>1, <1>2, EnabledMods DEF Deps, Ids, Enabled
<1>5. ToSet(ids) \subseteq Id /\ \A id : Deps(id) \subseteq ToSet(ids)
  BY <1>1, <1>2, <1>4, DepsClosed, Elements
<1>6. /\ ready' \in Seq(Id) /\ ToSet(ready') = ToSet(ids) \cap none /\ IsInjective(ready')
  BY <1>1, <1>4, Selected
<1>7. IsFiniteSet(ToSet(ids))
  BY <1>1, <1>4, Counted
<1>8. \A id : IsFiniteSet(Deps(id)) /\ Cardinality(Deps(id)) \in Nat
               /\ (Cardinality(Deps(id)) = 0 <=> Deps(id) = {})
  BY <1>5, <1>7, FS_Subset, FS_CardinalityType, FS_EmptySet
<1> HIDE DEF ids, none
<1>9. ModsTypeOK'
  BY <1>1, <1>2, <1>3, <1>4, <1>6, <1>8 DEF ModsInv, ModsTypeOK
<1>10. ModsCollected'
  BY <1>1, <1>4, <1>5 DEF ModsCollected
<1>11. OrderedSoFar'
  <2>1. /\ order' = <<>> /\ ToSet(order') = {} /\ IsInjective(order') /\ Len(order') = 0
    BY <1>1, <1>3, EmptySeq DEF IsInjective
  <2>2. \A d \in ToSet(ids) : indegree'[d] = Cardinality(Deps(d)' \ ToSet(order'))
    <3>1. \A d : Deps(d)' \ ToSet(order') = Deps(d)
      BY <1>4, <2>1
    <3> QED
      BY <1>1, <3>1
  <2>3. ToSet(ready') = {d \in ToSet(mods') \ ToSet(order') : indegree'[d] = 0}
    BY <1>1, <1>5, <1>6, <1>8, <2>1 DEF none
  <2> QED
    BY <1>1, <1>6, <2>1, <2>2, <2>3 DEF OrderedSoFar
<1>12. StageLeaves'
  BY <1>1, <1>2 DEF StageLeaves
<1> QED
  BY <1>9, <1>10, <1>11, <1>12 DEF ModsInv

(* A mod goes from what is ready to the order, and what waited on it alone
   becomes ready. *)
LEMMA PopKeeps ==
  ASSUME ModsInv, Pop
  PROVE  ModsInv'
<1> DEFINE id == Head(ready)
           waiting == {d \in Id : id \in Deps(d)}
           dependents == Only(mods, waiting)
           free == {d \in ToSet(mods) : indegree'[d] = 0}
           M == ToSet(mods)
           O == ToSet(order)
<1>1. /\ stage = "sort" /\ ready # <<>>
      /\ indegree' = [d \in DOMAIN indegree |->
                        IF d \in ToSet(dependents) THEN indegree[d] - 1 ELSE indegree[d]]
      /\ ready' = Tail(ready) \o Only(dependents, free)
      /\ order' = Append(order, id)
      /\ UNCHANGED <<found, stage, mods, loaded>>
  BY DEF Pop
<1>2. ModsTypeOK /\ ModsCollected /\ OrderedSoFar /\ StageLeaves
  BY DEF ModsInv
<1>3. /\ found \in Seq(File) /\ mods \in Seq(Id) /\ ready \in Seq(Id) /\ order \in Seq(Id)
      /\ indegree \in [M -> Nat] /\ loaded = 0
      /\ IsInjective(mods) /\ IsInjective(order) /\ IsInjective(ready)
      /\ O \subseteq M /\ ToSet(ready) = {d \in M \ O : indegree[d] = 0}
      /\ \A d \in M : Deps(d) \subseteq M
      /\ \A d \in M : indegree[d] = Cardinality(Deps(d) \ O)
  BY <1>1, <1>2 DEF ModsTypeOK, ModsCollected, OrderedSoFar, StageLeaves
<1>4. \A d : Deps(d)' = Deps(d)
  BY <1>1 DEF Deps
<1>5. /\ id \in ToSet(ready) /\ Tail(ready) \in Seq(Id)
      /\ ToSet(Tail(ready)) = ToSet(ready) \ {id} /\ IsInjective(Tail(ready))
  BY <1>1, <1>3, ElementsOfTail
<1>6. id \in M /\ id \notin O /\ indegree[id] = 0 /\ M \subseteq Id
  BY <1>3, <1>5, Elements
<1>7. dependents \in Seq(Id) /\ ToSet(dependents) = M \cap waiting /\ IsInjective(dependents)
  BY <1>3, Selected
<1>8. ToSet(dependents) = {d \in M : id \in Deps(d)}
  BY <1>6, <1>7
<1> HIDE DEF waiting, dependents, free
<1>9. /\ Only(dependents, free) \in Seq(Id)
      /\ ToSet(Only(dependents, free)) = ToSet(dependents) \cap free
      /\ IsInjective(Only(dependents, free))
  BY <1>7, Selected
<1>10. /\ order' \in Seq(Id) /\ ToSet(order') = O \cup {id} /\ IsInjective(order')
       /\ Len(order') = Len(order) + 1 /\ Len(order) \in Nat
       /\ \A i \in 1 .. Len(order) : order'[i] = order[i]
       /\ order'[Len(order) + 1] = id
  <2>1. id \in Id
    BY <1>6
  <2> HIDE DEF id
  <2> QED
    BY <1>1, <1>3, <1>6, <2>1, ElementsOfAppend, Elements
<1> HIDE DEF id
<1>11. \A d \in M : IsFiniteSet(Deps(d) \ O) /\ indegree[d] \in Nat
  <2>1. IsFiniteSet(M)
    BY <1>3, Counted
  <2>2. \A d \in M : Deps(d) \ O \subseteq M
    BY <1>3
  <2> QED
    BY <1>3, <2>1, <2>2, FS_Subset
<1>12. ASSUME NEW d \in M
       PROVE  /\ indegree'[d] = Cardinality(Deps(d) \ (O \cup {id})) /\ indegree'[d] \in Nat
              /\ id \in Deps(d) => indegree[d] # 0
              /\ id \notin Deps(d) => indegree'[d] = indegree[d]
  <2> DEFINE W == Deps(d) \ O
  <2>1. IsFiniteSet(W) /\ indegree[d] = Cardinality(W) /\ Deps(d) \ (O \cup {id}) = W \ {id}
    BY <1>3, <1>11
  <2>2. indegree'[d] = IF id \in Deps(d) THEN indegree[d] - 1 ELSE indegree[d]
    BY <1>1, <1>3, <1>8
  <2>3. id \in Deps(d) <=> id \in W
    BY <1>6
  <2> HIDE DEF W
  <2>4. Cardinality(W \ {id}) = IF id \in W THEN Cardinality(W) - 1 ELSE Cardinality(W)
    BY <2>1, FS_RemoveElement
  <2>5. Cardinality(W \ {id}) \in Nat
    <3>1. W \ {id} \subseteq W
      OBVIOUS
    <3> QED
      BY <2>1, <3>1, FS_Subset, FS_CardinalityType
  <2>6. id \in W => Cardinality(W) # 0
    BY <2>1, FS_EmptySet
  <2> QED
    BY <2>1, <2>2, <2>3, <2>4, <2>5, <2>6
<1>13. indegree' \in [M -> Nat]
  <2>1. DOMAIN indegree' = M /\ indegree' = [d \in DOMAIN indegree' |-> indegree'[d]]
    BY <1>1, <1>3
  <2> QED
    BY <1>12, <2>1
<1>14. ToSet(Only(dependents, free)) = {d \in M : id \in Deps(d) /\ indegree'[d] = 0}
  BY <1>8, <1>9 DEF free
<1>15. ASSUME NEW d \in M, id \in Deps(d) PROVE d \notin O /\ d \notin ToSet(ready)
  <2>1. d \notin ToSet(ready)
    BY <1>3, <1>12, <1>15
  <2>2. ASSUME d \in O PROVE FALSE
    <3>1. PICK i \in 1 .. Len(order) : d = order[i]
      BY <1>3, <2>2, Elements
    <3>2. Deps(d) \subseteq {order[j] : j \in 1 .. i - 1}
      BY <1>2, <3>1 DEF OrderedSoFar
    <3>3. \A j \in 1 .. i - 1 : order[j] \in O
      <4>1. \A j \in 1 .. i - 1 : j \in 1 .. Len(order)
        BY <1>10
      <4> QED
        BY <1>3, <4>1, Elements
    <3> QED
      BY <1>6, <1>15, <3>2, <3>3
  <2> QED
    BY <2>1, <2>2
<1>16. /\ ready' \in Seq(Id) /\ IsInjective(ready')
       /\ ToSet(ready') = (ToSet(ready) \ {id}) \cup {d \in M : id \in Deps(d) /\ indegree'[d] = 0}
  <2>1. ToSet(Tail(ready)) \cap ToSet(Only(dependents, free)) = {}
    BY <1>5, <1>14, <1>15
  <2> DEFINE t == Tail(ready)
             k == Only(dependents, free)
  <2>2. t \in Seq(Id) /\ IsInjective(t) /\ ToSet(t) = ToSet(ready) \ {id}
    BY <1>5
  <2>3. /\ k \in Seq(Id) /\ IsInjective(k)
        /\ ToSet(k) = {d \in M : id \in Deps(d) /\ indegree'[d] = 0}
    BY <1>9, <1>14
  <2>4. ready' = t \o k /\ ToSet(t) \cap ToSet(k) = {}
    BY <1>1, <2>1
  <2> HIDE DEF t, k
  <2>5. t \o k \in Seq(Id) /\ ToSet(t \o k) = ToSet(t) \cup ToSet(k) /\ IsInjective(t \o k)
    BY <2>2, <2>3, <2>4, ElementsOfConcat
  <2> QED
    BY <2>2, <2>3, <2>4, <2>5
<1>17. ModsTypeOK'
  BY <1>1, <1>2, <1>3, <1>10, <1>13, <1>16 DEF ModsTypeOK
<1>18. ModsCollected'
  <2>1. Ids(Enabled)' = Ids(Enabled)
    BY <1>1 DEF Ids, Enabled
  <2> QED
    BY <1>1, <1>2, <1>4, <2>1 DEF ModsCollected
<1>19. OrderedSoFar'
  <2>1. ASSUME NEW i \in 1 .. Len(order')
        PROVE  Deps(order'[i]) \subseteq {order'[j] : j \in 1 .. i - 1}
    <3>1. CASE i \in 1 .. Len(order)
      <4>1. order'[i] = order[i]
        BY <1>10, <3>1
      <4>2. Deps(order[i]) \subseteq {order[j] : j \in 1 .. i - 1}
        BY <1>2, <3>1 DEF OrderedSoFar
      <4>3. \A j \in 1 .. i - 1 : order'[j] = order[j]
        BY <1>10, <3>1
      <4> QED
        BY <4>1, <4>2, <4>3
    <3>2. CASE i = Len(order) + 1
      <4>1. Deps(id) \subseteq O
        <5>1. Cardinality(Deps(id) \ O) = 0 /\ IsFiniteSet(Deps(id) \ O)
          BY <1>3, <1>6, <1>11
        <5>2. Deps(id) \ O = {}
          BY <5>1, FS_EmptySet
        <5> QED
          BY <5>2
      <4>2. \A x \in O : \E j \in 1 .. Len(order) : x = order[j]
        BY <1>3, Elements
      <4>3. order'[i] = id /\ \A j \in 1 .. i - 1 : order'[j] = order[j] /\ j \in 1 .. Len(order)
        BY <1>10, <3>2
      <4>4. i - 1 = Len(order)
        BY <1>10, <3>2
      <4> QED
        BY <4>1, <4>2, <4>3, <4>4
    <3> QED
      BY <1>10, <3>1, <3>2
  <2>5. (\A i \in 1 .. Len(order) : Deps(order[i]) \subseteq {order[j] : j \in 1 .. i - 1})'
    BY <1>4, <2>1
  <2>2. \A d \in ToSet(mods') : indegree'[d] = Cardinality(Deps(d)' \ ToSet(order'))
    BY <1>1, <1>4, <1>10, <1>12
  <2>3. ToSet(ready') = {d \in ToSet(mods') \ ToSet(order') : indegree'[d] = 0}
    <3>1. ASSUME NEW d \in ToSet(ready') PROVE d \in M \ (O \cup {id}) /\ indegree'[d] = 0
      <4>1. CASE d \in ToSet(ready) \ {id}
        BY <1>3, <1>12, <1>15, <4>1
      <4>2. CASE d \in M /\ id \in Deps(d) /\ indegree'[d] = 0
        BY <1>5, <1>15, <4>2
      <4> QED
        BY <1>16, <3>1, <4>1, <4>2
    <3>2. ASSUME NEW d \in M \ (O \cup {id}), indegree'[d] = 0 PROVE d \in ToSet(ready')
      <4>1. CASE id \in Deps(d)
        BY <1>16, <3>2, <4>1
      <4>2. CASE id \notin Deps(d)
        <5>1. indegree[d] = 0
          BY <1>12, <3>2, <4>2
        <5> QED
          BY <1>3, <1>16, <5>1
      <4> QED
        BY <4>1, <4>2
    <3> QED
      BY <1>1, <1>10, <3>1, <3>2
  <2>4. ToSet(order') \subseteq ToSet(mods')
    BY <1>1, <1>3, <1>6, <1>10
  <2> QED
    BY <1>10, <1>16, <2>2, <2>3, <2>4, <2>5 DEF OrderedSoFar
<1>20. StageLeaves'
  BY <1>1, <1>2 DEF StageLeaves
<1> QED
  BY <1>17, <1>18, <1>19, <1>20 DEF ModsInv

(* The order is no longer than there are mods, and has all of them when it is
   as long. *)
LEMMA Complete ==
  ASSUME ModsInv
  PROVE  /\ Len(order) \in Nat /\ Len(mods) \in Nat /\ Len(order) <= Len(mods)
         /\ Len(order) = Len(mods) <=> ToSet(order) = ToSet(mods)
<1>1. mods \in Seq(Id) /\ order \in Seq(Id) /\ IsInjective(mods) /\ IsInjective(order)
      /\ ToSet(order) \subseteq ToSet(mods)
  BY DEF ModsInv, ModsTypeOK, ModsCollected, OrderedSoFar
<1>2. /\ IsFiniteSet(ToSet(mods)) /\ Cardinality(ToSet(mods)) = Len(mods)
      /\ Cardinality(ToSet(order)) = Len(order)
      /\ Len(mods) \in Nat /\ Len(order) \in Nat
  BY <1>1, Counted, Elements
<1>3. /\ Cardinality(ToSet(order)) <= Cardinality(ToSet(mods))
      /\ Cardinality(ToSet(order)) = Cardinality(ToSet(mods)) => ToSet(order) = ToSet(mods)
  BY <1>1, <1>2, FS_Subset
<1> QED
  BY <1>2, <1>3

(* Every step keeps the inductive invariant. *)
LEMMA ModsNextInv == ModsInv /\ [ModsNext]_modVars => ModsInv'
<1> SUFFICES ASSUME ModsInv, [ModsNext]_modVars PROVE ModsInv'
  OBVIOUS
<1>1. found' = found => Ids(Enabled)' = Ids(Enabled) /\ \A id : Deps(id)' = Deps(id)
  BY DEF Ids, Enabled, Deps
<1>2. CASE CollectFails
  <2>1. ready = <<>>
    <3>1. ToSet(mods) = {}
      BY <1>2 DEF CollectFails, ModsInv, ModsCollected, ToSet
    <3>2. ready \in Seq(Id) /\ ToSet(ready) = {}
      BY <3>1 DEF ModsInv, ModsTypeOK, OrderedSoFar
    <3>3. Len(ready) \in Nat /\ \A i \in 1 .. Len(ready) : FALSE
      BY <3>2, Elements
    <3> QED
      BY <3>2, <3>3, EmptySeq
  <2>2. ModsTypeOK' /\ StageLeaves'
    BY <1>2, <2>1 DEF CollectFails, ModsInv, ModsTypeOK, StageLeaves
  <2>3. ModsCollected' /\ OrderedSoFar'
    BY <1>1, <1>2 DEF CollectFails, ModsInv, ModsCollected, OrderedSoFar
  <2> QED
    BY <2>2, <2>3 DEF ModsInv
<1>3. CASE CollectMods
  BY <1>3, CollectKeeps
<1>4. CASE Pop
  BY <1>4, PopKeeps
<1>5. CASE SortEnds
  <2>1. ModsTypeOK' /\ StageLeaves'
    BY <1>5 DEF SortEnds, ModsInv, ModsTypeOK, StageLeaves
  <2>2. ModsCollected' /\ OrderedSoFar'
    BY <1>1, <1>5 DEF SortEnds, ModsInv, ModsCollected, OrderedSoFar
  <2> QED
    BY <2>1, <2>2 DEF ModsInv
<1>6. CASE Load
  <2>1. ModsTypeOK' /\ StageLeaves'
    BY <1>6, Complete DEF Load, ModsInv, ModsTypeOK, StageLeaves
  <2>2. ModsCollected' /\ OrderedSoFar'
    BY <1>1, <1>6, SMTT(60) DEF Load, ModsInv, ModsCollected, OrderedSoFar
  <2> QED
    BY <2>1, <2>2 DEF ModsInv
<1>7. CASE Finish
  <2>1. ModsTypeOK' /\ StageLeaves'
    BY <1>7 DEF Finish, ModsInv, ModsTypeOK, StageLeaves
  <2>2. ModsCollected'
    BY <1>1, <1>7 DEF Finish, ModsInv, ModsCollected
  <2>3. OrderedSoFar'
    BY <1>1, <1>7 DEF Finish, ModsInv, OrderedSoFar
  <2> QED
    BY <2>1, <2>2, <2>3 DEF ModsInv
<1>8. CASE UNCHANGED modVars
  <2>1. ModsTypeOK' /\ StageLeaves'
    BY <1>8 DEF modVars, ModsInv, ModsTypeOK, StageLeaves
  <2>2. ModsCollected' /\ OrderedSoFar'
    BY <1>1, <1>8 DEF modVars, ModsInv, ModsCollected, OrderedSoFar
  <2> QED
    BY <2>1, <2>2 DEF ModsInv
<1> QED
  BY <1>2, <1>3, <1>4, <1>5, <1>6, <1>7, <1>8 DEF ModsNext

(* A cycle has a first mod in the order, which would come after another. *)
LEMMA NoCycleInOrder ==
  ASSUME ModsInv, ToSet(order) = ToSet(mods)
  PROVE  ~ Circular(ToSet(mods))
<1> SUFFICES ASSUME NEW cycle \in (SUBSET ToSet(mods)) \ {{}},
                    \A id \in cycle : Deps(id) \cap cycle # {}
             PROVE  FALSE
  BY DEF Circular
<1>1. /\ order \in Seq(Id)
      /\ \A i \in 1 .. Len(order) : Deps(order[i]) \subseteq {order[j] : j \in 1 .. i - 1}
  BY DEF ModsInv, ModsTypeOK, OrderedSoFar
<1>2. Len(order) \in Nat /\ \A x : x \in ToSet(order) <=> \E i \in 1 .. Len(order) : x = order[i]
  BY <1>1, Elements
<1> DEFINE P == {i \in 1 .. Len(order) : order[i] \in cycle}
<1>3. P \subseteq Nat /\ P # {}
  <2>1. PICK x \in cycle : x \in ToSet(order)
    OBVIOUS
  <2>2. PICK i \in 1 .. Len(order) : x = order[i]
    BY <1>2, <2>1
  <2>3. i \in P
    BY <2>1, <2>2
  <2>4. P \subseteq Nat
    BY <1>2
  <2> HIDE DEF P
  <2> QED
    BY <2>3, <2>4
<1>4. PICK i \in P : \A j \in P : i <= j
  BY <1>3, First
<1>5. PICK x : x \in Deps(order[i]) /\ x \in cycle
  BY <1>4
<1>6. PICK j \in 1 .. i - 1 : x = order[j]
  BY <1>1, <1>4, <1>5
<1>7. j \in P /\ ~ (i <= j)
  BY <1>2, <1>4, <1>5, <1>6
<1> QED
  BY <1>4, <1>7

(* When nothing is ready, what is not in the order waits on itself. *)
LEMMA CycleInRest ==
  ASSUME ModsInv, ready = <<>>, ToSet(order) # ToSet(mods)
  PROVE  Circular(ToSet(mods))
<1> DEFINE rest == ToSet(mods) \ ToSet(order)
<1>1. /\ ToSet(order) \subseteq ToSet(mods)
      /\ {d \in rest : indegree[d] = 0} = ToSet(ready)
      /\ \A d \in ToSet(mods) : Deps(d) \subseteq ToSet(mods)
      /\ \A d \in ToSet(mods) : indegree[d] = Cardinality(Deps(d) \ ToSet(order))
  BY DEF ModsInv, ModsCollected, OrderedSoFar
<1>2. rest # {} /\ rest \in SUBSET ToSet(mods)
  BY <1>1
<1>3. ToSet(ready) = {}
  BY DEF ToSet
<1>4. ASSUME NEW d \in rest PROVE Deps(d) \cap rest # {}
  <2>1. Cardinality(Deps(d) \ ToSet(order)) # 0
    BY <1>1, <1>3
  <2>2. Deps(d) \ ToSet(order) # {}
    BY <2>1, FS_EmptySet
  <2> QED
    BY <1>1, <2>2
<1> QED
  BY <1>2, <1>4 DEF Circular

(* The inductive invariant of the load order holds of every behaviour. *)
THEOREM ModsInvariance == ModsSpec => []ModsInv
  BY ModsInitInv, ModsNextInv, PTL DEF ModsSpec

(* For any mods: each is loaded once, after all it depends on, none is left out
   of a start that succeeds, and a start that is refused for a cycle has one
   (LoadsInOrder of mod_sorter.py and main.c). *)
THEOREM ModsLoadInOrder == ModsSpec => []LoadsInOrder
<1>1. ModsInv => LoadsInOrder
  <2> SUFFICES ASSUME ModsInv PROVE LoadsInOrder
    OBVIOUS
  <2>1. /\ order \in Seq(Id) /\ loaded \in 0 .. Len(order) /\ IsInjective(order)
        /\ \A i \in 1 .. Len(order) : Deps(order[i]) \subseteq {order[j] : j \in 1 .. i - 1}
    BY DEF ModsInv, ModsTypeOK, OrderedSoFar
  <2>2. \A i \in 1 .. loaded : i \in 1 .. Len(order)
    BY <2>1, Complete
  <2>3. stage = "ready" => Loaded = ToSet(Ids(Enabled))
    <3> SUFFICES ASSUME stage = "ready" PROVE Loaded = ToSet(Ids(Enabled))
      OBVIOUS
    <3>1. loaded = Len(order) /\ Len(order) = Len(mods) /\ mods = Ids(Enabled)
      BY DEF ModsInv, ModsCollected, StageLeaves
    <3>2. Loaded = ToSet(order)
      BY <2>1, <3>1, Elements DEF Loaded
    <3> QED
      BY <3>1, <3>2, Complete
  <2>4. stage \in {"load", "ready"} => ~ Circular(ToSet(mods))
    <3>1. stage \in {"load", "ready"} => Len(order) = Len(mods)
      BY DEF ModsInv, StageLeaves
    <3> QED
      BY <3>1, Complete, NoCycleInOrder
  <2>5. stage = "halted" /\ mods # <<>> /\ Len(order) < Len(mods) => Circular(ToSet(mods))
    <3>1. stage = "halted" => ready = <<>>
      BY DEF ModsInv, StageLeaves
    <3> QED
      BY <3>1, Complete, CycleInRest
  <2> QED
    BY <2>1, <2>2, <2>3, <2>4, <2>5 DEF LoadsInOrder
<1> QED
  BY <1>1, ModsInvariance, PTL

-----------------------------------------------------------------------------
(* The free list of a map: its ranges as spans, apart and in order.         *)

(* What InsertAt makes of a sequence. *)
LEMMA Inserted ==
  ASSUME NEW T, NEW s \in Seq(T), NEW e \in T, NEW i \in 1 .. Len(s) + 1
  PROVE  /\ InsertAt(s, i, e) \in Seq(T) /\ Len(InsertAt(s, i, e)) = Len(s) + 1
         /\ \A j \in 1 .. Len(s) + 1 :
              InsertAt(s, i, e)[j] = IF j < i THEN s[j] ELSE IF j = i THEN e ELSE s[j - 1]
<1> DEFINE a == SubSeq(s, 1, i - 1)
           c == SubSeq(s, i, Len(s))
           d == a \o <<e>>
<1>1. Len(s) \in Nat /\ i \in Nat
  BY Elements
<1>2. a \in Seq(T) /\ Len(a) = i - 1 /\ \A j \in 1 .. i - 1 : a[j] = s[j]
  BY <1>1, SubSeqProperties, Elements
<1>3. /\ c \in Seq(T) /\ Len(c) = Len(s) + 1 - i
      /\ \A j \in 1 .. Len(s) + 1 - i : c[j] = s[i + j - 1]
  BY <1>1, SubSeqProperties, Elements
<1>4. <<e>> \in Seq(T) /\ Len(<<e>>) = 1 /\ <<e>>[1] = e
  OBVIOUS
<1> HIDE DEF a, c
<1>5. d \in Seq(T) /\ Len(d) = i /\ \A j \in 1 .. i : d[j] = IF j < i THEN s[j] ELSE e
  <2>1. /\ d \in Seq(T) /\ Len(d) = Len(a) + 1
        /\ \A j \in 1 .. Len(d) : d[j] = IF j <= Len(a) THEN a[j] ELSE <<e>>[j - Len(a)]
    BY <1>2, <1>4, ConcatProperties
  <2> HIDE DEF d
  <2>2. ASSUME NEW j \in 1 .. i PROVE d[j] = IF j < i THEN s[j] ELSE e
    <3>1. CASE j < i
      BY <1>1, <1>2, <2>1, <3>1
    <3>2. CASE j = i
      <4>1. j - Len(a) = 1 /\ ~ (j <= Len(a)) /\ j \in 1 .. Len(d)
        BY <1>1, <1>2, <2>1, <3>2
      <4> QED
        BY <1>4, <2>1, <3>2, <4>1
    <3> QED
      BY <1>1, <3>1, <3>2
  <2> QED
    BY <1>1, <1>2, <2>1, <2>2
<1> HIDE DEF d
<1> DEFINE r == d \o c
<1>6. InsertAt(s, i, e) = r
  BY DEF InsertAt, d, a, c
<1>7. /\ r \in Seq(T) /\ Len(r) = Len(d) + Len(c)
      /\ \A j \in 1 .. Len(r) : r[j] = IF j <= Len(d) THEN d[j] ELSE c[j - Len(d)]
  <2>1. d \in Seq(T) /\ c \in Seq(T)
    BY <1>3, <1>5
  <2>2. /\ r \in Seq(T) /\ Len(r) = Len(d) + Len(c)
        /\ \A j \in 1 .. Len(d) + Len(c) : r[j] = IF j <= Len(d) THEN d[j] ELSE c[j - Len(d)]
    BY <2>1, ConcatProperties
  <2> HIDE DEF r
  <2> QED
    BY <2>2
<1> HIDE DEF r
<1>8. ASSUME NEW j \in 1 .. Len(s) + 1
      PROVE  r[j] = IF j < i THEN s[j] ELSE IF j = i THEN e ELSE s[j - 1]
  <2>1. CASE j <= i
    BY <1>1, <1>3, <1>5, <1>7, <2>1
  <2>2. CASE ~ (j <= i)
    <3>1. j - i \in 1 .. Len(s) + 1 - i /\ i + (j - i) - 1 = j - 1
      BY <1>1, <2>2
    <3>2. r[j] = c[j - i]
      BY <1>1, <1>3, <1>5, <1>7, <2>2
    <3> QED
      BY <1>1, <1>3, <2>2, <3>1, <3>2
  <2> QED
    BY <2>1, <2>2
<1> QED
  BY <1>1, <1>3, <1>5, <1>6, <1>7, <1>8

(* What RemoveAt makes of a sequence. *)
LEMMA Removed ==
  ASSUME NEW T, NEW s \in Seq(T), NEW i \in 1 .. Len(s)
  PROVE  /\ RemoveAt(s, i) \in Seq(T) /\ Len(RemoveAt(s, i)) = Len(s) - 1
         /\ \A j \in 1 .. Len(s) - 1 : RemoveAt(s, i)[j] = IF j < i THEN s[j] ELSE s[j + 1]
<1> DEFINE a == SubSeq(s, 1, i - 1)
           c == SubSeq(s, i + 1, Len(s))
           r == a \o c
<1>1. Len(s) \in Nat /\ i \in Nat
  BY Elements
<1>2. a \in Seq(T) /\ Len(a) = i - 1 /\ \A j \in 1 .. i - 1 : a[j] = s[j]
  BY <1>1, SubSeqProperties, Elements
<1>3. /\ c \in Seq(T) /\ Len(c) = Len(s) - i
      /\ \A j \in 1 .. Len(s) - i : c[j] = s[i + 1 + j - 1]
  BY <1>1, SubSeqProperties, Elements
<1> HIDE DEF a, c
<1>4. /\ r \in Seq(T) /\ Len(r) = Len(a) + Len(c)
      /\ \A j \in 1 .. Len(a) + Len(c) : r[j] = IF j <= Len(a) THEN a[j] ELSE c[j - Len(a)]
  BY <1>2, <1>3, ConcatProperties
<1>5. RemoveAt(s, i) = r
  BY DEF RemoveAt, a, c
<1> HIDE DEF r
<1>6. ASSUME NEW j \in 1 .. Len(s) - 1 PROVE r[j] = IF j < i THEN s[j] ELSE s[j + 1]
  <2>1. CASE j < i
    BY <1>1, <1>2, <1>3, <1>4, <2>1
  <2>2. CASE ~ (j < i)
    <3>1. /\ j - (i - 1) \in 1 .. Len(s) - i /\ i + 1 + (j - (i - 1)) - 1 = j + 1
          /\ ~ (j <= i - 1) /\ j \in 1 .. Len(a) + Len(c)
      BY <1>1, <1>2, <1>3, <1>4, <2>2
    <3>2. r[j] = c[j - (i - 1)]
      BY <1>2, <1>4, <3>1
    <3> QED
      BY <1>3, <2>2, <3>1, <3>2
  <2> QED
    BY <2>1, <2>2
<1>7. r \in Seq(T) /\ Len(r) = Len(s) - 1
  BY <1>1, <1>2, <1>3, <1>4
<1> QED
  BY <1>5, <1>6, <1>7
-----------------------------------------------------------------------------
(* The free list.                                                          *)

(* A range of it. *)
Range1 == [pos : Nat, count : Nat \ {0}]

(* A list of ranges, and what is free in it. *)
LEMMA ListOfRanges ==
  ASSUME NEW f, Ranges(f), f.listed
  PROVE  /\ f.head \in Nat /\ f.nbuckets \in Nat /\ f.buckets \in Seq(Range1)
         /\ f.head = Len(f.buckets) /\ f.head <= f.nbuckets /\ f.nbuckets > 0
         /\ \A j \in 1 .. f.head :
              /\ f.buckets[j] \in Range1
              /\ f.buckets[j].pos \in Nat /\ f.buckets[j].count \in Nat
              /\ f.buckets[j].count > 0
         /\ \A i, j \in 1 .. f.head :
              i < j => f.buckets[i].pos + f.buckets[i].count < f.buckets[j].pos
         /\ \A x : x \in Free(f) <=>
              /\ x \in Nat
              /\ \E j \in 1 .. f.head :
                   f.buckets[j].pos <= x /\ x < f.buckets[j].pos + f.buckets[j].count
<1>1. /\ f.head \in Nat /\ f.nbuckets \in Nat /\ f.buckets \in Seq(Range1)
      /\ f.head = Len(f.buckets) /\ f.head <= f.nbuckets /\ f.nbuckets > 0
      /\ \A i, j \in 1 .. f.head :
           i < j => f.buckets[i].pos + f.buckets[i].count < f.buckets[j].pos
  BY DEF Ranges, FreeList, Range1
<1>2. \A j \in 1 .. f.head : f.buckets[j] \in Range1
  BY <1>1, Elements
<1>3. \A r \in Range1 : r.pos \in Nat /\ r.count \in Nat /\ r.count > 0
  BY DEF Range1
<1>4. \A r : r \in ToSet(f.buckets) <=> \E j \in 1 .. f.head : r = f.buckets[j]
  BY <1>1, Elements
<1>5. Free(f) = UNION {r.pos .. r.pos + r.count - 1 : r \in ToSet(f.buckets)}
  BY DEF Free
<1>6. ASSUME NEW x
      PROVE  x \in Free(f) <=>
              /\ x \in Nat
              /\ \E j \in 1 .. f.head :
                   f.buckets[j].pos <= x /\ x < f.buckets[j].pos + f.buckets[j].count
  <2>1. x \in Free(f) <=> \E r \in ToSet(f.buckets) : x \in r.pos .. r.pos + r.count - 1
    BY <1>5
  <2>2. ASSUME NEW r \in Range1
        PROVE  x \in r.pos .. r.pos + r.count - 1 <=> x \in Nat /\ r.pos <= x /\ x < r.pos + r.count
    BY <1>3
  <2>3. x \in Free(f) <=> \E j \in 1 .. f.head :
                            x \in f.buckets[j].pos .. f.buckets[j].pos + f.buckets[j].count - 1
    BY <1>4, <2>1
  <2> QED
    BY <1>2, <2>2, <2>3
<1> QED
  BY <1>1, <1>2, <1>3, <1>6

(* How a range that is not free lies between those that are, the i-th of which is
   the first behind it. *)
LEMMA Between ==
  ASSUME NEW f, Ranges(f), f.listed, NEW pos \in Nat, NEW count \in Nat \ {0},
         Free(f) \cap (pos .. pos + count - 1) = {}
  PROVE  LET i == Cardinality({j \in 1 .. f.head : f.buckets[j].pos <= pos}) + 1 IN
         /\ i \in 1 .. f.head + 1
         /\ \A j \in 1 .. f.head :
              IF j < i THEN f.buckets[j].pos + f.buckets[j].count <= pos
                       ELSE pos + count <= f.buckets[j].pos
<1> DEFINE b == f.buckets
           J == {j \in 1 .. f.head : b[j].pos <= pos}
           Behind == {j \in 1 .. f.head + 1 : j = f.head + 1 \/ b[j].pos > pos}
<1>1. /\ f.head \in Nat
      /\ \A j \in 1 .. f.head : b[j].pos \in Nat /\ b[j].count \in Nat /\ b[j].count > 0
      /\ \A i, j \in 1 .. f.head : i < j => b[i].pos + b[i].count < b[j].pos
      /\ \A x \in Nat, j \in 1 .. f.head :
           b[j].pos <= x /\ x < b[j].pos + b[j].count => x \in Free(f)
  BY ListOfRanges
<1> HIDE DEF b
<1>2. PICK i \in Behind : \A j \in Behind : i <= j
  <2>1. f.head + 1 \in Behind /\ Behind \subseteq Nat
    BY <1>1
  <2> HIDE DEF Behind
  <2> QED
    BY <2>1, First
<1>3. i \in 1 .. f.head + 1 /\ i \in Nat
  BY <1>1, <1>2
<1>4. ASSUME NEW j \in 1 .. f.head PROVE j < i <=> b[j].pos <= pos
  <2>1. CASE j < i
    <3>1. j \notin Behind
      BY <1>1, <1>2, <2>1
    <3> QED
      BY <1>1, <2>1, <3>1
  <2>2. CASE j = i
    BY <1>1, <1>2, <2>2
  <2>3. CASE i < j
    <3>1. i \in 1 .. f.head /\ b[i].pos > pos
      BY <1>1, <1>2, <2>3
    <3>2. b[i].pos + b[i].count < b[j].pos
      BY <1>1, <2>3, <3>1
    <3> QED
      BY <1>1, <2>3, <3>1, <3>2
  <2> QED
    BY <1>3, <2>1, <2>2, <2>3
<1>5. J = 1 .. i - 1
  BY <1>1, <1>3, <1>4
<1>6. Cardinality(J) + 1 = i
  <2>1. Cardinality(1 .. i - 1) = i - 1
    BY <1>3, FS_Interval
  <2> HIDE DEF J
  <2> QED
    BY <1>3, <1>5, <2>1
<1>7. ASSUME NEW j \in 1 .. f.head
      PROVE  IF j < i THEN b[j].pos + b[j].count <= pos ELSE pos + count <= b[j].pos
  <2>1. pos \in pos .. pos + count - 1
    OBVIOUS
  <2>2. pos \notin Free(f)
    BY <2>1
  <2>3. CASE j < i
    BY <1>1, <1>4, <2>2, <2>3
  <2>4. CASE ~ (j < i)
    <3>1. b[j].pos > pos /\ b[j].pos \in Free(f)
      BY <1>1, <1>4, <2>4
    <3>2. b[j].pos \notin pos .. pos + count - 1
      BY <3>1
    <3> QED
      BY <1>1, <2>4, <3>1, <3>2
  <2> QED
    BY <2>3, <2>4
<1> QED
  BY <1>3, <1>6, <1>7 DEF b

(* Spans from lo to hi, n of them, in order and apart from each other. *)
Spans(n, lo, hi) ==
  /\ n \in Nat /\ lo \in [1 .. n -> Nat] /\ hi \in [1 .. n -> Nat]
  /\ \A j \in 1 .. n : lo[j] < hi[j]
  /\ \A j, k \in 1 .. n : j < k => hi[j] < lo[k]

(* What they cover. *)
Cover(n, lo, hi) == {x \in Nat : \E j \in 1 .. n : lo[j] <= x /\ x < hi[j]}

(* A span of its own, from a to b, has its place at i. *)
Gap(n, lo, hi, i, a, b) ==
  /\ a \in Nat /\ b \in Nat /\ a < b /\ i \in 1 .. n + 1
  /\ \A j \in 1 .. n : IF j < i THEN hi[j] <= a ELSE b <= lo[j]

(* The sequence r is s with e put at place i. *)
Widened(n, s, i, e, r) ==
  /\ r \in [1 .. n + 1 -> Nat]
  /\ \A j \in 1 .. n + 1 :
       r[j] = IF j < i THEN s[j] ELSE IF j = i THEN e ELSE s[j - 1]

(* It reaches neither the one before nor the one behind. *)
Filled(n, lo, hi, i, a, b) == (i <= n => lo[i] # b) /\ (i > 1 => hi[i - 1] # a)

(* A span put in a gap: what it covers is covered as well. *)
LEMMA GapFilled ==
  ASSUME NEW n, NEW lo, NEW hi, NEW i, NEW a, NEW b, Spans(n, lo, hi),
         Gap(n, lo, hi, i, a, b), Filled(n, lo, hi, i, a, b),
         NEW low, Widened(n, lo, i, a, low), NEW high, Widened(n, hi, i, b, high)
  PROVE  /\ Spans(n + 1, low, high)
         /\ Cover(n + 1, low, high) = Cover(n, lo, hi) \cup (a .. b - 1)
<1> SUFFICES ASSUME n \in Nat, lo \in [1 .. n -> Nat], hi \in [1 .. n -> Nat],
                    a \in Nat, b \in Nat, i \in 1 .. n + 1,
                    i <= n => lo[i] # b, i > 1 => hi[i - 1] # a
             PROVE  /\ Spans(n + 1, low, high)
                    /\ Cover(n + 1, low, high) = Cover(n, lo, hi) \cup (a .. b - 1)
  <2>1. n \in Nat /\ lo \in [1 .. n -> Nat] /\ hi \in [1 .. n -> Nat]
    BY DEF Spans
  <2>2. a \in Nat /\ b \in Nat /\ i \in 1 .. n + 1
    BY DEF Gap
  <2>3. i \in 1 .. n + 1 /\ (i <= n => lo[i] # b) /\ (i > 1 => hi[i - 1] # a)
    BY <2>1, <2>2 DEF Filled
  <2> QED
    BY <2>1, <2>2, <2>3
<1> DEFINE At(j, k) == (k < i /\ j = k) \/ (~ (k < i) /\ j = k + 1)
<1>1. /\ a < b
      /\ \A j \in 1 .. n : lo[j] \in Nat /\ hi[j] \in Nat /\ lo[j] < hi[j]
  BY DEF Spans, Gap
<1>2. \A j \in 1 .. n, k \in 1 .. n : j < k => hi[j] < lo[k]
  BY DEF Spans
<1>3. \A j \in 1 .. n : (j < i => hi[j] <= a) /\ (~ (j < i) => b <= lo[j])
  BY DEF Gap
<1>4. low[i] = a /\ high[i] = b
  BY DEF Widened
<1>5. ASSUME NEW k \in 1 .. n, NEW j \in 1 .. n + 1, At(j, k)
      PROVE  low[j] = lo[k] /\ high[j] = hi[k]
  <2>1. CASE k < i /\ j = k
    BY <2>1 DEF Widened
  <2>2. CASE ~ (k < i) /\ j = k + 1
    <3>1. k \in Int /\ k + 1 - 1 = k /\ ~ (k + 1 < i) /\ k + 1 # i
      BY <2>2
    <3> QED
      BY <2>2, <3>1 DEF Widened
  <2> QED
    BY <1>5, <2>1, <2>2
<1>6. ASSUME NEW j \in 1 .. n + 1, j # i PROVE \E k \in 1 .. n : At(j, k)
  <2>1. CASE j < i
    <3>1. j \in 1 .. n /\ At(j, j)
      BY <2>1
    <3> QED
      BY <3>1
  <2>2. CASE ~ (j < i)
    <3>1. j - 1 \in 1 .. n /\ At(j, j - 1)
      BY <1>6, <2>2
    <3> QED
      BY <3>1
  <2> QED
    BY <2>1, <2>2
<1>7. ASSUME NEW k \in 1 .. n PROVE \E j \in 1 .. n + 1 : At(j, k)
  <2>1. CASE k < i
    <3>1. k \in 1 .. n + 1 /\ At(k, k)
      BY <2>1
    <3> QED
      BY <3>1
  <2>2. CASE ~ (k < i)
    <3>1. k + 1 \in 1 .. n + 1 /\ At(k + 1, k)
      BY <2>2
    <3> QED
      BY <3>1
  <2> QED
    BY <2>1, <2>2
<1>8. ASSUME NEW j \in 1 .. n, j < i PROVE hi[j] < a
  <2>1. CASE j = i - 1
    <3>1. hi[j] <= a /\ hi[j] # a
      BY <1>3, <1>8, <2>1
    <3> QED
      BY <1>1, <3>1
  <2>2. CASE j < i - 1
    <3>1. i - 1 \in 1 .. n /\ i - 1 < i /\ j < i - 1
      BY <1>8, <2>2
    <3> DEFINE k == i - 1
    <3> HIDE DEF k
    <3>2. k \in 1 .. n /\ k < i /\ j < k
      BY <3>1 DEF k
    <3>3. hi[j] < lo[k] /\ lo[k] < hi[k] /\ hi[k] <= a
      BY <1>1, <1>2, <1>3, <3>2
    <3>4. hi[j] \in Nat /\ lo[k] \in Nat /\ hi[k] \in Nat
      BY <1>1, <3>2
    <3> QED
      BY <3>3, <3>4
  <2> QED
    BY <1>8, <2>1, <2>2
<1>9. ASSUME NEW j \in 1 .. n, ~ (j < i) PROVE b < lo[j]
  <2>1. CASE j = i
    <3>1. b <= lo[j] /\ b # lo[j]
      BY <1>3, <1>9, <2>1
    <3> QED
      BY <1>1, <3>1
  <2>2. CASE i < j
    <3>1. i \in 1 .. n /\ ~ (i < i)
      BY <2>2
    <3>2. b <= lo[i] /\ lo[i] < hi[i] /\ hi[i] < lo[j]
      BY <1>1, <1>2, <1>3, <2>2, <3>1
    <3> QED
      BY <1>1, <3>1, <3>2
  <2> QED
    BY <1>9, <2>1, <2>2
<1>10. ASSUME NEW j \in 1 .. n + 1 PROVE low[j] < high[j]
  <2>1. CASE j = i
    BY <1>1, <1>4, <2>1
  <2>2. CASE j # i
    <3>1. PICK k \in 1 .. n : At(j, k)
      BY <1>6, <2>2
    <3>2. low[j] = lo[k] /\ high[j] = hi[k]
      BY <1>5, <3>1
    <3> QED
      BY <1>1, <3>2
  <2> QED
    BY <2>1, <2>2
<1>11. ASSUME NEW j \in 1 .. n + 1, NEW k \in 1 .. n + 1, j < k PROVE high[j] < low[k]
  <2>1. CASE j = i
    <3> k # i
      BY <1>11, <2>1
    <3>1. PICK q \in 1 .. n : At(k, q)
      BY <1>6
    <3>2. ~ (q < i)
      BY <1>11, <2>1, <3>1
    <3>3. high[j] = b /\ low[k] = lo[q] /\ b < lo[q]
      BY <1>4, <1>5, <1>9, <2>1, <3>1, <3>2
    <3> QED
      BY <3>3
  <2>2. CASE k = i
    <3> j # i
      BY <1>11, <2>2
    <3>1. PICK p \in 1 .. n : At(j, p)
      BY <1>6
    <3>2. p < i
      BY <1>11, <2>2, <3>1
    <3>3. high[j] = hi[p] /\ low[k] = a /\ hi[p] < a
      BY <1>4, <1>5, <1>8, <2>2, <3>1, <3>2
    <3> QED
      BY <3>3
  <2>3. CASE j # i /\ k # i
    <3>1. PICK p \in 1 .. n : At(j, p)
      BY <1>6, <2>3
    <3>2. PICK q \in 1 .. n : At(k, q)
      BY <1>6, <2>3
    <3>3. p < q
      BY <1>11, <3>1, <3>2
    <3>4. high[j] = hi[p] /\ low[k] = lo[q] /\ hi[p] < lo[q]
      BY <1>2, <1>5, <3>1, <3>2, <3>3
    <3> QED
      BY <3>4
  <2> QED
    BY <2>1, <2>2, <2>3
<1>12. ASSUME NEW x \in Nat
       PROVE  (\E j \in 1 .. n + 1 : low[j] <= x /\ x < high[j])
                <=> x \in a .. b - 1 \/ \E k \in 1 .. n : lo[k] <= x /\ x < hi[k]
  <2>1. ASSUME NEW j \in 1 .. n + 1, low[j] <= x /\ x < high[j]
        PROVE  x \in a .. b - 1 \/ \E k \in 1 .. n : lo[k] <= x /\ x < hi[k]
    <3>1. CASE j = i
      BY <1>4, <2>1, <3>1
    <3>2. CASE j # i
      <4>1. PICK k \in 1 .. n : At(j, k)
        BY <1>6, <3>2
      <4>2. low[j] = lo[k] /\ high[j] = hi[k]
        BY <1>5, <4>1
      <4> QED
        BY <2>1, <4>2
    <3> QED
      BY <3>1, <3>2
  <2>2. ASSUME NEW k \in 1 .. n, lo[k] <= x /\ x < hi[k]
        PROVE  \E j \in 1 .. n + 1 : low[j] <= x /\ x < high[j]
    <3>1. PICK j \in 1 .. n + 1 : At(j, k)
      BY <1>7
    <3>2. low[j] = lo[k] /\ high[j] = hi[k]
      BY <1>5, <3>1
    <3> QED
      BY <2>2, <3>2
  <2>3. ASSUME x \in a .. b - 1 PROVE low[i] <= x /\ x < high[i]
    BY <1>4, <2>3
  <2> QED
    BY <2>1, <2>2, <2>3
<1>13. Cover(n + 1, low, high) = Cover(n, lo, hi) \cup (a .. b - 1)
  <2>1. a .. b - 1 \subseteq Nat
    OBVIOUS
  <2> QED
    BY <1>12, <2>1 DEF Cover
<1>14. Spans(n + 1, low, high)
  <2>1. n + 1 \in Nat
    OBVIOUS
  <2> QED
    BY <1>10, <1>11, <2>1 DEF Spans, Widened
<1> QED
  BY <1>13, <1>14

(* The sequence r is s with e instead of what is at place i. *)
Replaced(n, s, i, e, r) ==
  /\ r \in [1 .. n -> Nat] /\ r[i] = e
  /\ \A j \in 1 .. n : j # i => r[j] = s[j]

(* It reaches the one behind. *)
JoinsNext(n, lo, hi, i, a, b) == i <= n /\ lo[i] = b /\ (i > 1 => hi[i - 1] # a)

(* A span that reaches the one behind: that one starts where it does. *)
LEMMA GapJoinsNext ==
  ASSUME NEW n, NEW lo, NEW hi, NEW i, NEW a, NEW b, Spans(n, lo, hi),
         Gap(n, lo, hi, i, a, b), JoinsNext(n, lo, hi, i, a, b),
         NEW low, Replaced(n, lo, i, a, low)
  PROVE  /\ Spans(n, low, hi)
         /\ Cover(n, low, hi) = Cover(n, lo, hi) \cup (a .. b - 1)
<1> SUFFICES ASSUME n \in Nat, lo \in [1 .. n -> Nat], hi \in [1 .. n -> Nat],
                    a \in Nat, b \in Nat, i \in 1 .. n,
                    lo[i] = b, i > 1 => hi[i - 1] # a
             PROVE  /\ Spans(n, low, hi)
                    /\ Cover(n, low, hi) = Cover(n, lo, hi) \cup (a .. b - 1)
  <2>1. n \in Nat /\ lo \in [1 .. n -> Nat] /\ hi \in [1 .. n -> Nat]
    BY DEF Spans
  <2>2. a \in Nat /\ b \in Nat /\ i \in 1 .. n + 1
    BY DEF Gap
  <2>3. i \in 1 .. n /\ lo[i] = b /\ (i > 1 => hi[i - 1] # a)
    BY <2>1, <2>2 DEF JoinsNext
  <2> QED
    BY <2>1, <2>2, <2>3
<1>1. /\ a < b
      /\ \A j \in 1 .. n : lo[j] \in Nat /\ hi[j] \in Nat /\ lo[j] < hi[j]
  BY DEF Spans, Gap
<1>2. \A j \in 1 .. n, k \in 1 .. n : j < k => hi[j] < lo[k]
  BY DEF Spans
<1>3. \A j \in 1 .. n : (j < i => hi[j] <= a) /\ (~ (j < i) => b <= lo[j])
  BY DEF Gap
<1>4. low \in [1 .. n -> Nat] /\ low[i] = a /\ \A j \in 1 .. n : j # i => low[j] = lo[j]
  BY DEF Replaced
<1>5. ASSUME NEW j \in 1 .. n PROVE low[j] < hi[j]
  BY <1>1, <1>4
<1>6. ASSUME NEW j \in 1 .. n, NEW k \in 1 .. n, j < k PROVE hi[j] < low[k]
  <2>1. CASE k # i
    <3>1. hi[j] < lo[k] /\ low[k] = lo[k]
      BY <1>2, <1>4, <1>6, <2>1
    <3> QED
      BY <3>1
  <2>2. CASE k = i /\ j = i - 1
    <3>1. hi[j] <= a /\ hi[j] # a /\ hi[j] \in Nat /\ low[k] = a
      BY <1>1, <1>3, <1>4, <1>6, <2>2
    <3> QED
      BY <3>1
  <2>3. CASE k = i /\ j < i - 1
    <3>1. PICK l \in 1 .. n : l = i - 1 /\ j < l /\ l < i
      BY <1>6, <2>3
    <3>2. hi[j] < lo[l] /\ lo[l] < hi[l] /\ hi[l] <= a /\ low[k] = a
      BY <1>1, <1>2, <1>3, <1>4, <2>3, <3>1
    <3>3. hi[j] \in Nat /\ lo[l] \in Nat /\ hi[l] \in Nat
      BY <1>1
    <3> QED
      BY <3>2, <3>3
  <2>4. k # i \/ j = i - 1 \/ j < i - 1
    <3>1. \A x, y, z \in Int : x < y => y # z \/ x = z - 1 \/ x < z - 1
      OBVIOUS
    <3>2. i \in Int /\ j \in Int /\ k \in Int
      OBVIOUS
    <3> QED
      BY <1>6, <3>1, <3>2
  <2> QED
    BY <2>1, <2>2, <2>3, <2>4
<1>7. ASSUME NEW x \in Nat
      PROVE  (\E j \in 1 .. n : low[j] <= x /\ x < hi[j])
                <=> x \in a .. b - 1 \/ \E j \in 1 .. n : lo[j] <= x /\ x < hi[j]
  <2>1. ASSUME NEW j \in 1 .. n, low[j] <= x /\ x < hi[j]
        PROVE  x \in a .. b - 1 \/ (lo[j] <= x /\ x < hi[j])
    <3>1. CASE j = i
      BY <1>1, <1>4, <2>1, <3>1
    <3>2. CASE j # i
      BY <1>4, <2>1, <3>2
    <3> QED
      BY <3>1, <3>2
  <2>2. ASSUME NEW j \in 1 .. n, lo[j] <= x /\ x < hi[j]
        PROVE  low[j] <= x /\ x < hi[j]
    <3>1. low[j] <= lo[j] /\ low[j] \in Nat /\ lo[j] \in Nat
      BY <1>1, <1>4, SMTT(60)
    <3> QED
      BY <2>2, <3>1
  <2>3. ASSUME x \in a .. b - 1 PROVE low[i] <= x /\ x < hi[i]
    BY <1>1, <1>4, <2>3
  <2> QED
    BY <2>1, <2>2, <2>3
<1>8. Cover(n, low, hi) = Cover(n, lo, hi) \cup (a .. b - 1)
  <2>1. a .. b - 1 \subseteq Nat
    OBVIOUS
  <2> QED
    BY <1>7, <2>1 DEF Cover
<1>9. Spans(n, low, hi)
  BY <1>4, <1>5, <1>6 DEF Spans
<1> QED
  BY <1>8, <1>9

(* It reaches the one before. *)
JoinsPrev(n, lo, hi, i, p, a, b) ==
  i > 1 /\ p = i - 1 /\ hi[p] = a /\ (i <= n => lo[i] # b)

(* A span that reaches the one before: that one ends where it does. *)
LEMMA GapJoinsPrev ==
  ASSUME NEW n, NEW lo, NEW hi, NEW i, NEW p, NEW a, NEW b, Spans(n, lo, hi),
         Gap(n, lo, hi, i, a, b), JoinsPrev(n, lo, hi, i, p, a, b),
         NEW high, Replaced(n, hi, p, b, high)
  PROVE  /\ Spans(n, lo, high)
         /\ Cover(n, lo, high) = Cover(n, lo, hi) \cup (a .. b - 1)
<1> SUFFICES ASSUME n \in Nat, lo \in [1 .. n -> Nat], hi \in [1 .. n -> Nat],
                    a \in Nat, b \in Nat, i \in 2 .. n + 1,
                    i <= n => lo[i] # b, p = i - 1, hi[p] = a
             PROVE  /\ Spans(n, lo, high)
                    /\ Cover(n, lo, high) = Cover(n, lo, hi) \cup (a .. b - 1)
  <2>1. n \in Nat /\ lo \in [1 .. n -> Nat] /\ hi \in [1 .. n -> Nat]
    BY DEF Spans
  <2>2. a \in Nat /\ b \in Nat /\ i \in 1 .. n + 1
    BY DEF Gap
  <2>3. i \in 2 .. n + 1 /\ (i <= n => lo[i] # b) /\ p = i - 1 /\ hi[p] = a
    BY <2>1, <2>2 DEF JoinsPrev
  <2> QED
    BY <2>1, <2>2, <2>3
<1>0. p \in 1 .. n /\ \A j \in 1 .. n : j # p /\ j # i => j < p \/ i < j
  OBVIOUS
<1>1. /\ a < b /\ hi[p] = a
      /\ \A j \in 1 .. n : lo[j] \in Nat /\ hi[j] \in Nat /\ lo[j] < hi[j]
  BY DEF Spans, Gap
<1>2. \A j \in 1 .. n, k \in 1 .. n : j < k => hi[j] < lo[k]
  BY DEF Spans
<1>3. \A j \in 1 .. n : (j < i => hi[j] <= a) /\ (~ (j < i) => b <= lo[j])
  BY DEF Gap
<1>4. /\ high \in [1 .. n -> Nat] /\ high[p] = b
      /\ \A j \in 1 .. n : j # p => high[j] = hi[j]
  BY DEF Replaced
<1>5. p < i /\ \A j \in 1 .. n : p < j => ~ (j < i) /\ (j = i \/ i < j)
  OBVIOUS
<1>6. ASSUME NEW j \in 1 .. n PROVE lo[j] < high[j]
  <2>1. CASE j # p
    BY <1>1, <1>4, <2>1
  <2>2. CASE j = p
    <3>1. lo[j] < a /\ high[j] = b /\ lo[j] \in Nat
      BY <1>1, <1>4, <2>2
    <3> QED
      BY <1>1, <3>1
  <2> QED
    BY <2>1, <2>2
<1>7. ASSUME NEW j \in 1 .. n, NEW k \in 1 .. n, j < k PROVE high[j] < lo[k]
  <2>1. CASE j # p
    BY <1>2, <1>4, <1>7, <2>1
  <2>2. CASE j = p /\ k = i
    <3>1. b <= lo[k] /\ lo[k] # b /\ lo[k] \in Nat /\ high[j] = b
      BY <1>1, <1>3, <1>4, <2>2
    <3> QED
      BY <3>1
  <2>3. CASE j = p /\ i < k
    <3>1. PICK l \in 1 .. n : l = i /\ l < k /\ ~ (l < i)
      BY <2>3
    <3>2. hi[l] < lo[k] /\ lo[l] < hi[l] /\ b <= lo[l] /\ high[j] = b
      BY <1>1, <1>2, <1>3, <1>4, <2>3, <3>1
    <3>3. hi[l] \in Nat /\ lo[l] \in Nat /\ lo[k] \in Nat
      BY <1>1
    <3> QED
      BY <3>2, <3>3
  <2>4. j = p => k = i \/ i < k
    BY <1>5, <1>7
  <2> QED
    BY <2>1, <2>2, <2>3, <2>4
<1>8. ASSUME NEW x \in Nat
      PROVE  (\E j \in 1 .. n : lo[j] <= x /\ x < high[j])
                <=> x \in a .. b - 1 \/ \E j \in 1 .. n : lo[j] <= x /\ x < hi[j]
  <2>1. ASSUME NEW j \in 1 .. n, lo[j] <= x /\ x < high[j]
        PROVE  x \in a .. b - 1 \/ (lo[j] <= x /\ x < hi[j])
    <3>1. CASE j = p
      BY <1>1, <1>4, <2>1, <3>1
    <3>2. CASE j # p
      BY <1>4, <2>1, <3>2
    <3> QED
      BY <3>1, <3>2
  <2>2. ASSUME NEW j \in 1 .. n, lo[j] <= x /\ x < hi[j]
        PROVE  lo[j] <= x /\ x < high[j]
    <3>1. hi[j] <= high[j] /\ high[j] \in Nat /\ hi[j] \in Nat
      <4>1. CASE j = p
        BY <1>1, <1>4, <4>1
      <4>2. CASE j # p
        <5>1. high[j] = hi[j] /\ hi[j] \in Nat
          BY <1>1, <1>4, <4>2
        <5> QED
          BY <5>1
      <4> QED
        BY <4>1, <4>2
    <3> QED
      BY <2>2, <3>1
  <2>3. ASSUME x \in a .. b - 1 PROVE lo[p] <= x /\ x < high[p]
    <3>1. lo[p] < a /\ high[p] = b /\ lo[p] \in Nat
      BY <1>0, <1>1, <1>4
    <3> QED
      BY <2>3, <3>1
  <2> QED
    BY <1>0, <2>1, <2>2, <2>3
<1>9. Cover(n, lo, high) = Cover(n, lo, hi) \cup (a .. b - 1)
  <2>1. a .. b - 1 \subseteq Nat
    OBVIOUS
  <2> QED
    BY <1>8, <2>1 DEF Cover
<1>10. Spans(n, lo, high)
  BY <1>4, <1>6, <1>7 DEF Spans
<1> QED
  BY <1>9, <1>10

(* The sequence r is s without what is at place i. *)
Narrowed(n, s, i, r) ==
  /\ r \in [1 .. n - 1 -> Nat]
  /\ \A j \in 1 .. n - 1 : r[j] = IF j < i THEN s[j] ELSE s[j + 1]

(* It reaches both. *)
JoinsBoth(n, lo, hi, i, p, a, b) ==
  i > 1 /\ i <= n /\ p = i - 1 /\ hi[p] = a /\ lo[i] = b

(* A span that reaches both: the one before ends where the one behind did. *)
LEMMA GapJoinsBoth ==
  ASSUME NEW n, NEW lo, NEW hi, NEW i, NEW p, NEW a, NEW b, Spans(n, lo, hi),
         Gap(n, lo, hi, i, a, b), JoinsBoth(n, lo, hi, i, p, a, b),
         NEW low, Narrowed(n, lo, i, low), NEW high, Narrowed(n, hi, p, high)
  PROVE  /\ Spans(n - 1, low, high)
         /\ Cover(n - 1, low, high) = Cover(n, lo, hi) \cup (a .. b - 1)
<1> SUFFICES ASSUME n \in Nat, lo \in [1 .. n -> Nat], hi \in [1 .. n -> Nat],
                    a \in Nat, b \in Nat, i \in 2 .. n,
                    lo[i] = b, p = i - 1, hi[p] = a
             PROVE  /\ Spans(n - 1, low, high)
                    /\ Cover(n - 1, low, high) = Cover(n, lo, hi) \cup (a .. b - 1)
  <2>1. n \in Nat /\ lo \in [1 .. n -> Nat] /\ hi \in [1 .. n -> Nat]
    BY DEF Spans
  <2>2. a \in Nat /\ b \in Nat /\ i \in 1 .. n + 1
    BY DEF Gap
  <2>3. i \in 2 .. n /\ lo[i] = b /\ p = i - 1 /\ hi[p] = a
    BY <2>1, <2>2 DEF JoinsBoth
  <2> QED
    BY <2>1, <2>2, <2>3
<1> DEFINE Low(j, k) == (j < i /\ k = j) \/ (~ (j < i) /\ k = j + 1)
           High(j, k) == (j < p /\ k = j) \/ (~ (j < p) /\ k = j + 1)
<1>0. p \in 1 .. n /\ n - 1 \in Nat /\ p \in 1 .. n - 1 /\ p + 1 = i /\ p < i
  OBVIOUS
<1>1. /\ a < b /\ hi[p] = a
      /\ \A j \in 1 .. n : lo[j] \in Nat /\ hi[j] \in Nat /\ lo[j] < hi[j]
  BY DEF Spans, Gap
<1>2. \A j \in 1 .. n, k \in 1 .. n : j < k => hi[j] < lo[k]
  BY DEF Spans
<1>3. ASSUME NEW j \in 1 .. n - 1, NEW k \in 1 .. n, Low(j, k) PROVE low[j] = lo[k]
  BY <1>3 DEF Narrowed
<1>4. ASSUME NEW j \in 1 .. n - 1, NEW k \in 1 .. n, High(j, k) PROVE high[j] = hi[k]
  BY <1>4 DEF Narrowed
<1>5. ASSUME NEW j \in 1 .. n - 1
      PROVE  /\ \E k \in 1 .. n : Low(j, k)
             /\ \E k \in 1 .. n : High(j, k)
  <2>1. j \in 1 .. n /\ j + 1 \in 1 .. n
    OBVIOUS
  <2> QED
    BY <2>1
<1>6. \A j, k \in 1 .. n - 1, l, q \in 1 .. n :
        j < k /\ High(j, l) /\ Low(k, q) => l < q
  BY <1>0
<1>7. \A j \in 1 .. n - 1, l, q \in 1 .. n :
        Low(j, l) /\ High(j, q) => l = q \/ (l = p /\ q = i)
  BY <1>0
<1>8. \A l \in 1 .. n : \E j \in 1 .. n - 1 :
        (Low(j, l) /\ High(j, l)) \/ (j = p /\ (l = p \/ l = i))
  <2> TAKE l \in 1 .. n
  <2>1. CASE l < p
    <3>1. l \in 1 .. n - 1 /\ Low(l, l) /\ High(l, l)
      BY <1>0, <2>1
    <3> QED
      BY <3>1
  <2>2. CASE l = p \/ l = i
    BY <1>0, <2>2
  <2>3. CASE i < l
    <3>1. l - 1 \in 1 .. n - 1 /\ Low(l - 1, l) /\ High(l - 1, l)
      BY <1>0, <2>3
    <3> QED
      BY <3>1
  <2> QED
    BY <1>0, <2>1, <2>2, <2>3
<1>9. Low(p, p) /\ High(p, i)
  BY <1>0
<1> HIDE DEF Low, High
<1>10. low[p] = lo[p] /\ high[p] = hi[i]
  BY <1>0, <1>3, <1>4, <1>9
<1>11. /\ lo[p] < a /\ a < b /\ b < hi[i] /\ lo[p] \in Nat /\ hi[i] \in Nat
       /\ hi[p] = a /\ lo[i] = b
  BY <1>0, <1>1
<1>12. ASSUME NEW j \in 1 .. n - 1 PROVE low[j] < high[j]
  <2>1. PICK l \in 1 .. n, q \in 1 .. n : Low(j, l) /\ High(j, q)
    BY <1>5
  <2>2. low[j] = lo[l] /\ high[j] = hi[q]
    BY <1>3, <1>4, <2>1
  <2>3. CASE l = q
    BY <1>1, <2>2, <2>3
  <2>4. CASE l = p /\ q = i
    BY <1>11, <2>2, <2>4
  <2> QED
    BY <1>7, <2>1, <2>3, <2>4
<1>13. ASSUME NEW j \in 1 .. n - 1, NEW k \in 1 .. n - 1, j < k PROVE high[j] < low[k]
  <2>1. PICK l \in 1 .. n : High(j, l)
    BY <1>5
  <2>2. PICK q \in 1 .. n : Low(k, q)
    BY <1>5
  <2>3. high[j] = hi[l] /\ low[k] = lo[q] /\ l < q
    BY <1>3, <1>4, <1>6, <1>13, <2>1, <2>2
  <2> QED
    BY <1>2, <2>3
<1>14. ASSUME NEW x \in Nat
       PROVE  (\E j \in 1 .. n - 1 : low[j] <= x /\ x < high[j])
                <=> x \in a .. b - 1 \/ \E j \in 1 .. n : lo[j] <= x /\ x < hi[j]
  <2>1. ASSUME NEW j \in 1 .. n - 1, low[j] <= x /\ x < high[j]
        PROVE  x \in a .. b - 1 \/ \E k \in 1 .. n : lo[k] <= x /\ x < hi[k]
    <3>1. PICK l \in 1 .. n, q \in 1 .. n : Low(j, l) /\ High(j, q)
      BY <1>5
    <3>2. lo[l] <= x /\ x < hi[q]
      BY <1>3, <1>4, <2>1, <3>1
    <3>3. CASE l = q
      BY <3>2, <3>3
    <3>4. CASE l = p /\ q = i
      <4>1. x < hi[p] \/ x \in a .. b - 1 \/ lo[i] <= x
        BY <1>11
      <4> QED
        BY <1>0, <3>2, <3>4, <4>1
    <3> QED
      BY <1>7, <3>1, <3>3, <3>4
  <2>2. ASSUME NEW l \in 1 .. n, lo[l] <= x /\ x < hi[l]
        PROVE  \E j \in 1 .. n - 1 : low[j] <= x /\ x < high[j]
    <3>1. PICK j \in 1 .. n - 1 : (Low(j, l) /\ High(j, l)) \/ (j = p /\ (l = p \/ l = i))
      BY <1>8
    <3>2. CASE Low(j, l) /\ High(j, l)
      <4>1. low[j] = lo[l] /\ high[j] = hi[l]
        BY <1>3, <1>4, <3>2
      <4> QED
        BY <2>2, <4>1
    <3>3. CASE j = p /\ l = p
      <4>1. low[j] <= x /\ x < high[j]
        BY <1>10, <1>11, <2>2, <3>3
      <4> QED
        BY <4>1
    <3>4. CASE j = p /\ l = i
      <4>1. low[j] <= x /\ x < high[j]
        BY <1>10, <1>11, <2>2, <3>4
      <4> QED
        BY <4>1
    <3> QED
      BY <3>1, <3>2, <3>3, <3>4
  <2>3. ASSUME x \in a .. b - 1 PROVE low[p] <= x /\ x < high[p]
    BY <1>10, <1>11, <2>3
  <2> QED
    BY <1>0, <2>1, <2>2, <2>3
<1>15. Cover(n - 1, low, high) = Cover(n, lo, hi) \cup (a .. b - 1)
  <2>1. a .. b - 1 \subseteq Nat
    OBVIOUS
  <2> QED
    BY <1>14, <2>1 DEF Cover
<1>16. Spans(n - 1, low, high)
  BY <1>0, <1>12, <1>13 DEF Spans, Narrowed
<1> QED
  BY <1>15, <1>16

(* Where the ranges of a list begin, and where they end. *)
Lows(b) == [j \in 1 .. Len(b) |-> b[j].pos]
Highs(b) == [j \in 1 .. Len(b) |-> b[j].pos + b[j].count]

(* The ranges of a free list are spans. *)
LEMMA SpansOf ==
  ASSUME NEW f, Ranges(f), f.listed
  PROVE  /\ Spans(f.head, Lows(f.buckets), Highs(f.buckets))
         /\ Free(f) = Cover(f.head, Lows(f.buckets), Highs(f.buckets))
<1> DEFINE b == f.buckets
           n == f.head
<1>1. /\ n \in Nat /\ n = Len(b)
      /\ \A j \in 1 .. n : b[j].pos \in Nat /\ b[j].count \in Nat /\ b[j].count > 0
      /\ \A i, j \in 1 .. n : i < j => b[i].pos + b[i].count < b[j].pos
      /\ \A x : x \in Free(f) <=>
           /\ x \in Nat
           /\ \E j \in 1 .. n : b[j].pos <= x /\ x < b[j].pos + b[j].count
  BY ListOfRanges
<1> HIDE DEF b, n
<1>2. \A j \in 1 .. n : Lows(b)[j] = b[j].pos /\ Highs(b)[j] = b[j].pos + b[j].count
  BY <1>1 DEF Lows, Highs
<1>3. Lows(b) \in [1 .. n -> Nat] /\ Highs(b) \in [1 .. n -> Nat]
  BY <1>1 DEF Lows, Highs
<1>4. \A j \in 1 .. n : Lows(b)[j] < Highs(b)[j]
  BY <1>1, <1>2
<1>5. \A j, k \in 1 .. n : j < k => Highs(b)[j] < Lows(b)[k]
  BY <1>1, <1>2
<1>6. Spans(n, Lows(b), Highs(b))
  BY <1>1, <1>3, <1>4, <1>5 DEF Spans
<1>7. \A x : x \in Free(f) <=> x \in Cover(n, Lows(b), Highs(b))
  BY <1>1, <1>2, SMTT(60) DEF Cover
<1> QED
  BY <1>6, <1>7 DEF b, n

(* Spans are the ranges of a free list that has room for them. *)
LEMMA ListOf ==
  ASSUME NEW b \in Seq(Range1), NEW room \in Nat, Len(b) <= room, room > 0,
         Spans(Len(b), Lows(b), Highs(b))
  PROVE  /\ Ranges(WithBuckets(b, room))
         /\ Free(WithBuckets(b, room)) = Cover(Len(b), Lows(b), Highs(b))
<1> DEFINE f == WithBuckets(b, room)
<1>1. /\ f.listed = TRUE /\ f.buckets = b /\ f.head = Len(b) /\ f.nbuckets = room
      /\ Len(b) \in Nat
  BY Elements DEF WithBuckets
<1>2. f \in FreeList
  BY <1>1 DEF WithBuckets, FreeList, Range1
<1>3. \A j \in 1 .. Len(b) : Lows(b)[j] = b[j].pos /\ Highs(b)[j] = b[j].pos + b[j].count
  BY DEF Lows, Highs
<1>4. \A j, k \in 1 .. Len(b) : j < k => b[j].pos + b[j].count < b[k].pos
  BY <1>3 DEF Spans
<1> HIDE DEF f
<1>5. Ranges(f)
  BY <1>1, <1>2, <1>4 DEF Ranges
<1> QED
  BY <1>1, <1>5, SpansOf DEF f

(* The place in a free list of a range that is not free. *)
LEMMA GapOf ==
  ASSUME NEW f, Ranges(f), f.listed, NEW pos \in Nat, NEW count \in Nat \ {0},
         Free(f) \cap (pos .. pos + count - 1) = {}
  PROVE  LET i == Cardinality({j \in 1 .. f.head : f.buckets[j].pos <= pos}) + 1 IN
         /\ i \in 1 .. f.head + 1
         /\ Gap(f.head, Lows(f.buckets), Highs(f.buckets), i, pos, pos + count)
<1> DEFINE i == Cardinality({j \in 1 .. f.head : f.buckets[j].pos <= pos}) + 1
<1>1. /\ i \in 1 .. f.head + 1
      /\ \A j \in 1 .. f.head :
           IF j < i THEN f.buckets[j].pos + f.buckets[j].count <= pos
                    ELSE pos + count <= f.buckets[j].pos
  BY Between
<1>2. f.head = Len(f.buckets) /\ f.head \in Nat
  BY ListOfRanges
<1> HIDE DEF i
<1>3. \A j \in 1 .. f.head : /\ Lows(f.buckets)[j] = f.buckets[j].pos
                             /\ Highs(f.buckets)[j] = f.buckets[j].pos + f.buckets[j].count
  BY <1>2 DEF Lows, Highs
<1>4. pos + count \in Nat /\ pos < pos + count
  OBVIOUS
<1>5. Gap(f.head, Lows(f.buckets), Highs(f.buckets), i, pos, pos + count)
  BY <1>1, <1>3, <1>4 DEF Gap
<1> QED
  BY <1>1, <1>5 DEF i

(* The sequence b is of n ranges, that begin as lo and end as hi says. *)
AreRanges(b, n, lo, hi) ==
  /\ n \in Nat /\ b \in Seq(Range1) /\ Len(b) = n
  /\ lo \in [1 .. n -> Nat] /\ hi \in [1 .. n -> Nat]
  /\ \A j \in 1 .. n : b[j].pos = lo[j] /\ b[j].pos + b[j].count = hi[j]

IsRange(e, x, y) == e \in Range1 /\ x \in Nat /\ y \in Nat /\ e.pos = x /\ e.pos + e.count = y

(* Where the ranges of a sequence begin and end. *)
LEMMA RangesOf ==
  ASSUME NEW n \in Nat, NEW b \in Seq(Range1), Len(b) = n
  PROVE  AreRanges(b, n, Lows(b), Highs(b))
<1>1. \A j \in 1 .. n : b[j] \in Range1
  BY Elements
<1>2. \A j \in 1 .. n : b[j].pos \in Nat /\ b[j].pos + b[j].count \in Nat
  BY <1>1 DEF Range1
<1>3. /\ Lows(b) = [j \in 1 .. n |-> b[j].pos]
      /\ Highs(b) = [j \in 1 .. n |-> b[j].pos + b[j].count]
  BY DEF Lows, Highs
<1>4. Lows(b) \in [1 .. n -> Nat] /\ Highs(b) \in [1 .. n -> Nat]
  BY <1>2, <1>3
<1>5. \A j \in 1 .. n : b[j].pos = Lows(b)[j] /\ b[j].pos + b[j].count = Highs(b)[j]
  BY <1>3
<1> QED
  BY <1>4, <1>5 DEF AreRanges

(* It is known by them. *)
LEMMA RangesAre ==
  ASSUME NEW n, NEW b, NEW lo, NEW hi, AreRanges(b, n, lo, hi)
  PROVE  n \in Nat /\ b \in Seq(Range1) /\ Len(b) = n /\ lo = Lows(b) /\ hi = Highs(b)
<1>1. /\ n \in Nat /\ b \in Seq(Range1) /\ Len(b) = n
      /\ lo \in [1 .. n -> Nat] /\ hi \in [1 .. n -> Nat]
      /\ \A j \in 1 .. n : b[j].pos = lo[j] /\ b[j].pos + b[j].count = hi[j]
  BY DEF AreRanges
<1>2. /\ Lows(b) = [j \in 1 .. n |-> b[j].pos]
      /\ Highs(b) = [j \in 1 .. n |-> b[j].pos + b[j].count]
  BY <1>1 DEF Lows, Highs
<1> QED
  BY <1>1, <1>2

(* One is changed, *)
LEMMA RangeChanged ==
  ASSUME NEW n, NEW b, NEW lo, NEW hi, AreRanges(b, n, lo, hi), NEW i \in 1 .. n,
         NEW e, NEW x, NEW y, IsRange(e, x, y)
  PROVE  \E low, high : /\ AreRanges([b EXCEPT ![i] = e], n, low, high)
                        /\ Replaced(n, lo, i, x, low) /\ Replaced(n, hi, i, y, high)
<1> DEFINE c == [b EXCEPT ![i] = e]
           low == [lo EXCEPT ![i] = x]
           high == [hi EXCEPT ![i] = y]
<1>1. /\ n \in Nat /\ b \in Seq(Range1) /\ Len(b) = n /\ DOMAIN b = 1 .. n
      /\ lo \in [1 .. n -> Nat] /\ hi \in [1 .. n -> Nat]
      /\ \A j \in 1 .. n : b[j].pos = lo[j] /\ b[j].pos + b[j].count = hi[j]
  BY Elements DEF AreRanges
<1>2. e \in Range1 /\ x \in Nat /\ y \in Nat /\ e.pos = x /\ e.pos + e.count = y
  BY DEF IsRange
<1>3. c \in Seq(Range1) /\ Len(c) = n
  BY <1>1, <1>2, ExceptSeq
<1>4. /\ c[i] = e /\ low[i] = x /\ high[i] = y
      /\ \A j \in 1 .. n : j # i => c[j] = b[j] /\ low[j] = lo[j] /\ high[j] = hi[j]
      /\ low \in [1 .. n -> Nat] /\ high \in [1 .. n -> Nat]
  BY <1>1, <1>2
<1> HIDE DEF c, low, high
<1>5. ASSUME NEW j \in 1 .. n PROVE c[j].pos = low[j] /\ c[j].pos + c[j].count = high[j]
  BY <1>1, <1>2, <1>4, Zenon
<1>6. AreRanges(c, n, low, high)
  BY <1>1, <1>3, <1>4, <1>5 DEF AreRanges
<1>7. Replaced(n, lo, i, x, low) /\ Replaced(n, hi, i, y, high)
  BY <1>4 DEF Replaced
<1> QED
  BY <1>6, <1>7, Zenon DEF c

(* one is put between the others, *)
LEMMA RangeInserted ==
  ASSUME NEW n, NEW b, NEW lo, NEW hi, AreRanges(b, n, lo, hi), NEW i \in 1 .. n + 1,
         NEW e, NEW x, NEW y, IsRange(e, x, y)
  PROVE  \E low, high : /\ AreRanges(InsertAt(b, i, e), n + 1, low, high)
                        /\ Widened(n, lo, i, x, low) /\ Widened(n, hi, i, y, high)
<1> DEFINE c == InsertAt(b, i, e)
           low == [j \in 1 .. n + 1 |-> IF j < i THEN lo[j] ELSE IF j = i THEN x ELSE lo[j - 1]]
           high == [j \in 1 .. n + 1 |-> IF j < i THEN hi[j] ELSE IF j = i THEN y ELSE hi[j - 1]]
<1>1. /\ n \in Nat /\ b \in Seq(Range1) /\ Len(b) = n
      /\ lo \in [1 .. n -> Nat] /\ hi \in [1 .. n -> Nat]
      /\ \A j \in 1 .. n : b[j].pos = lo[j] /\ b[j].pos + b[j].count = hi[j]
  BY DEF AreRanges
<1>2. e \in Range1 /\ x \in Nat /\ y \in Nat /\ e.pos = x /\ e.pos + e.count = y
  BY DEF IsRange
<1>3. /\ c \in Seq(Range1) /\ Len(c) = n + 1
      /\ \A j \in 1 .. n + 1 : c[j] = IF j < i THEN b[j] ELSE IF j = i THEN e ELSE b[j - 1]
  <2>1. b \in Seq(Range1) /\ e \in Range1 /\ i \in 1 .. Len(b) + 1 /\ Len(b) = n
    BY <1>1, <1>2
  <2>2. PICK T : T = Range1
    OBVIOUS
  <2>3. b \in Seq(T) /\ e \in T
    BY <2>1, <2>2
  <2>4. /\ c \in Seq(T) /\ Len(c) = Len(b) + 1
        /\ \A j \in 1 .. Len(b) + 1 :
             c[j] = IF j < i THEN b[j] ELSE IF j = i THEN e ELSE b[j - 1]
    <3>1. i \in 1 .. Len(b) + 1
      BY <2>1
    <3> QED
      BY <2>3, <3>1, Inserted, SMTT(30)
  <2> HIDE DEF c
  <2> QED
    BY <2>1, <2>2, <2>4
<1>4. low \in [1 .. n + 1 -> Nat] /\ high \in [1 .. n + 1 -> Nat]
  <2>1. ASSUME NEW j \in 1 .. n + 1
        PROVE  (j < i => j \in 1 .. n) /\ (~ (j < i) /\ j # i => j - 1 \in 1 .. n)
    BY <1>1
  <2> QED
    BY <1>1, <1>2, <2>1
<1>5. \A j \in 1 .. n + 1 :
        /\ low[j] = IF j < i THEN lo[j] ELSE IF j = i THEN x ELSE lo[j - 1]
        /\ high[j] = IF j < i THEN hi[j] ELSE IF j = i THEN y ELSE hi[j - 1]
  OBVIOUS
<1> HIDE DEF c, low, high
<1>6. ASSUME NEW j \in 1 .. n + 1 PROVE c[j].pos = low[j] /\ c[j].pos + c[j].count = high[j]
  <2>1. CASE j < i
    <3>1. j \in 1 .. n
      BY <1>1, <2>1
    <3>2. c[j] = b[j] /\ low[j] = lo[j] /\ high[j] = hi[j]
      BY <1>3, <1>5, <2>1
    <3> QED
      BY <1>1, <3>1, <3>2, Zenon
  <2>2. CASE j = i
    <3>1. c[j] = e /\ low[j] = x /\ high[j] = y
      BY <1>3, <1>5, <2>2
    <3> QED
      BY <1>2, <3>1, Zenon
  <2>3. CASE i < j
    <3>1. j - 1 \in 1 .. n
      BY <1>1, <2>3
    <3>2. c[j] = b[j - 1] /\ low[j] = lo[j - 1] /\ high[j] = hi[j - 1]
      BY <1>3, <1>5, <2>3
    <3> QED
      BY <1>1, <3>1, <3>2, Zenon
  <2> QED
    BY <1>1, <2>1, <2>2, <2>3
<1>7. AreRanges(c, n + 1, low, high)
  BY <1>1, <1>3, <1>4, <1>6 DEF AreRanges
<1>8. Widened(n, lo, i, x, low) /\ Widened(n, hi, i, y, high)
  BY <1>4, <1>5 DEF Widened
<1> QED
  BY <1>7, <1>8, Zenon DEF c

(* one is taken out. *)
LEMMA RangeRemoved ==
  ASSUME NEW n, NEW b, NEW lo, NEW hi, AreRanges(b, n, lo, hi), NEW i \in 1 .. n
  PROVE  \E low, high : /\ AreRanges(RemoveAt(b, i), n - 1, low, high)
                        /\ Narrowed(n, lo, i, low) /\ Narrowed(n, hi, i, high)
<1> DEFINE c == RemoveAt(b, i)
           low == [j \in 1 .. n - 1 |-> IF j < i THEN lo[j] ELSE lo[j + 1]]
           high == [j \in 1 .. n - 1 |-> IF j < i THEN hi[j] ELSE hi[j + 1]]
<1>1. /\ n \in Nat /\ b \in Seq(Range1) /\ Len(b) = n
      /\ lo \in [1 .. n -> Nat] /\ hi \in [1 .. n -> Nat]
      /\ \A j \in 1 .. n : b[j].pos = lo[j] /\ b[j].pos + b[j].count = hi[j]
  BY DEF AreRanges
<1>2. /\ c \in Seq(Range1) /\ Len(c) = n - 1
      /\ \A j \in 1 .. n - 1 : c[j] = IF j < i THEN b[j] ELSE b[j + 1]
  BY <1>1, Removed
<1>3. low \in [1 .. n - 1 -> Nat] /\ high \in [1 .. n - 1 -> Nat]
  <2>1. ASSUME NEW j \in 1 .. n - 1 PROVE j \in 1 .. n /\ j + 1 \in 1 .. n
    BY <1>1
  <2> QED
    BY <1>1, <2>1
<1>4. \A j \in 1 .. n - 1 : /\ low[j] = IF j < i THEN lo[j] ELSE lo[j + 1]
                            /\ high[j] = IF j < i THEN hi[j] ELSE hi[j + 1]
  OBVIOUS
<1> HIDE DEF c, low, high
<1>5. ASSUME NEW j \in 1 .. n - 1 PROVE c[j].pos = low[j] /\ c[j].pos + c[j].count = high[j]
  <2>1. j \in 1 .. n /\ j + 1 \in 1 .. n
    BY <1>1
  <2>2. \/ c[j] = b[j] /\ low[j] = lo[j] /\ high[j] = hi[j]
        \/ c[j] = b[j + 1] /\ low[j] = lo[j + 1] /\ high[j] = hi[j + 1]
    BY <1>2, <1>4
  <2> QED
    BY <1>1, <2>1, <2>2, Zenon
<1>6. n - 1 \in Nat
  BY <1>1
<1>7. AreRanges(c, n - 1, low, high)
  BY <1>2, <1>3, <1>5, <1>6 DEF AreRanges
<1>8. Narrowed(n, lo, i, low) /\ Narrowed(n, hi, i, high)
  BY <1>3, <1>4 DEF Narrowed
<1> QED
  BY <1>7, <1>8, Zenon DEF c

(* A range that is made to end where the next one does, and the next one removed. *)
Adjacent(n, s, i, p) == n \in Nat /\ s \in [1 .. n -> Nat] /\ i \in 2 .. n /\ p = i - 1

(* The range before, made to end where the one behind does, which is removed. *)
LEMMA Merged ==
  ASSUME NEW n, NEW s, NEW i, NEW p, Adjacent(n, s, i, p),
         NEW t, NEW r, Narrowed(n, t, i, r)
  PROVE  /\ Replaced(n, s, p, s[p], t) => Narrowed(n, s, i, r)
         /\ Replaced(n, s, p, s[i], t) => Narrowed(n, s, p, r)
<1> SUFFICES ASSUME n \in Nat, s \in [1 .. n -> Nat], i \in 2 .. n, p = i - 1
             PROVE  /\ Replaced(n, s, p, s[p], t) => Narrowed(n, s, i, r)
                    /\ Replaced(n, s, p, s[i], t) => Narrowed(n, s, p, r)
  BY DEF Adjacent
<1>1. /\ r \in [1 .. n - 1 -> Nat]
      /\ \A j \in 1 .. n - 1 : r[j] = IF j < i THEN t[j] ELSE t[j + 1]
  BY DEF Narrowed
<1>2. p \in 1 .. n - 1 /\ p \in 1 .. n
  OBVIOUS
<1>3. ASSUME Replaced(n, s, p, s[p], t) PROVE Narrowed(n, s, i, r)
  <2>1. \A j \in 1 .. n : t[j] = s[j]
    BY <1>2, <1>3 DEF Replaced
  <2>2. \A j \in 1 .. n - 1 : j \in 1 .. n /\ j + 1 \in 1 .. n
    OBVIOUS
  <2>3. \A j \in 1 .. n - 1 : r[j] = IF j < i THEN s[j] ELSE s[j + 1]
    BY <1>1, <2>1, <2>2
  <2> QED
    BY <1>1, <2>3 DEF Narrowed
<1>4. ASSUME Replaced(n, s, p, s[i], t) PROVE Narrowed(n, s, p, r)
  <2>1. t[p] = s[i] /\ \A j \in 1 .. n : j # p => t[j] = s[j]
    BY <1>4 DEF Replaced
  <2>2. ASSUME NEW j \in 1 .. n - 1 PROVE r[j] = IF j < p THEN s[j] ELSE s[j + 1]
    <3>1. j \in 1 .. n /\ j + 1 \in 1 .. n
      OBVIOUS
    <3>2. CASE j < p
      <4>1. j < i /\ j # p
        BY <3>2
      <4>2. r[j] = t[j] /\ t[j] = s[j]
        BY <1>1, <2>1, <3>1, <4>1
      <4> QED
        BY <3>2, <4>2
    <3>3. CASE j = p
      <4>1. j < i /\ j + 1 = i /\ ~ (j < p)
        BY <3>3
      <4>2. r[j] = t[j] /\ t[j] = s[i]
        BY <1>1, <2>1, <3>3, <4>1
      <4> QED
        BY <4>1, <4>2
    <3>4. CASE p < j
      <4>1. ~ (j < i) /\ ~ (j < p) /\ j + 1 # p
        BY <3>4
      <4>2. r[j] = t[j + 1] /\ t[j + 1] = s[j + 1]
        BY <1>1, <2>1, <3>1, <4>1
      <4> QED
        BY <4>1, <4>2
    <3> QED
      BY <1>2, <3>2, <3>3, <3>4
  <2> QED
    BY <1>1, <2>2 DEF Narrowed
<1> QED
  BY <1>3, <1>4

(* Buckets are ranges. *)
LEMMA BucketIs ==
  ASSUME NEW q \in Nat, NEW k \in Nat \ {0}
  PROVE  /\ Bucket(q, k) \in Range1
         /\ \A y : y = q + k => IsRange(Bucket(q, k), q, y)
         /\ \A x \in Range1 : [x EXCEPT !.count = k] = Bucket(x.pos, k)
  BY DEF Bucket, Range1, IsRange

(* The ranges of a sequence, one by one. *)
LEMMA EachRange ==
  ASSUME NEW n, NEW b, NEW lo, NEW hi, AreRanges(b, n, lo, hi), NEW j \in 1 .. n
  PROVE  /\ n \in Nat /\ b[j] \in Range1 /\ b[j].pos \in Nat /\ b[j].count \in Nat
         /\ lo \in [1 .. n -> Nat] /\ hi \in [1 .. n -> Nat]
         /\ lo[j] \in Nat /\ hi[j] \in Nat
         /\ b[j].pos = lo[j] /\ b[j].pos + b[j].count = hi[j]
<1>1. /\ n \in Nat /\ b \in Seq(Range1) /\ Len(b) = n
      /\ lo \in [1 .. n -> Nat] /\ hi \in [1 .. n -> Nat]
      /\ b[j].pos = lo[j] /\ b[j].pos + b[j].count = hi[j]
  BY DEF AreRanges
<1>2. b[j] \in Range1
  BY <1>1, Elements
<1>3. b[j].pos \in Nat /\ b[j].count \in Nat
  BY <1>2 DEF Range1
<1>4. lo[j] \in Nat /\ hi[j] \in Nat
  BY <1>1
<1> QED
  BY <1>1, <1>2, <1>3, <1>4

(* The ranges b and the ones of a list with room, q of them, that cover more. *)
Covers(b, q, n, lo, hi, pos, end) ==
  \E low, high : /\ AreRanges(b, q, low, high) /\ Spans(q, low, high)
                 /\ Cover(q, low, high) = Cover(n, lo, hi) \cup (pos .. end - 1)

(* What the ranges become when one is put where it joins its neighbours: the four
   cases of hl_freelist_add_range. *)
LEMMA JoinedBoth ==
  ASSUME NEW n, NEW b, NEW lo, NEW hi, AreRanges(b, n, lo, hi), Spans(n, lo, hi),
         NEW pos \in Nat, NEW count \in Nat, NEW end \in Nat, end = pos + count,
         NEW i \in 2 .. n, NEW p \in 1 .. n, Gap(n, lo, hi, i, pos, end),
         JoinsBoth(n, lo, hi, i, p, pos, end)
  PROVE  Covers(RemoveAt([b EXCEPT ![p].count = @ + count + b[i].count], i), n - 1,
                n, lo, hi, pos, end)
<1>1. i \in 1 .. n
  OBVIOUS
<1>2. /\ n \in Nat /\ b[p] \in Range1 /\ b[p].pos \in Nat /\ b[p].count \in Nat
      /\ lo \in [1 .. n -> Nat] /\ hi \in [1 .. n -> Nat]
      /\ b[p].pos = lo[p] /\ b[p].pos + b[p].count = hi[p]
  BY EachRange
<1>3. b[i].pos \in Nat /\ b[i].count \in Nat /\ b[i].pos = lo[i] /\ b[i].pos + b[i].count = hi[i]
  BY <1>1, EachRange
<1>4. pos < end
  BY DEF Gap
<1>5. PICK k \in Nat \ {0} : k = b[p].count + count + b[i].count /\ hi[i] = b[p].pos + k
  <2>1. PICK x \in Nat, y \in Nat, v \in Nat, w \in Nat :
          x = b[p].pos /\ y = b[p].count /\ v = b[i].count /\ w = hi[i]
    <3>1. hi[i] \in Nat
      BY <1>1, <1>2
    <3> QED
      BY <1>2, <1>3, <3>1
  <2>2. x + y = pos /\ end + v = w
    BY <1>2, <1>3, <2>1 DEF JoinsBoth
  <2>3. y + count + v \in Nat \ {0} /\ w = x + (y + count + v)
    BY <1>4, <2>2
  <2> QED
    BY <2>1, <2>3
<1>0. Adjacent(n, lo, i, p) /\ Adjacent(n, hi, i, p)
  BY <1>2 DEF Adjacent, JoinsBoth
<1>6. PICK e : e = Bucket(b[p].pos, k)
  OBVIOUS
<1>7. IsRange(e, lo[p], hi[i]) /\ [b[p] EXCEPT !.count = k] = e
  BY <1>2, <1>5, <1>6, BucketIs, Zenon
<1>8. PICK c, d : c = [b EXCEPT ![p] = e] /\ d = RemoveAt(c, i)
  OBVIOUS
<1>9. RemoveAt([b EXCEPT ![p].count = @ + count + b[i].count], i) = d
  BY <1>5, <1>7, <1>8, Zenon
<1>10. PICK t, u : /\ AreRanges(c, n, t, u)
                   /\ Replaced(n, lo, p, lo[p], t) /\ Replaced(n, hi, p, hi[i], u)
  BY <1>7, <1>8, RangeChanged, Zenon
<1>11. PICK low, high : /\ AreRanges(d, n - 1, low, high)
                        /\ Narrowed(n, t, i, low) /\ Narrowed(n, u, i, high)
  BY <1>1, <1>8, <1>10, RangeRemoved, Zenon
<1>12. Narrowed(n, lo, i, low) /\ Narrowed(n, hi, p, high)
  BY <1>0, <1>10, <1>11, Merged
<1>13. /\ Spans(n - 1, low, high)
       /\ Cover(n - 1, low, high) = Cover(n, lo, hi) \cup (pos .. end - 1)
  BY <1>12, GapJoinsBoth
<1> QED
  BY <1>9, <1>11, <1>13, Zenon DEF Covers

(* The buckets, when a range joins the one behind it (hl_freelist_add_range); *)
LEMMA JoinedNext ==
  ASSUME NEW n, NEW b, NEW lo, NEW hi, AreRanges(b, n, lo, hi), Spans(n, lo, hi),
         NEW pos \in Nat, NEW count \in Nat, NEW end \in Nat, end = pos + count,
         NEW i \in 1 .. n, Gap(n, lo, hi, i, pos, end), JoinsNext(n, lo, hi, i, pos, end)
  PROVE  Covers([b EXCEPT ![i] = Bucket(pos, @.count + count)], n, n, lo, hi, pos, end)
<1>1. /\ n \in Nat /\ b[i].pos \in Nat /\ b[i].count \in Nat
      /\ lo \in [1 .. n -> Nat] /\ hi \in [1 .. n -> Nat]
      /\ b[i].pos = lo[i] /\ b[i].pos + b[i].count = hi[i]
  BY EachRange
<1>2. pos < end
  BY DEF Gap
<1>3. PICK k \in Nat \ {0} : k = b[i].count + count /\ hi[i] = pos + k
  <2>1. PICK v \in Nat, w \in Nat : v = b[i].count /\ w = hi[i] /\ end + v = w
    BY <1>1 DEF JoinsNext
  <2>2. v + count \in Nat \ {0} /\ w = pos + (v + count)
    BY <1>2, <2>1
  <2> QED
    BY <2>1, <2>2
<1>4. PICK e : e = Bucket(pos, k)
  OBVIOUS
<1>5. IsRange(e, pos, hi[i])
  BY <1>3, <1>4, BucketIs, Zenon
<1>6. PICK d : d = [b EXCEPT ![i] = e]
  OBVIOUS
<1>7. [b EXCEPT ![i] = Bucket(pos, @.count + count)] = d
  BY <1>3, <1>4, <1>6, Zenon
<1>8. PICK low, high : /\ AreRanges(d, n, low, high)
                       /\ Replaced(n, lo, i, pos, low) /\ Replaced(n, hi, i, hi[i], high)
  BY <1>5, <1>6, RangeChanged, Zenon
<1>9. high = hi
  BY <1>1, <1>8 DEF Replaced
<1>10. /\ Spans(n, low, hi)
       /\ Cover(n, low, hi) = Cover(n, lo, hi) \cup (pos .. end - 1)
  BY <1>8, GapJoinsNext
<1> QED
  BY <1>7, <1>8, <1>9, <1>10, Zenon DEF Covers

(* when it joins the one before it; *)
LEMMA JoinedPrev ==
  ASSUME NEW n, NEW b, NEW lo, NEW hi, AreRanges(b, n, lo, hi), Spans(n, lo, hi),
         NEW pos \in Nat, NEW count \in Nat, NEW end \in Nat, end = pos + count,
         NEW i, NEW p \in 1 .. n, Gap(n, lo, hi, i, pos, end),
         JoinsPrev(n, lo, hi, i, p, pos, end)
  PROVE  Covers([b EXCEPT ![p].count = @ + count], n, n, lo, hi, pos, end)
<1>1. /\ n \in Nat /\ b[p] \in Range1 /\ b[p].pos \in Nat /\ b[p].count \in Nat
      /\ lo \in [1 .. n -> Nat] /\ hi \in [1 .. n -> Nat]
      /\ b[p].pos = lo[p] /\ b[p].pos + b[p].count = hi[p]
  BY EachRange
<1>2. pos < end
  BY DEF Gap
<1>3. PICK k \in Nat \ {0} : k = b[p].count + count /\ end = b[p].pos + k
  <2>1. PICK x \in Nat, v \in Nat : x = b[p].pos /\ v = b[p].count /\ x + v = pos
    BY <1>1 DEF JoinsPrev
  <2>2. v + count \in Nat \ {0} /\ end = x + (v + count)
    BY <1>2, <2>1
  <2> QED
    BY <2>1, <2>2
<1>4. PICK e : e = Bucket(b[p].pos, k)
  OBVIOUS
<1>5. IsRange(e, lo[p], end) /\ [b[p] EXCEPT !.count = k] = e
  BY <1>1, <1>3, <1>4, BucketIs, Zenon
<1>6. PICK d : d = [b EXCEPT ![p] = e]
  OBVIOUS
<1>7. [b EXCEPT ![p].count = @ + count] = d
  BY <1>3, <1>5, <1>6, Zenon
<1>8. PICK low, high : /\ AreRanges(d, n, low, high)
                       /\ Replaced(n, lo, p, lo[p], low) /\ Replaced(n, hi, p, end, high)
  BY <1>5, <1>6, RangeChanged, Zenon
<1>9. low = lo
  BY <1>1, <1>8 DEF Replaced
<1>10. /\ Spans(n, lo, high)
       /\ Cover(n, lo, high) = Cover(n, lo, hi) \cup (pos .. end - 1)
  BY <1>8, <1>9, GapJoinsPrev
<1> QED
  BY <1>7, <1>8, <1>9, <1>10, Zenon DEF Covers

(* and when it joins none, and is a bucket of its own. *)
LEMMA Alone ==
  ASSUME NEW n \in Nat, NEW b, NEW lo, NEW hi, AreRanges(b, n, lo, hi), Spans(n, lo, hi),
         NEW pos \in Nat, NEW count \in Nat, NEW end \in Nat, end = pos + count,
         NEW i \in 1 .. n + 1, Gap(n, lo, hi, i, pos, end), Filled(n, lo, hi, i, pos, end)
  PROVE  Covers(InsertAt(b, i, Bucket(pos, count)), n + 1, n, lo, hi, pos, end)
<1>1. n \in Nat /\ lo \in [1 .. n -> Nat] /\ hi \in [1 .. n -> Nat]
  BY DEF AreRanges
<1>2. pos < end
  BY DEF Gap
<1>3. count \in Nat \ {0}
  BY <1>2
<1>4. PICK e : e = Bucket(pos, count)
  OBVIOUS
<1>5. IsRange(e, pos, end)
  BY <1>3, <1>4, BucketIs, Zenon
<1>6. PICK low, high : /\ AreRanges(InsertAt(b, i, e), n + 1, low, high)
                       /\ Widened(n, lo, i, pos, low) /\ Widened(n, hi, i, end, high)
  BY <1>5, RangeInserted, Zenon
<1>7. /\ Spans(n + 1, low, high)
      /\ Cover(n + 1, low, high) = Cover(n, lo, hi) \cup (pos .. end - 1)
  BY <1>6, GapFilled
<1> QED
  BY <1>4, <1>6, <1>7, Zenon DEF Covers

(* A range that is not free is put into a free list, and joined to those that it
   reaches. *)
LEMMA InsertRangeKeeps ==
  ASSUME NEW f, Ranges(f), f.listed, NEW pos \in Nat, NEW count \in Nat \ {0},
         Free(f) \cap (pos .. pos + count - 1) = {}
  PROVE  /\ Ranges(InsertRange(f, pos, count))
         /\ Free(InsertRange(f, pos, count)) = Free(f) \cup (pos .. pos + count - 1)
<1>1. /\ f.head \in Nat /\ f.nbuckets \in Nat /\ f.buckets \in Seq(Range1)
      /\ f.head = Len(f.buckets) /\ f.head <= f.nbuckets /\ f.nbuckets > 0
  BY ListOfRanges
<1>0. PICK b, lo, hi : b = f.buckets /\ lo = Lows(b) /\ hi = Highs(b)
  OBVIOUS
<1>2. PICK n \in Nat, room \in Nat, end \in Nat :
        /\ n = f.head /\ room = f.nbuckets /\ end = pos + count
        /\ n <= room /\ room > 0
  BY <1>1
<1>3. AreRanges(b, n, lo, hi)
  BY <1>0, <1>1, <1>2, RangesOf, Zenon
<1>4. Spans(n, lo, hi) /\ Free(f) = Cover(n, lo, hi)
  BY <1>0, <1>2, SpansOf, Zenon
<1>5. PICK i \in Nat : i = Cardinality({j \in 1 .. n : b[j].pos <= pos}) + 1
                       /\ i \in 1 .. n + 1 /\ Gap(n, lo, hi, i, pos, end)
  <2> DEFINE i == Cardinality({j \in 1 .. f.head : f.buckets[j].pos <= pos}) + 1
  <2>1. /\ i \in 1 .. f.head + 1
        /\ Gap(f.head, Lows(f.buckets), Highs(f.buckets), i, pos, pos + count)
    BY GapOf
  <2>2. i = Cardinality({j \in 1 .. n : b[j].pos <= pos}) + 1
    BY <1>0, <1>2, Zenon
  <2> HIDE DEF i
  <2>3. i \in 1 .. n + 1 /\ i \in Nat /\ Gap(n, lo, hi, i, pos, end)
    BY <1>0, <1>2, <2>1
  <2> QED
    BY <2>2, <2>3, Zenon
<1>6. PICK p \in Int : p = i - 1
  OBVIOUS
<1>7. PICK r : r = InsertRange(f, pos, count)
  OBVIOUS
<1> SUFFICES Ranges(r) /\ Free(r) = Cover(n, lo, hi) \cup (pos .. end - 1)
  BY <1>2, <1>4, <1>7
<1> DEFINE joinsNext == i <= n /\ b[i].pos = end
           joinsPrev == i > 1 /\ b[p].pos + b[p].count = pos
<1>8. r = CASE joinsNext /\ joinsPrev ->
                 WithBuckets(RemoveAt([b EXCEPT ![p].count = @ + count + b[i].count], i), room)
            [] joinsNext /\ ~ joinsPrev ->
                 WithBuckets([b EXCEPT ![i] = Bucket(pos, @.count + count)], room)
            [] ~ joinsNext /\ joinsPrev ->
                 WithBuckets([b EXCEPT ![p].count = @ + count], room)
            [] OTHER ->
                 WithBuckets(InsertAt(b, i, Bucket(pos, count)),
                        IF n = room THEN (room * 3 + 1) \div 2 ELSE room)
  BY <1>0, <1>2, <1>5, <1>6, <1>7, Zenon DEF InsertRange
<1>9. ASSUME NEW d, NEW q \in Nat, Covers(d, q, n, lo, hi, pos, end),
             NEW k \in Nat, k >= q, k > 0, r = WithBuckets(d, k)
      PROVE  Ranges(r) /\ Free(r) = Cover(n, lo, hi) \cup (pos .. end - 1)
  <2>1. PICK low, high : /\ AreRanges(d, q, low, high) /\ Spans(q, low, high)
                         /\ Cover(q, low, high) = Cover(n, lo, hi) \cup (pos .. end - 1)
    BY <1>9, Zenon DEF Covers
  <2>2. q \in Nat /\ d \in Seq(Range1) /\ Len(d) = q /\ low = Lows(d) /\ high = Highs(d)
    BY <2>1, RangesAre, Zenon
  <2>3. Len(d) <= k
    BY <1>9, <2>2
  <2>4. Spans(Len(d), Lows(d), Highs(d))
    BY <2>1, <2>2, Zenon
  <2>5. /\ Ranges(WithBuckets(d, k))
        /\ Free(WithBuckets(d, k)) = Cover(Len(d), Lows(d), Highs(d))
    BY <1>9, <2>2, <2>3, <2>4, ListOf, Zenon
  <2> QED
    BY <1>9, <2>1, <2>2, <2>5, Zenon
<1>10. \A j \in 1 .. n : lo[j] = b[j].pos /\ hi[j] = b[j].pos + b[j].count
  BY <1>3, Zenon DEF AreRanges
<1>11. /\ i \in 1 .. n + 1 /\ (i > 1 => p \in 1 .. n) /\ (i <= n => i \in 1 .. n)
       /\ (joinsPrev => lo[p] = b[p].pos /\ hi[p] = pos) /\ (i > 1 /\ hi[p] = pos => joinsPrev)
       /\ (joinsNext <=> i <= n /\ lo[i] = end)
  <2>1. i \in 1 .. n + 1 /\ (i > 1 => p \in 1 .. n) /\ (i <= n => i \in 1 .. n)
    BY <1>5, <1>6
  <2> QED
    BY <1>10, <2>1, Zenon
<1>12. CASE joinsNext /\ joinsPrev
  <2>1. i \in 2 .. n /\ p \in 1 .. n /\ n - 1 \in Nat /\ room >= n - 1 /\ room > 0
    BY <1>2, <1>11, <1>12
  <2>2. JoinsBoth(n, lo, hi, i, p, pos, end)
    BY <1>6, <1>11, <1>12, Zenon DEF JoinsBoth
  <2>3. r = WithBuckets(RemoveAt([b EXCEPT ![p].count = @ + count + b[i].count], i), room)
    BY <1>8, <1>12, Zenon
  <2>4. Covers(RemoveAt([b EXCEPT ![p].count = @ + count + b[i].count], i), n - 1,
               n, lo, hi, pos, end)
    BY <1>2, <1>3, <1>4, <1>5, <2>1, <2>2, JoinedBoth, Zenon
  <2> QED
    BY <1>9, <2>1, <2>3, <2>4, Zenon
<1>13. CASE joinsNext /\ ~ joinsPrev
  <2>1. i \in 1 .. n /\ room >= n /\ room > 0
    BY <1>2, <1>11, <1>13
  <2>2. JoinsNext(n, lo, hi, i, pos, end)
    BY <1>6, <1>11, <1>13, Zenon DEF JoinsNext
  <2>3. r = WithBuckets([b EXCEPT ![i] = Bucket(pos, @.count + count)], room)
    BY <1>8, <1>13, Zenon
  <2>4. Covers([b EXCEPT ![i] = Bucket(pos, @.count + count)], n, n, lo, hi, pos, end)
    BY <1>2, <1>3, <1>4, <1>5, <2>1, <2>2, JoinedNext, Zenon
  <2> QED
    BY <1>9, <2>1, <2>3, <2>4, Zenon
<1>14. CASE ~ joinsNext /\ joinsPrev
  <2>1. p \in 1 .. n /\ room >= n /\ room > 0
    BY <1>2, <1>11, <1>14
  <2>2. JoinsPrev(n, lo, hi, i, p, pos, end)
    BY <1>6, <1>11, <1>14, Zenon DEF JoinsPrev
  <2>3. r = WithBuckets([b EXCEPT ![p].count = @ + count], room)
    BY <1>8, <1>14, Zenon
  <2>4. Covers([b EXCEPT ![p].count = @ + count], n, n, lo, hi, pos, end)
    BY <1>2, <1>3, <1>4, <1>5, <2>1, <2>2, JoinedPrev, Zenon
  <2> QED
    BY <1>9, <2>1, <2>3, <2>4, Zenon
<1>15. CASE ~ joinsNext /\ ~ joinsPrev
  <2>1. PICK k \in Nat : /\ k = IF n = room THEN (room * 3 + 1) \div 2 ELSE room
                         /\ k >= n + 1 /\ k > 0
    BY <1>2
  <2>2. Filled(n, lo, hi, i, pos, end)
    BY <1>6, <1>11, <1>15, Zenon DEF Filled
  <2>3. r = WithBuckets(InsertAt(b, i, Bucket(pos, count)), k)
    BY <1>8, <1>15, <2>1, Zenon
  <2>4. Covers(InsertAt(b, i, Bucket(pos, count)), n + 1, n, lo, hi, pos, end)
    BY <1>2, <1>3, <1>4, <1>5, <2>2, Alone, Zenon
  <2>5. n + 1 \in Nat
    OBVIOUS
  <2> QED
    BY <1>9, <2>1, <2>3, <2>4, <2>5, Zenon
<1> QED
  BY <1>12, <1>13, <1>14, <1>15
(* A free list that is one range, and what is free in it. *)
LEMMA OneRange ==
  ASSUME NEW f, Ranges(f), ~ f.listed
  PROVE  /\ f \in FreeList /\ f.head \in Nat /\ f.nbuckets \in Nat
         /\ Free(f) = f.head .. f.head + f.nbuckets - 1
  BY DEF Ranges, FreeList, Free

(* What is made of it. *)
RangeOf(f, h, k) == [f EXCEPT !.head = h, !.nbuckets = k]

(* A list that is one range stays one, with another start and length. *)
LEMMA OneRangeMade ==
  ASSUME NEW f, Ranges(f), ~ f.listed, NEW h \in Nat, NEW k \in Nat
  PROVE  /\ Ranges(RangeOf(f, h, k)) /\ ~ RangeOf(f, h, k).listed
         /\ Free(RangeOf(f, h, k)) = h .. h + k - 1
<1> DEFINE g == RangeOf(f, h, k)
<1>1. g \in FreeList /\ g.listed = f.listed /\ g.head = h /\ g.nbuckets = k
  BY DEF Ranges, FreeList, RangeOf
<1> HIDE DEF g
<1>2. Ranges(g) /\ ~ g.listed /\ Free(g) = h .. h + k - 1
  BY <1>1 DEF Ranges, Free
<1> QED
  BY <1>2 DEF g

(* What is added to a free list is free, and nothing else is. *)
LEMMA AddRangeKeeps ==
  ASSUME NEW f, Ranges(f), NEW pos \in Nat, NEW count \in Nat \ {0},
         Free(f) \cap (pos .. pos + count - 1) = {}
  PROVE  /\ Ranges(AddRange(f, pos, count))
         /\ Free(AddRange(f, pos, count)) = Free(f) \cup (pos .. pos + count - 1)
<1> DEFINE r == AddRange(f, pos, count)
<1>1. CASE f.listed
  <2>1. r = InsertRange(f, pos, count)
    BY <1>1 DEF AddRange
  <2> QED
    BY <1>1, <2>1, InsertRangeKeeps
<1>2. CASE ~ f.listed
  <2>1. PICK h \in Nat, k \in Nat : h = f.head /\ k = f.nbuckets
    BY <1>2, OneRange
  <2>2. Free(f) = h .. h + k - 1
    BY <1>2, <2>1, OneRange
  <2>3. CASE k = 0
    <3>1. r = RangeOf(f, pos, count)
      BY <1>2, <2>1, <2>3 DEF AddRange, RangeOf
    <3>2. Ranges(r) /\ Free(r) = pos .. pos + count - 1
      BY <1>2, <3>1, OneRangeMade
    <3>3. Free(f) = {}
      BY <2>2, <2>3
    <3> QED
      BY <3>2, <3>3
  <2>4. CASE k > 0 /\ h + k = pos
    <3>1. r = RangeOf(f, h, k + count)
      <4>1. f = [f EXCEPT !.head = h]
        BY <2>1 DEF Ranges, FreeList
      <4>2. r = [f EXCEPT !.nbuckets = k + count]
        BY <1>2, <2>1, <2>4 DEF AddRange
      <4> QED
        BY <4>1, <4>2, Zenon DEF RangeOf
    <3>2. Ranges(r) /\ Free(r) = h .. h + (k + count) - 1
      BY <1>2, <3>1, OneRangeMade
    <3>3. h .. h + (k + count) - 1 = (h .. h + k - 1) \cup (pos .. pos + count - 1)
      BY <2>4
    <3> QED
      BY <2>2, <3>2, <3>3
  <2>5. CASE k > 0 /\ h + k # pos /\ pos + count = h
    <3>1. r = RangeOf(f, pos, k + count)
      BY <1>2, <2>1, <2>5 DEF AddRange, RangeOf
    <3>2. Ranges(r) /\ Free(r) = pos .. pos + (k + count) - 1
      BY <1>2, <3>1, OneRangeMade
    <3>3. pos .. pos + (k + count) - 1 = (h .. h + k - 1) \cup (pos .. pos + count - 1)
      BY <2>5
    <3> QED
      BY <2>2, <3>2, <3>3
  <2>6. CASE k > 0 /\ h + k # pos /\ pos + count # h
    <3> DEFINE e == Bucket(h, k)
               b == <<e>>
               g == WithBuckets(b, 2)
    <3>1. r = InsertRange(g, pos, count)
      <4>1. /\ f.nbuckets # 0 /\ f.nbuckets > 0 /\ f.head + f.nbuckets # pos
            /\ pos + count # f.head
        BY <2>1, <2>6
      <4> QED
        BY <1>2, <2>1, <4>1, Zenon DEF AddRange
    <3>2. IsRange(e, h, h + k) /\ e \in Range1
      BY <2>6, BucketIs
    <3>3. b \in Seq(Range1) /\ Len(b) = 1 /\ b[1] = e
      BY <3>2
    <3>4. AreRanges(b, 1, Lows(b), Highs(b))
      BY <3>3, RangesOf
    <3> HIDE DEF b
    <3>5. Lows(b)[1] = h /\ Highs(b)[1] = h + k
      BY <3>2, <3>3, <3>4 DEF AreRanges, IsRange
    <3>6. Spans(1, Lows(b), Highs(b))
      BY <2>6, <3>4, <3>5 DEF Spans, AreRanges
    <3>7. Ranges(g) /\ Free(g) = Cover(1, Lows(b), Highs(b))
      <4>1. 2 \in Nat /\ Len(b) <= 2 /\ 2 > 0
        BY <3>3
      <4> QED
        BY <3>3, <3>6, <4>1, ListOf, Zenon
    <3>8. Cover(1, Lows(b), Highs(b)) = h .. h + k - 1
      BY <3>5 DEF Cover
    <3>9. g.listed
      BY DEF WithBuckets
    <3> HIDE DEF g
    <3>10. Free(g) = Free(f) /\ Free(g) \cap (pos .. pos + count - 1) = {}
      BY <2>2, <3>7, <3>8, Zenon
    <3>11. /\ Ranges(InsertRange(g, pos, count))
           /\ Free(InsertRange(g, pos, count)) = Free(g) \cup (pos .. pos + count - 1)
      BY <3>7, <3>9, <3>10, InsertRangeKeeps, Zenon
    <3> QED
      BY <3>1, <3>10, <3>11, Zenon
  <2> QED
    BY <2>3, <2>4, <2>5, <2>6
<1> QED
  BY <1>1, <1>2

(* The last span is shorter by one, *)
LEMMA LastShrinks ==
  ASSUME NEW n \in Nat \ {0}, NEW lo, NEW hi, Spans(n, lo, hi), NEW x \in Nat,
         hi[n] = x + 1, lo[n] < x, NEW high, Replaced(n, hi, n, x, high)
  PROVE  Spans(n, lo, high) /\ Cover(n, lo, high) = Cover(n, lo, hi) \ {x}
<1>1. /\ lo \in [1 .. n -> Nat] /\ hi \in [1 .. n -> Nat] /\ high \in [1 .. n -> Nat]
      /\ high[n] = x /\ n \in 1 .. n
      /\ \A j \in 1 .. n : lo[j] < hi[j]
  BY DEF Spans, Replaced
<1>2. \A j, k \in 1 .. n : j < k => hi[j] < lo[k]
  BY DEF Spans
<1>3. \A j \in 1 .. n : j # n => high[j] = hi[j]
  BY DEF Replaced
<1>4. ASSUME NEW j \in 1 .. n, j # n PROVE hi[j] < x /\ high[j] = hi[j]
  <2>1. j < n
    BY <1>4
  <2> QED
    BY <1>1, <1>2, <1>3, <1>4, <2>1
<1>5. ASSUME NEW j \in 1 .. n PROVE lo[j] < high[j]
  <2>1. CASE j = n
    BY <1>1, <2>1
  <2> QED
    BY <1>1, <1>4, <2>1
<1>6. ASSUME NEW j \in 1 .. n, NEW k \in 1 .. n, j < k PROVE high[j] < lo[k]
  <2>1. j # n
    BY <1>6
  <2> QED
    BY <1>2, <1>3, <1>6, <2>1
<1>7. Spans(n, lo, high)
  BY <1>1, <1>5, <1>6 DEF Spans
<1>8. ASSUME NEW y \in Nat, NEW j \in 1 .. n
      PROVE  lo[j] <= y /\ y < high[j] <=> lo[j] <= y /\ y < hi[j] /\ y # x
  <2>1. CASE j = n
    BY <1>1, <2>1
  <2>2. CASE j # n
    <3>1. hi[j] < x /\ high[j] = hi[j] /\ hi[j] \in Nat
      BY <1>1, <1>4, <2>2
    <3> QED
      BY <3>1
  <2> QED
    BY <2>1, <2>2
<1> QED
  BY <1>7, <1>8, Zenon DEF Cover

(* or gone with the one number in it. *)
WithoutLast(n, s, r) == r \in [1 .. n - 1 -> Nat] /\ \A j \in 1 .. n - 1 : r[j] = s[j]

(* The last span had one number, and is removed with it. *)
LEMMA LastGone ==
  ASSUME NEW n \in Nat \ {0}, NEW lo, NEW hi, Spans(n, lo, hi), NEW x \in Nat,
         lo[n] = x, hi[n] = x + 1, NEW low, NEW high,
         WithoutLast(n, lo, low), WithoutLast(n, hi, high)
  PROVE  Spans(n - 1, low, high) /\ Cover(n - 1, low, high) = Cover(n, lo, hi) \ {x}
<1>0. /\ low \in [1 .. n - 1 -> Nat] /\ high \in [1 .. n - 1 -> Nat]
      /\ \A j \in 1 .. n - 1 : low[j] = lo[j] /\ high[j] = hi[j]
  BY DEF WithoutLast
<1>1. /\ lo \in [1 .. n -> Nat] /\ hi \in [1 .. n -> Nat]
      /\ n \in 1 .. n /\ n - 1 \in Nat
      /\ \A j \in 1 .. n : lo[j] < hi[j]
  BY DEF Spans
<1>2. \A j, k \in 1 .. n : j < k => hi[j] < lo[k]
  BY DEF Spans
<1>3. \A j \in 1 .. n - 1 : j \in 1 .. n /\ j < n
  OBVIOUS
<1>4. \A j \in 1 .. n - 1 : low[j] < high[j]
  BY <1>0, <1>1, <1>3
<1>5. \A j, k \in 1 .. n - 1 : j < k => high[j] < low[k]
  BY <1>0, <1>2, <1>3
<1>6. Spans(n - 1, low, high)
  BY <1>0, <1>1, <1>4, <1>5 DEF Spans
<1>7. ASSUME NEW y \in Nat
      PROVE  (\E j \in 1 .. n - 1 : low[j] <= y /\ y < high[j])
               <=> (\E j \in 1 .. n : lo[j] <= y /\ y < hi[j]) /\ y # x
  <2>1. ASSUME NEW j \in 1 .. n - 1, low[j] <= y, y < high[j]
        PROVE  lo[j] <= y /\ y < hi[j] /\ y # x
    <3>1. hi[j] < x /\ low[j] = lo[j] /\ high[j] = hi[j] /\ hi[j] \in Nat
      BY <1>0, <1>1, <1>2, <1>3
    <3> QED
      BY <2>1, <3>1
  <2>2. ASSUME NEW j \in 1 .. n, lo[j] <= y, y < hi[j], y # x
        PROVE  j \in 1 .. n - 1 /\ low[j] <= y /\ y < high[j]
    <3>1. j # n
      BY <2>2
    <3>2. j \in 1 .. n - 1
      BY <3>1
    <3> QED
      BY <1>0, <2>2, <3>2
  <2> QED
    BY <1>3, <2>1, <2>2
<1> QED
  BY <1>6, <1>7, Zenon DEF Cover

(* What is taken from a free list was free, and nothing else is taken. *)
LEMMA GetTakes ==
  ASSUME NEW f, Ranges(f)
  PROVE  \/ Free(f) = {} /\ Get(f) = <<Nil, f>>
         \/ /\ Get(f)[1] \in Free(f) /\ Get(f)[1] \in Nat
            /\ Ranges(Get(f)[2]) /\ Free(Get(f)[2]) = Free(f) \ {Get(f)[1]}
<1>1. CASE ~ f.listed
  <2>1. PICK h \in Nat, k \in Nat : h = f.head /\ k = f.nbuckets
    BY <1>1, OneRange
  <2>2. Free(f) = h .. h + k - 1
    BY <1>1, <2>1, OneRange
  <2>3. CASE k = 0
    <3>1. Get(f) = <<Nil, f>>
      BY <1>1, <2>1, <2>3 DEF Get
    <3> QED
      BY <2>2, <2>3, <3>1
  <2>4. CASE k > 0
    <3>1. Get(f) = <<h, RangeOf(f, h + 1, k - 1)>>
      <4>1. Get(f) = <<f.head, [f EXCEPT !.head = @ + 1, !.nbuckets = @ - 1]>>
        BY <1>1, <2>1, <2>4 DEF Get
      <4> QED
        BY <2>1, <4>1, Zenon DEF RangeOf
    <3>2. PICK h1 \in Nat, k1 \in Nat : h1 = h + 1 /\ k1 = k - 1
      BY <2>4
    <3>3. Ranges(RangeOf(f, h1, k1)) /\ Free(RangeOf(f, h1, k1)) = h1 .. h1 + k1 - 1
      BY <1>1, OneRangeMade
    <3>4. h1 .. h1 + k1 - 1 = (h .. h + k - 1) \ {h} /\ h \in h .. h + k - 1
      BY <2>4, <3>2
    <3>5. Get(f)[1] = h /\ Get(f)[2] = RangeOf(f, h1, k1)
      BY <3>1, <3>2
    <3> QED
      BY <2>2, <3>3, <3>4, <3>5
  <2> QED
    BY <2>3, <2>4
<1>2. CASE f.listed
  <2>1. /\ f.head \in Nat /\ f.nbuckets \in Nat /\ f.buckets \in Seq(Range1)
        /\ f.head = Len(f.buckets) /\ f.head <= f.nbuckets /\ f.nbuckets > 0
    BY <1>2, ListOfRanges
  <2>2. PICK b, lo, hi : b = f.buckets /\ lo = Lows(b) /\ hi = Highs(b)
    OBVIOUS
  <2>3. PICK n \in Nat, room \in Nat :
          n = f.head /\ room = f.nbuckets /\ n <= room /\ room > 0
    BY <2>1
  <2>4. AreRanges(b, n, lo, hi)
    BY <2>1, <2>2, <2>3, RangesOf, Zenon
  <2>5. Spans(n, lo, hi) /\ Free(f) = Cover(n, lo, hi)
    BY <1>2, <2>2, <2>3, SpansOf, Zenon
  <2>6. CASE n = 0
    <3>1. Get(f) = <<Nil, f>>
      BY <1>2, <2>3, <2>6, Zenon DEF Get
    <3>2. Cover(n, lo, hi) = {}
      BY <2>6 DEF Cover
    <3> QED
      BY <2>5, <3>1, <3>2
  <2>7. CASE n # 0
    <3>0. n \in Nat \ {0} /\ n \in 1 .. n /\ n - 1 \in Nat
      BY <2>7
    <3>1. /\ b[n] \in Range1 /\ b[n].pos \in Nat /\ b[n].count \in Nat /\ b[n].count > 0
          /\ b[n].pos = lo[n] /\ b[n].pos + b[n].count = hi[n]
      <4>1. /\ b[n] \in Range1 /\ b[n].pos \in Nat /\ b[n].count \in Nat
            /\ b[n].pos = lo[n] /\ b[n].pos + b[n].count = hi[n]
        BY <2>4, <3>0, EachRange
      <4>2. b[n].count > 0
        BY <4>1 DEF Range1
      <4> QED
        BY <4>1, <4>2
    <3>2. PICK q \in Nat, k \in Nat, x \in Nat :
            /\ q = b[n].pos /\ k = b[n].count /\ x = q + k - 1 /\ k > 0
            /\ lo[n] = q /\ hi[n] = x + 1
      BY <3>1
    <3>3. x \in Cover(n, lo, hi)
      BY <3>0, <3>2 DEF Cover
    <3> DEFINE left == n - 1
    <3>4. Get(f) = <<b[n].pos + b[n].count - 1,
                     IF b[n].count > 1
                     THEN WithBuckets([b EXCEPT ![n].count = @ - 1], room)
                     ELSE WithBuckets(SubSeq(b, 1, left),
                                 IF left < room \div 2 THEN room \div 2 ELSE room)>>
      BY <1>2, <2>2, <2>3, <2>7, Zenon DEF Get
    <3>5. ASSUME NEW d, NEW low, NEW high, NEW m1 \in Nat, AreRanges(d, m1, low, high),
                 Spans(m1, low, high), Cover(m1, low, high) = Cover(n, lo, hi) \ {x},
                 NEW l \in Nat, m1 <= l, l > 0, Get(f) = <<x, WithBuckets(d, l)>>
          PROVE  /\ Get(f)[1] \in Free(f) /\ Get(f)[1] \in Nat
                 /\ Ranges(Get(f)[2]) /\ Free(Get(f)[2]) = Free(f) \ {Get(f)[1]}
      <4>1. m1 \in Nat /\ d \in Seq(Range1) /\ Len(d) = m1 /\ low = Lows(d) /\ high = Highs(d)
        BY <3>5, RangesAre, Zenon
      <4>2. Len(d) <= l
        BY <3>5, <4>1
      <4>3. Spans(Len(d), Lows(d), Highs(d))
        BY <3>5, <4>1, Zenon
      <4>4. /\ Ranges(WithBuckets(d, l))
            /\ Free(WithBuckets(d, l)) = Cover(Len(d), Lows(d), Highs(d))
        BY <3>5, <4>1, <4>2, <4>3, ListOf, Zenon
      <4>5. Get(f)[1] = x /\ Get(f)[2] = WithBuckets(d, l)
        BY <3>5
      <4> QED
        BY <2>5, <3>3, <3>5, <4>1, <4>4, <4>5, Zenon
    <3>6. CASE k > 1
      <4>1. PICK e : e = Bucket(q, k - 1)
        OBVIOUS
      <4>2. k - 1 \in Nat \ {0} /\ q + (k - 1) = x /\ q < x
        BY <3>2, <3>6
      <4>3. IsRange(e, lo[n], x) /\ [b[n] EXCEPT !.count = k - 1] = e
        BY <3>1, <3>2, <4>1, <4>2, BucketIs, Zenon
      <4>4. PICK low, high : /\ AreRanges([b EXCEPT ![n] = e], n, low, high)
                             /\ Replaced(n, lo, n, lo[n], low) /\ Replaced(n, hi, n, x, high)
        BY <2>4, <3>0, <4>3, RangeChanged, Zenon
      <4>5. low = lo
        <5>1. lo \in [1 .. n -> Nat]
          BY <2>5 DEF Spans
        <5> QED
          BY <4>4, <5>1 DEF Replaced
      <4>6. Spans(n, lo, high) /\ Cover(n, lo, high) = Cover(n, lo, hi) \ {x}
        BY <2>5, <3>0, <3>2, <4>2, <4>4, LastShrinks
      <4>7. Get(f) = <<x, WithBuckets([b EXCEPT ![n] = e], room)>>
        <5>1. b[n].count > 1
          BY <3>2, <3>6
        <5>2. Get(f) = <<x, WithBuckets([b EXCEPT ![n].count = @ - 1], room)>>
          BY <3>2, <3>4, <5>1, Zenon
        <5> QED
          BY <3>2, <4>3, <5>2, Zenon
      <4> QED
        BY <2>3, <3>5, <4>4, <4>5, <4>6, <4>7, Zenon
    <3>7. CASE ~ (k > 1)
      <4>1. k = 1 /\ x = q
        BY <3>2, <3>7
      <4>2. PICK d : d = SubSeq(b, 1, left)
        OBVIOUS
      <4>3. /\ d \in Seq(Range1) /\ Len(d) = left
            /\ \A j \in 1 .. left : d[j] = b[j]
        <5>1. b \in Seq(Range1) /\ Len(b) = n
          BY <2>4, RangesAre, Zenon
        <5>2. /\ SubSeq(b, 1, left) \in Seq(Range1) /\ Len(SubSeq(b, 1, left)) = left
              /\ \A j \in 1 .. left : SubSeq(b, 1, left)[j] = b[j]
          BY <3>0, <5>1, SubSeqProperties, Elements
        <5> QED
          BY <4>2, <5>2
      <4>4. AreRanges(d, left, Lows(d), Highs(d))
        BY <3>0, <4>3, RangesOf
      <4>5. PICK low, high : low = Lows(d) /\ high = Highs(d)
        OBVIOUS
      <4>6. /\ low \in [1 .. n - 1 -> Nat] /\ high \in [1 .. n - 1 -> Nat]
            /\ \A j \in 1 .. n - 1 : d[j].pos = low[j] /\ d[j].pos + d[j].count = high[j]
        BY <4>4, <4>5 DEF AreRanges
      <4>7. ASSUME NEW j \in 1 .. n - 1 PROVE low[j] = lo[j] /\ high[j] = hi[j]
        <5>1. j \in 1 .. n
          BY <3>0
        <5>2. b[j].pos = lo[j] /\ b[j].pos + b[j].count = hi[j]
          BY <2>4, <5>1, Zenon DEF AreRanges
        <5> QED
          BY <4>3, <4>6, <5>2, Zenon
      <4>8. Spans(n - 1, low, high) /\ Cover(n - 1, low, high) = Cover(n, lo, hi) \ {x}
        <5>1. WithoutLast(n, lo, low) /\ WithoutLast(n, hi, high)
          BY <4>6, <4>7, Zenon DEF WithoutLast
        <5>2. lo[n] = x /\ hi[n] = x + 1
          BY <3>2, <4>1
        <5> QED
          BY <2>5, <3>0, <5>1, <5>2, LastGone
      <4>9. PICK l \in Nat : /\ l = IF left < room \div 2 THEN room \div 2 ELSE room
                             /\ n - 1 <= l /\ l > 0
        BY <2>3, <3>0
      <4>10. Get(f) = <<x, WithBuckets(d, l)>>
        <5>1. ~ (b[n].count > 1)
          BY <3>2, <3>7
        <5> QED
          BY <3>2, <3>4, <4>2, <4>9, <5>1, Zenon
      <4> QED
        BY <3>0, <3>5, <4>4, <4>5, <4>8, <4>9, <4>10, Zenon
    <3> QED
      BY <3>6, <3>7
  <2> QED
    BY <2>6, <2>7
<1> QED
  BY <1>1, <1>2

-----------------------------------------------------------------------------
(* Chains.                                                                 *)

(* What a walk comes by, if something does what it says. *)
Goes(start, next, g) ==
  /\ g = [n \in Nat |-> g[n]]
  /\ g[0] = start /\ \A n \in Nat : g[n + 1] = next[g[n]]

(* A walk is what its steps say it is. *)
LEMMA WalkIs ==
  ASSUME NEW start, NEW next, NEW g, Goes(start, next, g)
  PROVE  \A n \in Nat : Following(start, next)[n] = g[n]
<1>0. /\ g = [n \in Nat |-> g[n]]
      /\ g[0] = start /\ \A n \in Nat : g[n + 1] = next[g[n]]
  BY DEF Goes
<1> DEFINE Is(f) == f = [n \in Nat |-> IF n = 0 THEN start ELSE next[f[n - 1]]]
           f == CHOOSE f : Is(f)
<1>1. Is(g)
  <2>1. ASSUME NEW n \in Nat PROVE g[n] = IF n = 0 THEN start ELSE next[g[n - 1]]
    <3>1. CASE n = 0
      BY <1>0, <3>1
    <3>2. CASE n # 0
      <4>1. PICK l \in Nat : l = n - 1 /\ n = l + 1
        BY <3>2
      <4> QED
        BY <1>0, <3>2, <4>1
    <3> QED
      BY <3>1, <3>2
  <2> QED
    BY <1>0, <2>1
<1>2. Is(f)
  BY <1>1
<1>3. Following(start, next) = f
  BY DEF Following
<1> HIDE DEF f
<1> DEFINE T == {n \in Nat : f[n] = g[n]}
<1>4. f[0] = start /\ \A n \in Nat : f[n + 1] = next[f[n]]
  <2>1. ASSUME NEW n \in Nat PROVE f[n] = IF n = 0 THEN start ELSE next[f[n - 1]]
    BY <1>2
  <2>2. ASSUME NEW n \in Nat PROVE f[n + 1] = next[f[n]]
    <3>1. n + 1 \in Nat /\ n + 1 # 0 /\ (n + 1) - 1 = n
      OBVIOUS
    <3> QED
      BY <2>1, <3>1
  <2> QED
    BY <2>1, <2>2
<1>5. 0 \in T
  BY <1>0, <1>4
<1>6. ASSUME NEW n \in Nat, n \in T PROVE n + 1 \in T
  BY <1>0, <1>4, <1>6
<1>7. \A n \in Nat : n \in T
  <2> HIDE DEF T
  <2> QED
    BY <1>5, <1>6, Induction
<1> QED
  BY <1>3, <1>7

(* A walk along a chain, to its end, *)
LEMMA WalkToEnd ==
  ASSUME NEW start, NEW next, NEW s \in Seq(Nat), Links(start, next, s), next[Nil] = Nil
  PROVE  \A n \in Nat : Following(start, next)[n] = IF n < Len(s) THEN s[n + 1] ELSE Nil
<1> DEFINE g == [n \in Nat |-> IF n < Len(s) THEN s[n + 1] ELSE Nil]
<1>1. Len(s) \in Nat /\ \A i \in 1 .. Len(s) : s[i] \in Nat
  BY Elements
<1>2. /\ start = IF Len(s) = 0 THEN Nil ELSE s[1]
      /\ \A i \in 1 .. Len(s) : next[s[i]] = IF i = Len(s) THEN Nil ELSE s[i + 1]
  BY DEF Links
<1>3. g \in [Nat -> Nat \cup {Nil}]
  BY <1>1
<1>4. g[0] = start
  BY <1>1, <1>2
<1>5. ASSUME NEW n \in Nat PROVE g[n + 1] = next[g[n]]
  <2>1. CASE n < Len(s)
    <3>1. n + 1 \in 1 .. Len(s) /\ n + 1 \in Nat
      BY <1>1, <2>1
    <3>2. g[n] = s[n + 1]
      BY <2>1
    <3>3. next[s[n + 1]] = IF n + 1 = Len(s) THEN Nil ELSE s[n + 1 + 1]
      BY <1>2, <3>1
    <3>4. g[n + 1] = IF n + 1 < Len(s) THEN s[n + 1 + 1] ELSE Nil
      BY <3>1
    <3>5. n + 1 < Len(s) <=> n + 1 # Len(s)
      BY <1>1, <3>1
    <3> QED
      BY <3>2, <3>3, <3>4, <3>5
  <2>2. CASE ~ (n < Len(s))
    BY <1>1, <2>2
  <2> QED
    BY <2>1, <2>2
<1> HIDE DEF g
<1>6. \A n \in Nat : Following(start, next)[n] = g[n]
  <2>1. Goes(start, next, g)
    BY <1>3, <1>4, <1>5 DEF Goes
  <2> QED
    BY <2>1, WalkIs
<1> QED
  BY <1>6 DEF g

(* and to what it stops at. *)
StopsAt(start, next, s, p) ==
  /\ s \in Seq(Nat) /\ p \in 1 .. Len(s)
  /\ start = s[1] /\ next[s[p]] = s[p]
  /\ \A i \in 1 .. p - 1 : next[s[i]] = s[i + 1]

(* A walk along a sequence stops where the next one is the same. *)
LEMMA WalkToStop ==
  ASSUME NEW start, NEW next, NEW s, NEW p, StopsAt(start, next, s, p)
  PROVE  \A n \in Nat : Following(start, next)[n] = IF n < p THEN s[n + 1] ELSE s[p]
<1>0. /\ s \in Seq(Nat) /\ p \in 1 .. Len(s)
      /\ start = s[1] /\ next[s[p]] = s[p]
      /\ \A i \in 1 .. p - 1 : next[s[i]] = s[i + 1]
  BY DEF StopsAt
<1> DEFINE g == [n \in Nat |-> IF n < p THEN s[n + 1] ELSE s[p]]
<1>1. Len(s) \in Nat /\ p \in Nat /\ \A i \in 1 .. Len(s) : s[i] \in Nat
  BY <1>0, Elements
<1>2. g \in [Nat -> Nat]
  BY <1>0, <1>1
<1>3. g[0] = start
  BY <1>0, <1>1
<1>4. ASSUME NEW n \in Nat PROVE g[n + 1] = next[g[n]]
  <2>1. CASE n + 1 < p
    <3>1. n + 1 \in 1 .. p - 1 /\ n + 1 \in Nat
      BY <1>1, <2>1
    <3>2. g[n] = s[n + 1] /\ g[n + 1] = s[n + 1 + 1]
      BY <1>0, <1>1, <2>1
    <3> QED
      BY <1>0, <3>1, <3>2
  <2>2. CASE n + 1 = p
    <3>1. g[n] = s[p] /\ g[n + 1] = s[p]
      BY <2>2
    <3> QED
      BY <1>0, <3>1
  <2>3. CASE n + 1 > p
    <3>1. g[n] = s[p] /\ g[n + 1] = s[p]
      BY <1>1, <2>3
    <3> QED
      BY <1>0, <3>1
  <2> QED
    BY <1>1, <2>1, <2>2, <2>3
<1> HIDE DEF g
<1>5. \A n \in Nat : Following(start, next)[n] = g[n]
  <2>1. Goes(start, next, g)
    BY <1>2, <1>3, <1>4 DEF Goes
  <2> QED
    BY <2>1, WalkIs
<1> QED
  BY <1>5 DEF g

(* A chain: its entries, each once, as they are linked. *)
Chained(start, next, s) == s \in Seq(Nat) /\ IsInjective(s) /\ Links(start, next, s)

(* What a chain is, *)
LEMMA ChainedIs ==
  ASSUME NEW start, NEW next, NEW s, Chained(start, next, s)
  PROVE  /\ s \in Seq(Nat) /\ Len(s) \in Nat
         /\ start = IF Len(s) = 0 THEN Nil ELSE s[1]
         /\ \A i \in 1 .. Len(s) : /\ s[i] \in Nat
                                   /\ next[s[i]] = IF i = Len(s) THEN Nil ELSE s[i + 1]
         /\ \A i, j \in 1 .. Len(s) : s[i] = s[j] => i = j
         /\ \A x : x \in ToSet(s) <=> \E i \in 1 .. Len(s) : x = s[i]
  BY Elements DEF Chained, Links, IsInjective

(* and what makes one. *)
LEMMA ChainedMade ==
  ASSUME NEW start, NEW next, NEW s, s \in Seq(Nat),
         start = IF Len(s) = 0 THEN Nil ELSE s[1],
         \A i \in 1 .. Len(s) : next[s[i]] = IF i = Len(s) THEN Nil ELSE s[i + 1],
         \A i, j \in 1 .. Len(s) : s[i] = s[j] => i = j
  PROVE  Chained(start, next, s)
  BY Elements DEF Chained, Links, IsInjective

(* It stays one while the links of its entries do. *)
LEMMA ChainedSame ==
  ASSUME NEW start, NEW next, NEW s, Chained(start, next, s),
         NEW other, \A x \in ToSet(s) : other[x] = next[x]
  PROVE  Chained(start, other, s)
<1>1. /\ s \in Seq(Nat)
      /\ start = IF Len(s) = 0 THEN Nil ELSE s[1]
      /\ \A i \in 1 .. Len(s) : next[s[i]] = IF i = Len(s) THEN Nil ELSE s[i + 1]
      /\ \A i, j \in 1 .. Len(s) : s[i] = s[j] => i = j
      /\ \A i \in 1 .. Len(s) : s[i] \in ToSet(s)
  BY ChainedIs
<1>2. \A i \in 1 .. Len(s) : other[s[i]] = IF i = Len(s) THEN Nil ELSE s[i + 1]
  BY <1>1
<1> QED
  BY <1>1, <1>2, ChainedMade

(* An entry is put before the others. *)
LEMMA ChainedPush ==
  ASSUME NEW start, NEW next, NEW s, Chained(start, next, s),
         NEW c \in Nat, c \notin ToSet(s),
         NEW other, other[c] = start, \A x \in ToSet(s) : other[x] = next[x]
  PROVE  \E r : Chained(c, other, r) /\ ToSet(r) = ToSet(s) \cup {c}
<1> DEFINE r == InsertAt(s, 1, c)
<1>1. /\ s \in Seq(Nat) /\ Len(s) \in Nat
      /\ start = IF Len(s) = 0 THEN Nil ELSE s[1]
      /\ \A i \in 1 .. Len(s) : next[s[i]] = IF i = Len(s) THEN Nil ELSE s[i + 1]
      /\ \A i, j \in 1 .. Len(s) : s[i] = s[j] => i = j
      /\ \A x : x \in ToSet(s) <=> \E i \in 1 .. Len(s) : x = s[i]
  BY ChainedIs
<1>2. /\ r \in Seq(Nat) /\ Len(r) = Len(s) + 1
      /\ \A j \in 1 .. Len(s) + 1 : r[j] = IF j < 1 THEN s[j] ELSE IF j = 1 THEN c ELSE s[j - 1]
  <2>1. PICK i : i = 1
    OBVIOUS
  <2>0. PICK T : T = Nat
    OBVIOUS
  <2>2. s \in Seq(T) /\ i \in 1 .. Len(s) + 1 /\ c \in T
    BY <1>1, <2>1, <2>0
  <2>3. /\ InsertAt(s, i, c) \in Seq(T) /\ Len(InsertAt(s, i, c)) = Len(s) + 1
        /\ \A j \in 1 .. Len(s) + 1 :
             InsertAt(s, i, c)[j] = IF j < i THEN s[j] ELSE IF j = i THEN c ELSE s[j - 1]
    BY <2>2, Inserted
  <2> QED
    BY <2>1, <2>0, <2>3, Zenon
<1>3. \A x : x \in ToSet(r) <=> \E i \in 1 .. Len(r) : x = r[i]
  BY <1>2, Elements
<1> HIDE DEF r
<1>4. r[1] = c /\ \A j \in 1 .. Len(s) : r[j + 1] = s[j]
  <2>1. r[1] = c
    BY <1>1, <1>2
  <2>2. ASSUME NEW j \in 1 .. Len(s) PROVE r[j + 1] = s[j]
    <3>1. j + 1 \in 1 .. Len(s) + 1 /\ ~ (j + 1 < 1) /\ j + 1 # 1 /\ (j + 1) - 1 = j
      BY <1>1
    <3> QED
      BY <1>2, <3>1
  <2> QED
    BY <2>1, <2>2
<1>5. \A j \in 1 .. Len(r) : j = 1 \/ \E l \in 1 .. Len(s) : j = l + 1
  <2>1. ASSUME NEW j \in 1 .. Len(r), j # 1 PROVE \E l \in 1 .. Len(s) : j = l + 1
    <3>1. j - 1 \in 1 .. Len(s) /\ j = (j - 1) + 1
      BY <1>1, <1>2, <2>1
    <3> QED
      BY <3>1
  <2> QED
    BY <2>1
<1>6. \A l \in 1 .. Len(s) : s[l] # c
  BY <1>1
<1>7. ASSUME NEW i \in 1 .. Len(r)
      PROVE  other[r[i]] = IF i = Len(r) THEN Nil ELSE r[i + 1]
  <2>1. CASE i = 1
    <3>1. CASE Len(s) = 0
      BY <1>1, <1>2, <1>4, <2>1, <3>1
    <3>2. CASE Len(s) # 0
      <4>1. 1 \in 1 .. Len(s) /\ 1 # Len(r)
        BY <1>1, <1>2, <3>2
      <4>2. r[1 + 1] = s[1]
        BY <1>4, <4>1
      <4> QED
        BY <1>1, <1>4, <2>1, <3>2, <4>1, <4>2
    <3> QED
      BY <3>1, <3>2
  <2>2. CASE i # 1
    <3>1. PICK l \in 1 .. Len(s) : i = l + 1
      BY <1>5, <2>2
    <3>2. r[i] = s[l] /\ s[l] \in ToSet(s)
      BY <1>1, <1>4, <3>1
    <3>3. other[r[i]] = IF l = Len(s) THEN Nil ELSE s[l + 1]
      BY <1>1, <3>2
    <3>4. CASE l = Len(s)
      BY <1>1, <1>2, <3>1, <3>3, <3>4
    <3>5. CASE l # Len(s)
      <4>1. l + 1 \in 1 .. Len(s) /\ i # Len(r)
        BY <1>1, <1>2, <3>1, <3>5
      <4>2. r[l + 1 + 1] = s[l + 1]
        BY <1>4, <4>1
      <4> QED
        BY <3>1, <3>3, <3>5, <4>1, <4>2
    <3> QED
      BY <3>4, <3>5
  <2> QED
    BY <2>1, <2>2
<1>8. \A i, j \in 1 .. Len(r) : r[i] = r[j] => i = j
  <2> SUFFICES ASSUME NEW i \in 1 .. Len(r), NEW j \in 1 .. Len(r), r[i] = r[j] PROVE i = j
    OBVIOUS
  <2>1. i = 1 \/ \E l \in 1 .. Len(s) : i = l + 1 /\ r[i] = s[l]
    BY <1>4, <1>5
  <2>2. j = 1 \/ \E l \in 1 .. Len(s) : j = l + 1 /\ r[j] = s[l]
    BY <1>4, <1>5
  <2> QED
    BY <1>1, <1>4, <1>6, <2>1, <2>2
<1>9. ToSet(r) = ToSet(s) \cup {c}
  <2>1. ASSUME NEW x PROVE x \in ToSet(r) <=> x = c \/ \E l \in 1 .. Len(s) : x = s[l]
    <3>1. 1 \in 1 .. Len(r) /\ \A l \in 1 .. Len(s) : l + 1 \in 1 .. Len(r)
      BY <1>1, <1>2
    <3>2. ASSUME x \in ToSet(r) PROVE x = c \/ \E l \in 1 .. Len(s) : x = s[l]
      <4>1. PICK j \in 1 .. Len(r) : x = r[j]
        BY <1>3, <3>2
      <4> QED
        BY <1>4, <1>5, <4>1
    <3>3. x = c => x \in ToSet(r)
      BY <1>3, <1>4, <3>1
    <3>4. ASSUME NEW l \in 1 .. Len(s), x = s[l] PROVE x \in ToSet(r)
      BY <1>3, <1>4, <3>1, <3>4
    <3> QED
      BY <3>2, <3>3, <3>4
  <2> QED
    BY <1>1, <2>1
<1>10. Chained(c, other, r)
  <2>1. c = IF Len(r) = 0 THEN Nil ELSE r[1]
    BY <1>1, <1>2, <1>4
  <2> QED
    BY <1>2, <1>7, <1>8, <2>1, ChainedMade
<1> QED
  BY <1>9, <1>10

(* An entry is taken out: the one before it, or the start, leads past it. *)
CutsAt(start, next, s, p, first, other) ==
  /\ p \in 1 .. Len(s)
  /\ first = IF p = 1 THEN next[s[p]] ELSE start
  /\ \A i \in 1 .. Len(s) :
       i # p => other[s[i]] = IF i = p - 1 THEN next[s[p]] ELSE next[s[i]]

(* A chain without one of its entries is a chain of the others. *)
LEMMA ChainedCut ==
  ASSUME NEW start, NEW next, NEW s, Chained(start, next, s),
         NEW p, NEW first, NEW other, CutsAt(start, next, s, p, first, other)
  PROVE  \E r : Chained(first, other, r) /\ ToSet(r) = ToSet(s) \ {s[p]}
<1>0. /\ p \in 1 .. Len(s)
      /\ first = IF p = 1 THEN next[s[p]] ELSE start
      /\ \A i \in 1 .. Len(s) :
           i # p => other[s[i]] = IF i = p - 1 THEN next[s[p]] ELSE next[s[i]]
  BY DEF CutsAt
<1> DEFINE r == RemoveAt(s, p)
<1>1. /\ s \in Seq(Nat) /\ Len(s) \in Nat /\ p \in Nat /\ p \in 1 .. Len(s)
      /\ start = IF Len(s) = 0 THEN Nil ELSE s[1]
      /\ \A i \in 1 .. Len(s) : next[s[i]] = IF i = Len(s) THEN Nil ELSE s[i + 1]
      /\ \A i, j \in 1 .. Len(s) : s[i] = s[j] => i = j
      /\ \A x : x \in ToSet(s) <=> \E i \in 1 .. Len(s) : x = s[i]
  BY <1>0, ChainedIs
<1>2. /\ r \in Seq(Nat) /\ Len(r) = Len(s) - 1
      /\ \A j \in 1 .. Len(s) - 1 : r[j] = IF j < p THEN s[j] ELSE s[j + 1]
  BY <1>1, Removed
<1>3. \A x : x \in ToSet(r) <=> \E i \in 1 .. Len(r) : x = r[i]
  BY <1>2, Elements
<1> HIDE DEF r
<1> DEFINE at == [i \in 1 .. Len(r) |-> IF i < p THEN i ELSE i + 1]
<1>4. ASSUME NEW i \in 1 .. Len(r)
      PROVE  at[i] \in 1 .. Len(s) /\ at[i] # p /\ r[i] = s[at[i]]
  <2>1. PICK n \in Nat, q \in Nat : n = Len(s) /\ q = p /\ q \in 1 .. n
    BY <1>1
  <2>2. i \in 1 .. n - 1
    BY <1>2, <2>1
  <2>3. at[i] = IF i < q THEN i ELSE i + 1
    BY <2>1
  <2>4. r[i] = IF i < q THEN s[i] ELSE s[i + 1]
    BY <1>2, <2>1, <2>2
  <2> HIDE DEF at
  <2>5. CASE i < q
    BY <2>1, <2>2, <2>3, <2>4, <2>5
  <2>6. CASE ~ (i < q)
    BY <2>1, <2>2, <2>3, <2>4, <2>6
  <2> QED
    BY <2>5, <2>6
<1>5. \A l \in 1 .. Len(s) : l # p => \E i \in 1 .. Len(r) : at[i] = l
  <2>1. ASSUME NEW l \in 1 .. Len(s), l < p PROVE l \in 1 .. Len(r) /\ at[l] = l
    BY <1>1, <1>2, <2>1
  <2>2. ASSUME NEW l \in 1 .. Len(s), l > p PROVE l - 1 \in 1 .. Len(r) /\ at[l - 1] = l
    BY <1>1, <1>2, <2>2
  <2>3. \A l \in 1 .. Len(s) : l = p \/ l < p \/ l > p
    BY <1>1
  <2> HIDE DEF at
  <2> QED
    BY <2>1, <2>2, <2>3
<1>6. \A i, j \in 1 .. Len(r) : at[i] = at[j] => i = j
  BY <1>1
<1>7. ASSUME NEW i \in 1 .. Len(r)
      PROVE  other[r[i]] = IF i = Len(r) THEN Nil ELSE r[i + 1]
  <2>1. other[r[i]] = IF at[i] = p - 1 THEN next[s[p]] ELSE next[s[at[i]]]
    <3> HIDE DEF at
    <3> QED
      BY <1>0, <1>4
  <2>2. CASE i + 1 < p
    <3>1. at[i] = i /\ i # p - 1 /\ i + 1 \in 1 .. Len(r) /\ at[i + 1] = i + 1
          /\ i # Len(r) /\ i # Len(s) /\ i \in 1 .. Len(s)
      BY <1>1, <1>2, <2>2, SMTT(60)
    <3>2. next[s[i]] = s[i + 1] /\ r[i + 1] = s[i + 1]
      BY <1>1, <1>4, <3>1
    <3> HIDE DEF at
    <3> QED
      BY <2>1, <3>1, <3>2
  <2>3. CASE i + 1 = p
    <3>1. at[i] = p - 1
      BY <1>1, <2>3
    <3>2. next[s[p]] = IF p = Len(s) THEN Nil ELSE s[p + 1]
      BY <1>1
    <3>3. CASE p = Len(s)
      <4>1. i = Len(r)
        BY <1>1, <1>2, <2>3, <3>3
      <4> HIDE DEF at
      <4> QED
        BY <2>1, <3>1, <3>2, <3>3, <4>1
    <3>4. CASE p # Len(s)
      <4>1. p \in 1 .. Len(r) /\ at[p] = p + 1 /\ i # Len(r)
        BY <1>1, <1>2, <2>3, <3>4
      <4>2. r[p] = s[p + 1]
        BY <1>4, <4>1
      <4> HIDE DEF at
      <4> QED
        BY <2>1, <2>3, <3>1, <3>2, <3>4, <4>1, <4>2
    <3> QED
      BY <3>3, <3>4
  <2>4. CASE i + 1 > p
    <3>1. at[i] = i + 1 /\ i + 1 # p - 1 /\ i + 1 \in 1 .. Len(s)
      BY <1>1, <1>2, <2>4
    <3>2. next[s[i + 1]] = IF i + 1 = Len(s) THEN Nil ELSE s[i + 1 + 1]
      BY <1>1, <3>1
    <3>3. CASE i + 1 = Len(s)
      <4>1. i = Len(r)
        BY <1>1, <1>2, <3>3
      <4> HIDE DEF at
      <4> QED
        BY <2>1, <3>1, <3>2, <3>3, <4>1
    <3>4. CASE i + 1 # Len(s)
      <4>1. i + 1 \in 1 .. Len(r) /\ at[i + 1] = i + 1 + 1 /\ i # Len(r)
        BY <1>1, <1>2, <2>4, <3>4, SMTT(60)
      <4>2. r[i + 1] = s[i + 1 + 1]
        BY <1>4, <4>1
      <4> HIDE DEF at
      <4> QED
        BY <2>1, <3>1, <3>2, <3>4, <4>1, <4>2
    <3> QED
      BY <3>3, <3>4
  <2> QED
    BY <1>1, <2>2, <2>3, <2>4
<1>8. \A i, j \in 1 .. Len(r) : r[i] = r[j] => i = j
  <2> HIDE DEF at
  <2> SUFFICES ASSUME NEW i \in 1 .. Len(r), NEW j \in 1 .. Len(r), r[i] = r[j] PROVE i = j
    OBVIOUS
  <2>1. /\ at[i] \in 1 .. Len(s) /\ r[i] = s[at[i]]
        /\ at[j] \in 1 .. Len(s) /\ r[j] = s[at[j]]
    BY <1>4
  <2>2. at[i] = at[j]
    BY <1>1, <2>1
  <2> QED
    BY <1>6, <2>2
<1>9. ToSet(r) = ToSet(s) \ {s[p]}
  <2>1. ASSUME NEW x PROVE x \in ToSet(r) <=> x \in ToSet(s) /\ x # s[p]
    <3>1. ASSUME NEW i \in 1 .. Len(r), x = r[i] PROVE x \in ToSet(s) /\ x # s[p]
      <4> HIDE DEF at
      <4>1. at[i] \in 1 .. Len(s) /\ at[i] # p /\ x = s[at[i]]
        BY <1>4, <3>1
      <4>2. s[at[i]] # s[p]
        BY <1>1, <4>1
      <4> QED
        BY <1>1, <4>1, <4>2
    <3>2. ASSUME NEW l \in 1 .. Len(s), x = s[l], x # s[p] PROVE x \in ToSet(r)
      <4> HIDE DEF at
      <4> QED
        BY <1>3, <1>4, <1>5, <3>2
    <3> QED
      BY <1>1, <1>3, <3>1, <3>2
  <2> QED
    BY <2>1
<1>10. Chained(first, other, r)
  <2>1. first = IF Len(r) = 0 THEN Nil ELSE r[1]
    <3>1. CASE p = 1
      <4>1. next[s[1]] = IF 1 = Len(s) THEN Nil ELSE s[1 + 1]
        BY <1>1, <3>1
      <4>2. Len(s) = 1 <=> Len(r) = 0
        BY <1>1, <1>2
      <4>3. Len(r) # 0 => r[1] = s[1 + 1]
        BY <1>1, <1>2, <3>1
      <4> QED
        BY <1>0, <3>1, <4>1, <4>2, <4>3
    <3>2. CASE p # 1
      <4>0. PICK n \in Nat, q \in Nat : n = Len(s) /\ q = p /\ q \in 1 .. n /\ q # 1
        BY <1>1, <3>2
      <4>1. Len(r) # 0 /\ Len(s) # 0 /\ 1 \in 1 .. Len(r) /\ r[1] = s[1]
        BY <1>2, <4>0
      <4> QED
        BY <1>0, <1>1, <3>2, <4>1
    <3> QED
      BY <3>1, <3>2
  <2> HIDE DEF at
  <2> QED
    BY <1>2, <1>7, <1>8, <2>1, ChainedMade
<1> QED
  BY <1>9, <1>10
(* The end of a chain leads nowhere. *)
LEMMA NextOfNil == ASSUME NEW entries PROVE Nexts(entries)[Nil] = Nil
  BY DEF Nexts

(* A chain of entries has no more of them than there are. *)
LEMMA ChainFits ==
  ASSUME NEW s \in Seq(Nat), IsInjective(s), NEW n \in Nat, ToSet(s) \subseteq 0 .. n - 1
  PROVE  Len(s) <= n
<1>1. IsFiniteSet(0 .. n - 1) /\ Cardinality(0 .. n - 1) = n
  BY FS_Interval
<1>2. Cardinality(ToSet(s)) <= Cardinality(0 .. n - 1)
  BY <1>1, FS_Subset
<1>3. Cardinality(ToSet(s)) = Len(s)
  BY Counted
<1> QED
  BY <1>1, <1>2, <1>3

(* What the chain of a cell is. *)
LEMMA ChainIs ==
  ASSUME NEW map, NEW cell, NEW s, Chained(map.cells[cell], Nexts(map.entries), s),
         map.maxentries \in Nat, ToSet(s) \subseteq 0 .. map.maxentries - 1
  PROVE  Chain(map, cell) = s
<1> DEFINE at == Following(map.cells[cell], Nexts(map.entries))
           Ends(n) == at[n] = Nil /\ \A i \in 0 .. n - 1 : at[i] # Nil
           len == CHOOSE n \in 0 .. map.maxentries : Ends(n)
<1>1. /\ s \in Seq(Nat) /\ Len(s) \in Nat /\ IsInjective(s)
      /\ Links(map.cells[cell], Nexts(map.entries), s)
      /\ \A i \in 1 .. Len(s) : s[i] \in Nat
  BY ChainedIs DEF Chained
<1>2. \A n \in Nat : at[n] = IF n < Len(s) THEN s[n + 1] ELSE Nil
  BY <1>1, NextOfNil, WalkToEnd
<1>3. Len(s) \in 0 .. map.maxentries
  BY <1>1, ChainFits
<1> HIDE DEF at
<1>4. Ends(Len(s))
  <2>1. ASSUME NEW i \in 0 .. Len(s) - 1 PROVE at[i] # Nil
    <3>1. i \in Nat /\ i < Len(s) /\ i + 1 \in 1 .. Len(s)
      BY <1>1
    <3>2. at[i] = s[i + 1] /\ s[i + 1] \in Nat
      BY <1>1, <1>2, <3>1
    <3> QED
      BY <3>2 DEF Nil
  <2> QED
    BY <1>1, <1>2, <2>1
<1>5. ASSUME NEW n \in Nat, Ends(n) PROVE n = Len(s)
  <2>1. ~ (n < Len(s))
    <3>1. SUFFICES ASSUME n < Len(s) PROVE FALSE
      OBVIOUS
    <3>2. n + 1 \in 1 .. Len(s) /\ at[n] = s[n + 1]
      BY <1>1, <1>2, <3>1
    <3>3. s[n + 1] \in Nat
      BY <1>1, <3>2
    <3> QED
      BY <1>5, <3>2, <3>3 DEF Nil
  <2>2. ~ (Len(s) < n)
    <3>1. SUFFICES ASSUME Len(s) < n PROVE FALSE
      OBVIOUS
    <3>2. Len(s) \in 0 .. n - 1
      BY <1>1, <3>1
    <3> QED
      BY <1>4, <1>5, <3>2
  <2> QED
    BY <1>1, <2>1, <2>2
<1>6. len = Len(s)
  <2> HIDE DEF Ends
  <2>1. len \in 0 .. map.maxentries /\ Ends(len)
    BY <1>3, <1>4
  <2>2. len \in Nat
    BY <2>1
  <2> QED
    BY <1>5, <2>1, <2>2
<1>7. Chain(map, cell) = [i \in 1 .. len |-> at[i - 1]]
  BY DEF Chain, at
<1> HIDE DEF len
<1>8. \A i \in 1 .. Len(s) : at[i - 1] = s[i]
  <2> SUFFICES ASSUME NEW i \in 1 .. Len(s) PROVE at[i - 1] = s[i]
    OBVIOUS
  <2>1. i - 1 \in Nat /\ i - 1 < Len(s) /\ (i - 1) + 1 = i
    BY <1>1
  <2> QED
    BY <1>2, <2>1
<1>9. s = [i \in 1 .. Len(s) |-> s[i]]
  BY <1>1, LenProperties
<1> QED
  BY <1>6, <1>7, <1>8, <1>9

(* The keys of the entries. *)
KeyOf(entries) == [c \in DOMAIN entries |-> entries[c].key]

(* The chains of n cells: of every entry in D, once, in the cell of its key. *)
Linked(n, cells, D, keys, next, chains) ==
  /\ \A i \in 1 .. n :
       /\ Chained(cells[i], next, chains[i])
       /\ \A x : x \in ToSet(chains[i]) <=> x \in D /\ (keys[x] % n) + 1 = i
  /\ \A c, d \in D : keys[c] = keys[d] => c = d

HasChains(map, chains) ==
  Linked(map.ncells, map.cells, DOMAIN map.entries, KeyOf(map.entries), Nexts(map.entries), chains)

(* The chains of a map that holds are linked, *)
LEMMA ChainsOf ==
  ASSUME NEW map, ChainsHold(map)
  PROVE  HasChains(map, [i \in 1 .. map.ncells |-> Chain(map, i)])
<1> DEFINE n == map.ncells
           E == DOMAIN map.entries
           keys == KeyOf(map.entries)
           chains == [i \in 1 .. n |-> Chain(map, i)]
<1>1. ASSUME NEW i \in 1 .. n
      PROVE  /\ Chained(map.cells[i], Nexts(map.entries), chains[i])
             /\ \A x : x \in ToSet(chains[i]) <=> x \in E /\ (keys[x] % n) + 1 = i
  <2>1. /\ Chained(map.cells[i], Nexts(map.entries), Chain(map, i))
        /\ ToSet(Chain(map, i)) = {c \in E : Cell(map, map.entries[c].key) = i}
    BY DEF ChainsHold, Chained
  <2>2. ASSUME NEW x \in E PROVE Cell(map, map.entries[x].key) = (keys[x] % n) + 1
    BY DEF Cell, KeyOf
  <2>3. chains[i] = Chain(map, i)
    OBVIOUS
  <2> QED
    BY <2>1, <2>2, <2>3, Zenon
<1>2. \A c, d \in E : keys[c] = keys[d] => c = d
  BY DEF ChainsHold, KeyOf
<1> QED
  BY <1>1, <1>2, Zenon DEF HasChains, Linked

(* and a map of which chains are linked has those, and no other. *)
LEMMA ChainsAre ==
  ASSUME NEW map, map.maxentries \in Nat, DOMAIN map.entries \subseteq 0 .. map.maxentries - 1,
         NEW chains, HasChains(map, chains)
  PROVE  ChainsHold(map) /\ \A i \in 1 .. map.ncells : Chain(map, i) = chains[i]
<1> DEFINE n == map.ncells
           E == DOMAIN map.entries
           keys == KeyOf(map.entries)
<1>1. \A i \in 1 .. n :
        /\ Chained(map.cells[i], Nexts(map.entries), chains[i])
        /\ \A x : x \in ToSet(chains[i]) <=> x \in E /\ (keys[x] % n) + 1 = i
  BY Zenon DEF HasChains, Linked
<1>2. \A c, d \in E : keys[c] = keys[d] => c = d
  BY Zenon DEF HasChains, Linked
<1>3. ASSUME NEW i \in 1 .. n PROVE Chain(map, i) = chains[i]
  <2>1. ToSet(chains[i]) \subseteq 0 .. map.maxentries - 1
    BY <1>1
  <2> QED
    BY <1>1, <2>1, ChainIs
<1>4. ASSUME NEW i \in 1 .. n
      PROVE  ToSet(chains[i]) = {c \in E : Cell(map, map.entries[c].key) = i}
  <2>1. ASSUME NEW x \in E PROVE Cell(map, map.entries[x].key) = (keys[x] % n) + 1
    BY DEF Cell, KeyOf
  <2> QED
    BY <1>1, <2>1, Zenon
<1>5. \A c, d \in E : map.entries[c].key = map.entries[d].key => c = d
  BY <1>2 DEF KeyOf
<1> QED
  BY <1>1, <1>3, <1>4, <1>5, ZenonT(60) DEF ChainsHold, Chained

(* What the invariant says of a map. *)
LEMMA MapIs ==
  ASSUME NEW map, MapInv(map)
  PROVE  /\ map.maxentries \in Nat /\ map.ncells \in Nat /\ map.nentries \in Nat
         /\ map.maxentries > 0 <=> map.ncells > 0
         /\ map.cells \in Seq({Nil} \cup Nat) /\ Len(map.cells) = map.ncells
         /\ DOMAIN map.entries \subseteq 0 .. map.maxentries - 1
         /\ DOMAIN map.entries \subseteq Nat
         /\ \A c \in DOMAIN map.entries :
              /\ map.entries[c] \in [key : Key, value : Value, next : {Nil} \cup Nat]
              /\ KeyOf(map.entries)[c] = map.entries[c].key
              /\ Nexts(map.entries)[c] = map.entries[c].next
<1>1. /\ map.maxentries \in Nat /\ map.ncells \in Nat /\ map.nentries \in Nat
      /\ map.maxentries > 0 <=> map.ncells > 0
      /\ map.cells \in Seq({Nil} \cup Nat) /\ Len(map.cells) = map.ncells
      /\ map.entries \in [DOMAIN map.entries -> [key : Key, value : Value, next : {Nil} \cup Nat]]
  BY DEF MapInv, MapTypeOK
<1>2. DOMAIN map.entries \subseteq 0 .. map.maxentries - 1
  BY DEF MapInv, RestIsFree
<1>3. DOMAIN map.entries \subseteq Nat
  BY <1>1, <1>2
<1>4. \A c \in DOMAIN map.entries : c # Nil
  BY <1>3 DEF Nil
<1>5. \A c \in DOMAIN map.entries : Nexts(map.entries)[c] = map.entries[c].next
  BY <1>4 DEF Nexts
<1>6. \A c \in DOMAIN map.entries : KeyOf(map.entries)[c] = map.entries[c].key
  BY DEF KeyOf
<1> QED
  BY <1>1, <1>2, <1>3, <1>5, <1>6

(* The cell of a key, and its chain. *)
LEMMA CellIs ==
  ASSUME NEW map, MapInv(map), NEW k \in Nat, map.maxentries # 0
  PROVE  /\ Cell(map, k) \in 1 .. map.ncells
         /\ Chained(map.cells[Cell(map, k)], Nexts(map.entries), Chain(map, Cell(map, k)))
         /\ \A c : c \in ToSet(Chain(map, Cell(map, k)))
                     <=> c \in DOMAIN map.entries /\ Cell(map, map.entries[c].key) = Cell(map, k)
<1> DEFINE i == Cell(map, k)
<1>1. i \in 1 .. map.ncells
  <2>1. PICK n \in Nat : n = map.ncells /\ n > 0
    BY MapIs
  <2>2. (k % n) + 1 \in 1 .. n
    BY <2>1
  <2> QED
    BY <2>1, <2>2 DEF Cell
<1>2. /\ Chained(map.cells[i], Nexts(map.entries), Chain(map, i))
      /\ ToSet(Chain(map, i)) = {c \in DOMAIN map.entries : Cell(map, map.entries[c].key) = i}
  <2> HIDE DEF i
  <2> QED
    BY <1>1 DEF MapInv, ChainsHold, Chained
<1> QED
  BY <1>1, <1>2

(* A key is found where it is, and only then. *)
LEMMA FindIs ==
  ASSUME NEW map, MapInv(map), NEW k \in Nat
  PROVE  \/ /\ Find(map, k) \in DOMAIN map.entries /\ map.entries[Find(map, k)].key = k
            /\ Find(map, k) \in Nat /\ map.maxentries # 0
         \/ /\ Find(map, k) = Nil
            /\ \A c \in DOMAIN map.entries : map.entries[c].key # k
<1> DEFINE E == DOMAIN map.entries
           on == [c \in E \cup {Nil} |->
                    IF c = Nil \/ map.entries[c].key = k THEN c ELSE map.entries[c].next]
           start == map.cells[Cell(map, k)]
           max == map.maxentries
<1>1. CASE max = 0
  <2>1. Find(map, k) = Nil
    BY <1>1 DEF Find
  <2>2. E = {}
    BY <1>1, MapIs
  <2> QED
    BY <2>1, <2>2
<1>2. CASE max # 0
  <2>1. Find(map, k) = Following(start, on)[max]
    BY <1>2 DEF Find
  <2> DEFINE s == Chain(map, Cell(map, k))
  <2>2. /\ Chained(start, Nexts(map.entries), s)
        /\ \A c : c \in ToSet(s) <=> c \in E /\ Cell(map, map.entries[c].key) = Cell(map, k)
    BY <1>2, CellIs
  <2>3. /\ max \in Nat /\ E \subseteq 0 .. max - 1 /\ E \subseteq Nat
        /\ \A c \in E : Nexts(map.entries)[c] = map.entries[c].next
    BY MapIs
  <2>4. /\ \A c \in E : on[c] = IF map.entries[c].key = k THEN c ELSE Nexts(map.entries)[c]
        /\ on[Nil] = Nil
    <3>1. \A c \in E : c # Nil
      BY <2>3 DEF Nil
    <3> QED
      BY <2>3, <3>1
  <2> HIDE DEF s, start, on
  <2>5. Len(s) <= max
    <3>1. s \in Seq(Nat) /\ IsInjective(s) /\ ToSet(s) \subseteq 0 .. max - 1
      BY <2>2, <2>3 DEF Chained
    <3> HIDE DEF max, E
    <3> QED
      BY <2>3, <3>1, ChainFits
  <2>6. /\ s \in Seq(Nat) /\ Len(s) \in Nat
        /\ start = IF Len(s) = 0 THEN Nil ELSE s[1]
        /\ \A i \in 1 .. Len(s) : /\ s[i] \in Nat
                                  /\ Nexts(map.entries)[s[i]] = IF i = Len(s) THEN Nil ELSE s[i + 1]
        /\ \A i, j \in 1 .. Len(s) : s[i] = s[j] => i = j
        /\ \A x : x \in ToSet(s) <=> \E i \in 1 .. Len(s) : x = s[i]
    BY <2>2, ChainedIs
  <2>7. \A i \in 1 .. Len(s) : s[i] \in E
    BY <2>2, <2>6
  <2>8. CASE \E c \in E : map.entries[c].key = k
    <3>1. PICK c \in E : map.entries[c].key = k
      BY <2>8
    <3>2. PICK p \in 1 .. Len(s) : c = s[p]
      BY <2>2, <2>6, <3>1
    <3>3. on[s[p]] = s[p]
      BY <2>4, <3>1, <3>2
    <3>4. ASSUME NEW i \in 1 .. p - 1 PROVE on[s[i]] = s[i + 1]
      <4>1. i \in 1 .. Len(s) /\ i # p /\ i # Len(s)
        BY <2>6
      <4>2. s[i] \in E /\ s[i] # c
        BY <2>6, <2>7, <3>2, <4>1
      <4>3. map.entries[s[i]].key # k
        BY <3>1, <4>2 DEF MapInv, ChainsHold
      <4> QED
        BY <2>4, <2>6, <4>1, <4>2, <4>3
    <3>5. start = s[1]
      BY <2>6
    <3>6. \A n \in Nat : Following(start, on)[n] = IF n < p THEN s[n + 1] ELSE s[p]
      <4>1. StopsAt(start, on, s, p)
        BY <2>6, <3>3, <3>4, <3>5 DEF StopsAt
      <4> QED
        BY <4>1, WalkToStop
    <3>7. Following(start, on)[max] = c
      BY <2>3, <2>5, <2>6, <3>2, <3>6
    <3> QED
      BY <1>2, <2>1, <2>3, <3>1, <3>7
  <2>9. CASE \A c \in E : map.entries[c].key # k
    <3>1. \A i \in 1 .. Len(s) : on[s[i]] = Nexts(map.entries)[s[i]]
      BY <2>4, <2>7, <2>9
    <3>2. Links(start, on, s)
      BY <2>6, <3>1 DEF Links
    <3>3. \A n \in Nat : Following(start, on)[n] = IF n < Len(s) THEN s[n + 1] ELSE Nil
      BY <2>4, <2>6, <3>2, WalkToEnd
    <3>4. Following(start, on)[max] = Nil
      BY <2>3, <2>5, <2>6, <3>3
    <3> QED
      BY <2>1, <2>9, <3>4
  <2> QED
    BY <2>8, <2>9
<1> QED
  BY <1>1, <1>2

(* The chains, one after the other, have each entry once. *)
LEMMA ChainsTogether ==
  ASSUME MapAssumption, NEW map, MapInv(map)
  PROVE  /\ Chains(map) \in Seq(Nat) /\ IsInjective(Chains(map))
         /\ ToSet(Chains(map)) = DOMAIN map.entries
         /\ Len(Chains(map)) = map.nentries
<1> DEFINE N == map.ncells
           E == DOMAIN map.entries
           In(c) == Cell(map, map.entries[c].key)
           Is(k) == k = [n \in 0 .. N |-> IF n = 0 THEN <<>> ELSE k[n - 1] \o Chain(map, n)]
           Longer(n, q) == IF n \in 1 .. N THEN q \o Chain(map, n) ELSE q
           step == [n \in Nat |-> [q \in Seq(Nat) |-> Longer(n, q)]]
<1>1. N \in Nat /\ \A c \in E : In(c) \in 1 .. N
  <2>1. ASSUME NEW c \in E PROVE In(c) \in 1 .. N
    <3>1. /\ map.entries[c] \in [key : Key, value : Value, next : {Nil} \cup Nat]
          /\ c \in 0 .. map.maxentries - 1 /\ map.maxentries \in Nat
      BY MapIs
    <3>2. map.entries[c].key \in Nat
      BY <3>1 DEF MapAssumption
    <3>3. map.maxentries # 0
      BY <3>1
    <3> QED
      BY <3>2, <3>3, CellIs
  <2> QED
    BY <2>1, MapIs
<1>2. ASSUME NEW i \in 1 .. N
      PROVE  /\ Chain(map, i) \in Seq(Nat) /\ IsInjective(Chain(map, i))
             /\ ToSet(Chain(map, i)) = {c \in E : In(c) = i}
  BY DEF MapInv, ChainsHold
<1>3. ASSUME NEW n \in Nat, NEW q \in Seq(Nat) PROVE Longer(n, q) \in Seq(Nat)
  BY <1>2, ElementsOfConcat
<1> HIDE DEF Longer, N, E, In
<1>4. <<>> \in Seq(Nat) /\ step \in [Nat -> [Seq(Nat) -> Seq(Nat)]]
  BY <1>3, EmptySeq
<1>5. PICK f : Iterates(f, Seq(Nat), <<>>, step)
  <2> HIDE DEF step
  <2> QED
    BY <1>4, Iteration, Zenon
<1>6. \A n \in Nat : f[n + 1] = Longer(n + 1, f[n])
  <2>1. \A n \in Nat : f[n] \in Seq(Nat) /\ n + 1 \in Nat
    BY <1>5 DEF Iterates
  <2>2. \A n \in Nat, q \in Seq(Nat) : step[n][q] = Longer(n, q)
    OBVIOUS
  <2> HIDE DEF step
  <2> QED
    BY <1>5, <2>1, <2>2, Zenon DEF Iterates
<1> DEFINE g == [n \in 0 .. N |-> f[n]]
<1>7. Is(g)
  <2>1. ASSUME NEW n \in 0 .. N
        PROVE  f[n] = IF n = 0 THEN <<>> ELSE g[n - 1] \o Chain(map, n)
    <3>1. CASE n = 0
      BY <1>5, <3>1 DEF Iterates
    <3>2. CASE n # 0
      <4>1. n - 1 \in Nat /\ (n - 1) + 1 = n /\ n \in 1 .. N /\ n - 1 \in 0 .. N
        BY <1>1, <3>2
      <4>2. f[n] = Longer(n, f[n - 1]) /\ g[n - 1] = f[n - 1]
        BY <1>6, <4>1
      <4> QED
        BY <3>2, <4>1, <4>2 DEF Longer
    <3> QED
      BY <3>1, <3>2
  <2> QED
    BY <2>1
<1> DEFINE chains == CHOOSE k : Is(k)
<1>8. Chains(map) = chains[N]
  BY DEF Chains, N
<1>9. Is(chains)
  <2> HIDE DEF Is, g
  <2> QED
    BY <1>7, Zenon
<1> HIDE DEF chains
<1> DEFINE upTo(n) == {c \in E : In(c) <= n}
           Has(n) == n <= N => /\ chains[n] \in Seq(Nat) /\ IsInjective(chains[n])
                               /\ ToSet(chains[n]) = upTo(n)
           U == {n \in Nat : Has(n)}
<1>10. 0 \in U
  <2>1. chains[0] = <<>>
    BY <1>1, <1>9
  <2>2. ToSet(<<>>) = {} /\ IsInjective(<<>>)
    BY DEF ToSet, IsInjective
  <2>3. upTo(0) = {}
    BY <1>1
  <2> QED
    BY <1>4, <2>1, <2>2, <2>3
<1>11. ASSUME NEW n \in Nat, n \in U PROVE n + 1 \in U
  <2> SUFFICES ASSUME n + 1 <= N
               PROVE  /\ chains[n + 1] \in Seq(Nat) /\ IsInjective(chains[n + 1])
                      /\ ToSet(chains[n + 1]) = upTo(n + 1)
    OBVIOUS
  <2>1. n + 1 \in 0 .. N /\ n + 1 # 0 /\ (n + 1) - 1 = n /\ n + 1 \in 1 .. N
    BY <1>1
  <2>2. chains[n + 1] = chains[n] \o Chain(map, n + 1)
    BY <1>9, <2>1
  <2>3. /\ chains[n] \in Seq(Nat) /\ IsInjective(chains[n])
        /\ ToSet(chains[n]) = upTo(n)
    BY <1>1, <1>11
  <2>4. /\ Chain(map, n + 1) \in Seq(Nat) /\ IsInjective(Chain(map, n + 1))
        /\ ToSet(Chain(map, n + 1)) = {c \in E : In(c) = n + 1}
    BY <1>2, <2>1
  <2>5. /\ upTo(n) \cap {c \in E : In(c) = n + 1} = {}
        /\ upTo(n + 1) = upTo(n) \cup {c \in E : In(c) = n + 1}
    BY <1>1
  <2> HIDE DEF upTo
  <2>6. ToSet(chains[n]) \cap ToSet(Chain(map, n + 1)) = {}
    BY <2>3, <2>4, <2>5
  <2> DEFINE a == chains[n]
             b == Chain(map, n + 1)
  <2>7. a \in Seq(Nat) /\ b \in Seq(Nat)
    BY <2>3, <2>4
  <2>8. IsInjective(a) /\ IsInjective(b) /\ ToSet(a) \cap ToSet(b) = {}
    BY <2>3, <2>4, <2>6
  <2> HIDE DEF a, b
  <2>9. /\ a \o b \in Seq(Nat) /\ IsInjective(a \o b)
        /\ ToSet(a \o b) = ToSet(a) \cup ToSet(b)
    BY <2>7, <2>8, ElementsOfConcat
  <2> QED
    BY <2>2, <2>3, <2>4, <2>5, <2>9, Zenon DEF a, b
<1>12. \A n \in Nat : n \in U
  <2> HIDE DEF U
  <2> QED
    BY <1>10, <1>11, Induction
<1>13. chains[N] \in Seq(Nat) /\ IsInjective(chains[N]) /\ ToSet(chains[N]) = E
  <2>1. upTo(N) = E
    BY <1>1
  <2>2. N \in U
    BY <1>1, <1>12
  <2> HIDE DEF upTo
  <2>3. Has(N)
    <3> HIDE DEF Has
    <3> QED
      BY <2>2
  <2> QED
    BY <1>1, <2>1, <2>3
<1>14. Cardinality(E) = map.nentries
  BY DEF MapInv, RestIsFree, E
<1>15. Cardinality(E) = Len(chains[N])
  BY <1>13, Counted
<1> QED
  BY <1>8, <1>13, <1>14, <1>15 DEF E

(* One more entry, c, with key k, at the head of the chain of cell i. *)
Pushes(n, i, c, k, E, cells, keys, next, cells1, keys1, next1) ==
  /\ n \in Nat /\ i \in 1 .. n /\ i = (k % n) + 1 /\ c \in Nat /\ c \notin E
  /\ \A x \in E : keys[x] # k
  /\ cells1[i] = c /\ \A j \in 1 .. n : j # i => cells1[j] = cells[j]
  /\ keys1[c] = k /\ \A x \in E : keys1[x] = keys[x]
  /\ next1[c] = cells[i] /\ \A x \in E : next1[x] = next[x]

(* A new entry at the head of the chain of its cell leaves the cells linked (set_impl). *)
LEMMA LinkedPush ==
  ASSUME NEW n, NEW cells, NEW E, NEW keys, NEW next, NEW chains,
         Linked(n, cells, E, keys, next, chains),
         NEW i, NEW c, NEW k, NEW cells1, NEW keys1, NEW next1,
         Pushes(n, i, c, k, E, cells, keys, next, cells1, keys1, next1)
  PROVE  \E chains1 : Linked(n, cells1, E \cup {c}, keys1, next1, chains1)
<1>1. /\ n \in Nat /\ i \in 1 .. n /\ i = (k % n) + 1 /\ c \in Nat /\ c \notin E
      /\ \A x \in E : keys[x] # k
      /\ cells1[i] = c /\ \A j \in 1 .. n : j # i => cells1[j] = cells[j]
      /\ keys1[c] = k /\ \A x \in E : keys1[x] = keys[x]
      /\ next1[c] = cells[i] /\ \A x \in E : next1[x] = next[x]
  BY Zenon DEF Pushes
<1>2. /\ \A j \in 1 .. n :
           /\ Chained(cells[j], next, chains[j])
           /\ \A x : x \in ToSet(chains[j]) <=> x \in E /\ (keys[x] % n) + 1 = j
      /\ \A x, y \in E : keys[x] = keys[y] => x = y
  BY Zenon DEF Linked
<1>3. PICK s : Chained(c, next1, s) /\ ToSet(s) = ToSet(chains[i]) \cup {c}
  <2>1. c \notin ToSet(chains[i])
    BY <1>1, <1>2
  <2>2. \A x \in ToSet(chains[i]) : next1[x] = next[x]
    BY <1>1, <1>2
  <2>3. Chained(cells[i], next, chains[i])
    BY <1>1, <1>2
  <2> QED
    BY <1>1, <2>1, <2>2, <2>3, ChainedPush
<1> DEFINE chains1 == [j \in 1 .. n |-> IF j = i THEN s ELSE chains[j]]
<1>4. ASSUME NEW j \in 1 .. n
      PROVE  /\ Chained(cells1[j], next1, chains1[j])
             /\ \A x : x \in ToSet(chains1[j]) <=> x \in E \cup {c} /\ (keys1[x] % n) + 1 = j
  <2>1. CASE j = i
    <3>1. chains1[j] = s /\ cells1[j] = c
      BY <1>1, <2>1
    <3>2. \A x : x \in ToSet(s) <=> x \in E \cup {c} /\ (keys1[x] % n) + 1 = j
      <4>1. \A x \in E : (keys1[x] % n) + 1 = j <=> x \in ToSet(chains[i])
        BY <1>1, <1>2, <2>1
      <4>2. (keys1[c] % n) + 1 = j
        BY <1>1, <2>1
      <4>3. ToSet(chains[i]) \subseteq E
        BY <1>1, <1>2
      <4> QED
        BY <1>3, <4>1, <4>2, <4>3
    <3> HIDE DEF chains1
    <3> QED
      BY <1>3, <3>1, <3>2, Zenon
  <2>2. CASE j # i
    <3>1. chains1[j] = chains[j] /\ cells1[j] = cells[j]
      BY <1>1, <2>2
    <3>2. Chained(cells[j], next1, chains[j])
      <4>1. \A x \in ToSet(chains[j]) : next1[x] = next[x]
        BY <1>1, <1>2
      <4> QED
        BY <1>2, <4>1, ChainedSame
    <3>3. \A x : x \in ToSet(chains[j]) <=> x \in E \cup {c} /\ (keys1[x] % n) + 1 = j
      <4>1. \A x \in E : (keys1[x] % n) + 1 = j <=> x \in ToSet(chains[j])
        BY <1>1, <1>2
      <4>2. (keys1[c] % n) + 1 # j
        BY <1>1, <2>2
      <4>3. ToSet(chains[j]) \subseteq E
        BY <1>2
      <4> QED
        BY <4>1, <4>2, <4>3, <1>1
    <3> HIDE DEF chains1
    <3> QED
      BY <3>1, <3>2, <3>3, Zenon
  <2> QED
    BY <2>1, <2>2
<1>5. \A x, y \in E \cup {c} : keys1[x] = keys1[y] => x = y
  BY <1>1, <1>2
<1>6. Linked(n, cells1, E \cup {c}, keys1, next1, chains1)
  <2> HIDE DEF chains1
  <2> QED
    BY <1>4, <1>5, Zenon DEF Linked
<1> QED
  BY <1>6

(* One entry less: what led to c leads past it. *)
Cuts(n, i, p, c, E, keys, cells, next, chains, cells1, keys1, next1) ==
  /\ i \in 1 .. n /\ c \in E /\ p \in 1 .. Len(chains[i]) /\ chains[i][p] = c
  /\ \A j \in 1 .. n : cells1[j] = IF j = i /\ p = 1 THEN next[c] ELSE cells[j]
  /\ \A x \in E \ {c} : /\ keys1[x] = keys[x]
                        /\ next1[x] = IF p # 1 /\ x = chains[i][p - 1] THEN next[c] ELSE next[x]

(* The chain closed around an entry leaves the cells linked (remove). *)
LEMMA LinkedCut ==
  ASSUME NEW n, NEW cells, NEW E, NEW keys, NEW next, NEW chains,
         Linked(n, cells, E, keys, next, chains),
         NEW i, NEW p, NEW c, NEW cells1, NEW keys1, NEW next1,
         Cuts(n, i, p, c, E, keys, cells, next, chains, cells1, keys1, next1)
  PROVE  \E chains1 : Linked(n, cells1, E \ {c}, keys1, next1, chains1)
<1>1. /\ i \in 1 .. n /\ c \in E /\ p \in 1 .. Len(chains[i]) /\ chains[i][p] = c
      /\ \A j \in 1 .. n : cells1[j] = IF j = i /\ p = 1 THEN next[c] ELSE cells[j]
      /\ \A x \in E \ {c} :
           /\ keys1[x] = keys[x]
           /\ next1[x] = IF p # 1 /\ x = chains[i][p - 1] THEN next[c] ELSE next[x]
  BY Zenon DEF Cuts
<1>2. /\ \A j \in 1 .. n :
           /\ Chained(cells[j], next, chains[j])
           /\ \A x : x \in ToSet(chains[j]) <=> x \in E /\ (keys[x] % n) + 1 = j
      /\ \A x, y \in E : keys[x] = keys[y] => x = y
  BY Zenon DEF Linked
<1>3. PICK s : s = chains[i]
  OBVIOUS
<1>4. /\ s \in Seq(Nat) /\ Len(s) \in Nat
      /\ \A l, q \in 1 .. Len(s) : s[l] = s[q] => l = q
      /\ \A x : x \in ToSet(s) <=> \E l \in 1 .. Len(s) : x = s[l]
      /\ \A x \in ToSet(s) : x \in E
  <2>1. Chained(cells[i], next, s)
    BY <1>1, <1>2, <1>3
  <2>2. \A x : x \in ToSet(s) <=> x \in E /\ (keys[x] % n) + 1 = i
    BY <1>1, <1>2, <1>3
  <2> QED
    BY <2>1, <2>2, ChainedIs
<1>5. PICK r : Chained(cells1[i], next1, r) /\ ToSet(r) = ToSet(s) \ {c}
  <2>1. s[p] = c /\ p \in 1 .. Len(s) /\ Chained(cells[i], next, s)
    BY <1>1, <1>2, <1>3
  <2>2. cells1[i] = IF p = 1 THEN next[s[p]] ELSE cells[i]
    BY <1>1, <2>1
  <2>3. ASSUME NEW l \in 1 .. Len(s), l # p
        PROVE  next1[s[l]] = IF l = p - 1 THEN next[s[p]] ELSE next[s[l]]
    <3>1. s[l] \in E \ {c}
      BY <1>4, <2>1, <2>3
    <3>2. next1[s[l]] = IF p # 1 /\ s[l] = s[p - 1] THEN next[c] ELSE next[s[l]]
      BY <1>1, <1>3, <3>1
    <3>3. p # 1 => p - 1 \in 1 .. Len(s)
      BY <2>1, <1>4
    <3>4. l = p - 1 <=> p # 1 /\ s[l] = s[p - 1]
      BY <1>4, <2>1, <3>3
    <3> QED
      BY <2>1, <3>2, <3>4
  <2>4. CutsAt(cells[i], next, s, p, cells1[i], next1)
    BY <2>1, <2>2, <2>3 DEF CutsAt
  <2> QED
    BY <2>1, <2>4, ChainedCut
<1> DEFINE chains1 == [j \in 1 .. n |-> IF j = i THEN r ELSE chains[j]]
<1>6. ASSUME NEW j \in 1 .. n
      PROVE  /\ Chained(cells1[j], next1, chains1[j])
             /\ \A x : x \in ToSet(chains1[j]) <=> x \in E \ {c} /\ (keys1[x] % n) + 1 = j
  <2>1. CASE j = i
    <3>1. chains1[j] = r
      BY <2>1
    <3>2. \A x : x \in ToSet(r) <=> x \in E \ {c} /\ (keys1[x] % n) + 1 = j
      <4>1. \A x : x \in ToSet(s) <=> x \in E /\ (keys[x] % n) + 1 = j
        BY <1>1, <1>2, <1>3, <2>1
      <4>2. \A x \in E \ {c} : keys1[x] = keys[x]
        BY <1>1
      <4> QED
        BY <1>5, <4>1, <4>2
    <3> HIDE DEF chains1
    <3> QED
      BY <1>5, <2>1, <3>1, <3>2, Zenon
  <2>2. CASE j # i
    <3>1. chains1[j] = chains[j] /\ cells1[j] = cells[j]
      BY <1>1, <2>2
    <3>2. \A x : x \in ToSet(chains[j]) <=> x \in E /\ (keys[x] % n) + 1 = j
      BY <1>2
    <3>3. ASSUME NEW x \in ToSet(chains[j])
          PROVE  x \in E \ {c} /\ (p # 1 => x # chains[i][p - 1])
      <4>1. (keys[x] % n) + 1 # i /\ x \in E
        BY <2>2, <3>2, <3>3
      <4>2. x \notin ToSet(s)
        BY <1>1, <1>2, <1>3, <4>1
      <4>3. p # 1 => p - 1 \in 1 .. Len(s)
        BY <1>1, <1>3, <1>4
      <4>4. c \in ToSet(s) /\ (p # 1 => s[p - 1] \in ToSet(s))
        BY <1>1, <1>3, <1>4, <4>3
      <4> QED
        BY <1>3, <4>1, <4>2, <4>4
    <3>4. Chained(cells[j], next1, chains[j])
      <4>1. \A x \in ToSet(chains[j]) : next1[x] = next[x]
        BY <1>1, <3>3
      <4> QED
        BY <1>2, <4>1, ChainedSame
    <3>5. \A x : x \in ToSet(chains[j]) <=> x \in E \ {c} /\ (keys1[x] % n) + 1 = j
      <4>1. \A x \in E \ {c} : keys1[x] = keys[x]
        BY <1>1
      <4> QED
        BY <3>2, <3>3, <4>1
    <3> HIDE DEF chains1
    <3> QED
      BY <3>1, <3>4, <3>5, Zenon
  <2> QED
    BY <2>1, <2>2
<1>7. \A x, y \in E \ {c} : keys1[x] = keys1[y] => x = y
  BY <1>1, <1>2
<1>8. Linked(n, cells1, E \ {c}, keys1, next1, chains1)
  <2> HIDE DEF chains1
  <2> QED
    BY <1>6, <1>7, Zenon DEF Linked
<1> QED
  BY <1>8

-----------------------------------------------------------------------------
(* The operations.                                                         *)

Entry == [key : Key, value : Value, next : {Nil} \cup Nat]

(* A map, field by field. *)
MapOf(cells, entries, f, n, count, max) ==
  [cells |-> cells, entries |-> entries, lfree |-> f,
   ncells |-> n, nentries |-> count, maxentries |-> max]

(* What the fields of a map are. *)
LEMMA MapFields ==
  ASSUME NEW cells, NEW entries, NEW f, NEW n, NEW count, NEW max
  PROVE  LET map == MapOf(cells, entries, f, n, count, max) IN
         /\ map.cells = cells /\ map.entries = entries /\ map.lfree = f
         /\ map.ncells = n /\ map.nentries = count /\ map.maxentries = max
  BY DEF MapOf

(* A map is what its fields make. *)
LEMMA MapIsOf ==
  ASSUME NEW map, MapInv(map)
  PROVE  map = MapOf(map.cells, map.entries, map.lfree, map.ncells, map.nentries, map.maxentries)
  BY DEF MapInv, MapTypeOK, MapOf

(* The invariant, field by field. *)
Sound(cells, entries, f, n, count, max) ==
  /\ n \in Nat /\ max \in Nat /\ (max > 0 <=> n > 0)
  /\ cells \in Seq({Nil} \cup Nat) /\ Len(cells) = n
  /\ entries \in [DOMAIN entries -> Entry] /\ DOMAIN entries \subseteq 0 .. max - 1
  /\ count \in Nat /\ count = Cardinality(DOMAIN entries)
  /\ Ranges(f) /\ Free(f) = (0 .. max - 1) \ DOMAIN entries
  /\ \E chains : Linked(n, cells, DOMAIN entries, KeyOf(entries), Nexts(entries), chains)

(* The invariant of a map is one of its fields, *)
LEMMA SoundIs ==
  ASSUME NEW map, MapInv(map)
  PROVE  Sound(map.cells, map.entries, map.lfree, map.ncells, map.nentries, map.maxentries)
<1>1. \E chains : Linked(map.ncells, map.cells, DOMAIN map.entries, KeyOf(map.entries),
                         Nexts(map.entries), chains)
  BY ChainsOf DEF MapInv, HasChains
<1>2. map.entries \in [DOMAIN map.entries -> Entry]
  BY DEF MapInv, MapTypeOK, Entry
<1>3. /\ map.ncells \in Nat /\ map.maxentries \in Nat
      /\ (map.maxentries > 0 <=> map.ncells > 0)
      /\ map.cells \in Seq({Nil} \cup Nat) /\ Len(map.cells) = map.ncells
      /\ DOMAIN map.entries \subseteq 0 .. map.maxentries - 1
      /\ map.nentries \in Nat
  BY MapIs
<1>4. /\ map.nentries = Cardinality(DOMAIN map.entries)
      /\ Ranges(map.lfree) /\ Free(map.lfree) = (0 .. map.maxentries - 1) \ DOMAIN map.entries
  BY DEF MapInv, RestIsFree
<1> QED
  BY <1>1, <1>2, <1>3, <1>4, Zenon DEF Sound

(* and the other way round. *)
LEMMA SoundMakes ==
  ASSUME NEW cells, NEW entries, NEW f, NEW n, NEW count, NEW max,
         Sound(cells, entries, f, n, count, max)
  PROVE  MapInv(MapOf(cells, entries, f, n, count, max))
<1> DEFINE map == MapOf(cells, entries, f, n, count, max)
<1>1. /\ map.cells = cells /\ map.entries = entries /\ map.lfree = f
      /\ map.ncells = n /\ map.nentries = count /\ map.maxentries = max
  BY MapFields
<1>2. /\ n \in Nat /\ max \in Nat /\ (max > 0 <=> n > 0)
      /\ cells \in Seq({Nil} \cup Nat) /\ Len(cells) = n
      /\ entries \in [DOMAIN entries -> Entry] /\ DOMAIN entries \subseteq 0 .. max - 1
      /\ count \in Nat /\ count = Cardinality(DOMAIN entries)
      /\ Ranges(f) /\ Free(f) = (0 .. max - 1) \ DOMAIN entries
      /\ \E chains : Linked(n, cells, DOMAIN entries, KeyOf(entries), Nexts(entries), chains)
  BY Zenon DEF Sound
<1>3. f \in FreeList
  BY <1>2 DEF Ranges
<1>4. map \in [cells : Seq({Nil} \cup Nat), entries : [DOMAIN entries -> Entry],
               lfree : FreeList, ncells : Nat, nentries : Nat, maxentries : Nat]
  BY <1>2, <1>3 DEF MapOf
<1> HIDE DEF map
<1>5. MapTypeOK(map)
  BY <1>1, <1>2, <1>4 DEF MapTypeOK, Entry
<1>6. RestIsFree(map)
  BY <1>1, <1>2 DEF RestIsFree
<1>7. PICK chains : HasChains(map, chains)
  BY <1>1, <1>2, Zenon DEF HasChains
<1>8. ChainsHold(map)
  <2>1. map.maxentries \in Nat /\ DOMAIN map.entries \subseteq 0 .. map.maxentries - 1
    BY <1>1, <1>2
  <2> QED
    BY <1>7, <2>1, ChainsAre
<1>9. MapInv(map)
  BY <1>5, <1>6, <1>8 DEF MapInv
<1> QED
  BY <1>9 DEF map

(* What a map says of a key. *)
Binds(map, k, v) == \E c \in DOMAIN map.entries : map.entries[c].key = k /\ map.entries[c].value = v

(* The value of an entry is replaced. *)
ValuePutIn(map, c, v) == [map EXCEPT !.entries[c].value = v]

(* A value replaced: its key is bound to it, the others are as before (set_impl). *)
LEMMA ValuePut ==
  ASSUME NEW map, MapInv(map), NEW c, c \in DOMAIN map.entries, NEW v, v \in Value
  PROVE  LET r == ValuePutIn(map, c, v) IN
         /\ MapInv(r) /\ r.maxentries = map.maxentries
         /\ DOMAIN r.entries = DOMAIN map.entries /\ r.nentries = map.nentries
         /\ \A l, w : Binds(r, l, w)
                        <=> IF l = map.entries[c].key THEN w = v ELSE Binds(map, l, w)
<1> DEFINE es == map.entries
           E == DOMAIN map.entries
           new == [es[c] EXCEPT !.value = v]
           es1 == [es EXCEPT ![c] = new]
           r == ValuePutIn(map, c, v)
           r1 == MapOf(map.cells, es1, map.lfree, map.ncells, map.nentries, map.maxentries)
<1>1. es \in [E -> Entry]
  BY SoundIs, Zenon DEF Sound
<1>2. r = r1
  <2>1. map = MapOf(map.cells, map.entries, map.lfree, map.ncells, map.nentries, map.maxentries)
    BY MapIsOf
  <2> QED
    BY <2>1 DEF MapOf, ValuePutIn
<1>3. new \in Entry /\ new.key = es[c].key /\ new.next = es[c].next /\ new.value = v
  BY <1>1 DEF Entry
<1> HIDE DEF new, r
<1>4. /\ es1 \in [E -> Entry] /\ DOMAIN es1 = E /\ es1[c] = new
      /\ \A x \in E : x # c => es1[x] = es[x]
  BY <1>1, <1>3
<1> HIDE DEF es1
<1>5. KeyOf(es1) = KeyOf(es) /\ Nexts(es1) = Nexts(es)
  <2>1. \A x \in E : es1[x].key = es[x].key /\ es1[x].next = es[x].next
    BY <1>3, <1>4
  <2>2. KeyOf(es1) = KeyOf(es)
    BY <1>4, <2>1 DEF KeyOf
  <2>3. ASSUME NEW x \in E \cup {Nil}
        PROVE  (IF x = Nil THEN Nil ELSE es1[x].next) = (IF x = Nil THEN Nil ELSE es[x].next)
    BY <2>1
  <2>4. Nexts(es1) = Nexts(es)
    BY <1>4, <2>3, Zenon DEF Nexts
  <2> QED
    BY <2>2, <2>4
<1>6. MapInv(r1)
  <2>1. Sound(map.cells, es, map.lfree, map.ncells, map.nentries, map.maxentries)
    BY SoundIs
  <2>2. Sound(map.cells, es1, map.lfree, map.ncells, map.nentries, map.maxentries)
    BY <1>4, <1>5, <2>1, Zenon DEF Sound
  <2> QED
    BY <2>2, SoundMakes
<1>7. r1.maxentries = map.maxentries /\ r1.entries = es1 /\ r1.nentries = map.nentries
  BY MapFields
<1>8. ASSUME NEW l, NEW w
      PROVE  Binds(r1, l, w) <=> IF l = es[c].key THEN w = v ELSE Binds(map, l, w)
  <2>1. Binds(r1, l, w) <=> \E x \in E : es1[x].key = l /\ es1[x].value = w
    BY <1>4, <1>7 DEF Binds
  <2>2. Binds(map, l, w) <=> \E x \in E : es[x].key = l /\ es[x].value = w
    BY DEF Binds
  <2>3. \A x \in E : es[x].key = es[c].key => x = c
    BY DEF MapInv, ChainsHold
  <2>4. CASE l = es[c].key
    BY <1>3, <1>4, <2>1, <2>3, <2>4
  <2>5. CASE l # es[c].key
    BY <1>3, <1>4, <2>1, <2>2, <2>5
  <2> QED
    BY <2>4, <2>5
<1> HIDE DEF r1
<1> QED
  BY <1>2, <1>4, <1>6, <1>7, <1>8 DEF r

(* One more in a set of entry numbers. *)
LEMMA OneMore ==
  ASSUME NEW max \in Nat, NEW E, E \subseteq 0 .. max - 1, NEW c, c \in 0 .. max - 1, c \notin E
  PROVE  Cardinality(E \cup {c}) = Cardinality(E) + 1
<1>1. IsFiniteSet(0 .. max - 1)
  BY FS_Interval
<1>2. IsFiniteSet(E)
  BY <1>1, FS_Subset
<1> QED
  BY <1>2, FS_AddElement

(* An entry that was free is put at the head of its chain. *)
With(entries, c, new) == [d \in DOMAIN entries \cup {c} |-> IF d = c THEN new ELSE entries[d]]

WithCells(map, x) == [map EXCEPT !.cells = x]
WithEntries(map, x) == [map EXCEPT !.entries = x]
WithFree(map, x) == [map EXCEPT !.lfree = x]
WithCount(map, x) == [map EXCEPT !.nentries = x]
WithMax(map, x) == [map EXCEPT !.maxentries = x]

(* A map with one field replaced. *)
LEMMA FieldSet ==
  ASSUME NEW cells, NEW entries, NEW f, NEW n, NEW count, NEW max, NEW x
  PROVE  LET map == MapOf(cells, entries, f, n, count, max) IN
         /\ WithCells(map, x) = MapOf(x, entries, f, n, count, max)
         /\ WithEntries(map, x) = MapOf(cells, x, f, n, count, max)
         /\ WithFree(map, x) = MapOf(cells, entries, x, n, count, max)
         /\ WithCount(map, x) = MapOf(cells, entries, f, n, x, max)
         /\ WithMax(map, x) = MapOf(cells, entries, f, n, count, x)
<1> DEFINE map == MapOf(cells, entries, f, n, count, max)
<1>1. WithCells(map, x) = MapOf(x, entries, f, n, count, max)
  BY DEF MapOf, WithCells
<1>2. WithEntries(map, x) = MapOf(cells, x, f, n, count, max)
  BY DEF MapOf, WithEntries
<1>3. WithFree(map, x) = MapOf(cells, entries, x, n, count, max)
  BY DEF MapOf, WithFree
<1>4. WithCount(map, x) = MapOf(cells, entries, f, n, x, max)
  BY DEF MapOf, WithCount
<1>5. WithMax(map, x) = MapOf(cells, entries, f, n, count, x)
  BY DEF MapOf, WithMax
<1> QED
  BY <1>1, <1>2, <1>3, <1>4, <1>5, Zenon

EntryPutIn(map, k, v, c, g) ==
  LET i == Cell(map, k)
      entry == [key |-> k, value |-> v, next |-> map.cells[i]]
      map1 == WithFree(map, g)
      map2 == WithEntries(map1, With(map.entries, c, entry))
      map3 == WithCells(map2, [map2.cells EXCEPT ![i] = c])
  IN WithCount(map3, map.nentries + 1)

(* The map with a new entry, field by field. *)
LEMMA PutInFields ==
  ASSUME NEW map, MapInv(map), NEW k, NEW v, NEW c, NEW g
  PROVE  EntryPutIn(map, k, v, c, g)
           = LET i == Cell(map, k) IN
             MapOf([map.cells EXCEPT ![i] = c],
                   With(map.entries, c, [key |-> k, value |-> v, next |-> map.cells[i]]),
                   g, map.ncells, map.nentries + 1, map.maxentries)
<1>1. PICK cells, entries, f, n, count, max :
        /\ map = MapOf(cells, entries, f, n, count, max)
        /\ map.cells = cells /\ map.nentries = count
        /\ map.ncells = n /\ map.maxentries = max
  BY MapIsOf, Zenon
<1> DEFINE i == Cell(map, k)
           more == With(map.entries, c, [key |-> k, value |-> v, next |-> map.cells[i]])
           map1 == WithFree(map, g)
           map2 == WithEntries(map1, more)
           map3 == WithCells(map2, [map2.cells EXCEPT ![i] = c])
           map4 == WithCount(map3, map.nentries + 1)
<1>0. EntryPutIn(map, k, v, c, g) = map4
  BY Zenon DEF EntryPutIn
<1> HIDE DEF i, more
<1>2. map1 = MapOf(cells, entries, g, n, count, max)
  BY <1>1, FieldSet
<1> HIDE DEF map1
<1>3. map2 = MapOf(cells, more, g, n, count, max)
  BY <1>2, FieldSet
<1> HIDE DEF map2
<1>4. map2.cells = cells
  BY <1>3, MapFields
<1>5. map3 = MapOf([cells EXCEPT ![i] = c], more, g, n, count, max)
  BY <1>3, <1>4, FieldSet
<1> HIDE DEF map3
<1>6. map4 = MapOf([cells EXCEPT ![i] = c], more, g, n, count + 1, max)
  BY <1>1, <1>5, FieldSet
<1> HIDE DEF map4
<1> QED
  BY <1>0, <1>1, <1>6, Zenon DEF i, more

(* A new entry: its key is bound, the others are as before (set_impl). *)
LEMMA EntryPut ==
  ASSUME MapAssumption, NEW map, MapInv(map), NEW k \in Key, NEW v \in Value,
         \A d \in DOMAIN map.entries : map.entries[d].key # k,
         NEW c, c \in Free(map.lfree),
         NEW g, Ranges(g), Free(g) = Free(map.lfree) \ {c}
  PROVE  LET r == EntryPutIn(map, k, v, c, g) IN
         /\ MapInv(r) /\ r.maxentries = map.maxentries
         /\ DOMAIN r.entries = DOMAIN map.entries \cup {c} /\ r.nentries = map.nentries + 1
         /\ \A l, w : Binds(r, l, w) <=> IF l = k THEN w = v ELSE Binds(map, l, w)
<1> DEFINE es == map.entries
           E == DOMAIN map.entries
           n == map.ncells
           max == map.maxentries
           i == Cell(map, k)
           new == [key |-> k, value |-> v, next |-> map.cells[i]]
           es1 == With(es, c, new)
           cells1 == [map.cells EXCEPT ![i] = c]
           r == EntryPutIn(map, k, v, c, g)
           r1 == MapOf(cells1, es1, g, n, map.nentries + 1, max)
<1>1. Sound(map.cells, es, map.lfree, n, map.nentries, max)
  BY SoundIs
<1>2. /\ n \in Nat /\ max \in Nat /\ (max > 0 <=> n > 0)
      /\ map.cells \in Seq({Nil} \cup Nat) /\ Len(map.cells) = n
      /\ es \in [E -> Entry] /\ E \subseteq 0 .. max - 1
      /\ map.nentries \in Nat /\ map.nentries = Cardinality(E)
      /\ Free(map.lfree) = (0 .. max - 1) \ E
      /\ \E chains : Linked(n, map.cells, E, KeyOf(es), Nexts(es), chains)
  BY <1>1, Zenon DEF Sound
<1>3. r = r1
  BY PutInFields, Zenon
<1>4. c \in 0 .. max - 1 /\ c \in Nat /\ c \notin E /\ max # 0 /\ c # Nil
  BY <1>2 DEF Nil
<1>5. k \in Nat /\ i \in 1 .. n /\ i = (k % n) + 1
  <2>1. k \in Nat
    BY DEF MapAssumption
  <2>2. i \in 1 .. n
    BY <1>4, <2>1, CellIs
  <2> QED
    BY <2>1, <2>2 DEF Cell
<1>6. /\ cells1 \in Seq({Nil} \cup Nat) /\ Len(cells1) = n
      /\ cells1[i] = c /\ \A j \in 1 .. n : j # i => cells1[j] = map.cells[j]
  <2> HIDE DEF i, n
  <2>1. map.cells \in [1 .. n -> {Nil} \cup Nat] /\ DOMAIN map.cells = 1 .. n
    BY <1>2, LenProperties, Elements
  <2> QED
    BY <1>2, <1>4, <1>5, <2>1, ExceptSeq
<1>7. map.cells[i] \in {Nil} \cup Nat
  <2> HIDE DEF i, n
  <2> QED
    BY <1>2, <1>5, Elements
<1>8. new \in Entry /\ new.key = k /\ new.value = v /\ new.next = map.cells[i]
  <2> HIDE DEF i
  <2> QED
    BY <1>7 DEF Entry
<1> HIDE DEF new, r, cells1, i, n, max, es, E
<1>9. DOMAIN es = E
  BY DEF E, es
<1>10. /\ DOMAIN es1 = E \cup {c} /\ es1[c] = new /\ \A x \in E : es1[x] = es[x]
       /\ es1 = [x \in DOMAIN es1 |-> es1[x]]
  BY <1>4, <1>9 DEF es1, With
<1> HIDE DEF es1
<1>11. es1 \in [E \cup {c} -> Entry]
  BY <1>2, <1>8, <1>10
<1>12. Pushes(n, i, c, k, E, map.cells, KeyOf(es), Nexts(es), cells1, KeyOf(es1), Nexts(es1))
  <2>1. \A x \in E : x # Nil
    BY <1>2 DEF Nil
  <2>2. \A x \in E : KeyOf(es)[x] = es[x].key /\ Nexts(es)[x] = es[x].next
    BY <1>9, <2>1 DEF KeyOf, Nexts
  <2>3. \A x \in E \cup {c} : KeyOf(es1)[x] = es1[x].key /\ Nexts(es1)[x] = es1[x].next
    BY <1>4, <1>10, <2>1 DEF KeyOf, Nexts
  <2>4. \A x \in E : KeyOf(es)[x] # k
    BY <2>2 DEF E, es
  <2>5. KeyOf(es1)[c] = k /\ Nexts(es1)[c] = map.cells[i]
    BY <1>8, <1>10, <2>3
  <2>6. \A x \in E : KeyOf(es1)[x] = KeyOf(es)[x] /\ Nexts(es1)[x] = Nexts(es)[x]
    BY <1>10, <2>2, <2>3
  <2> QED
    BY <1>2, <1>4, <1>5, <1>6, <2>4, <2>5, <2>6, Zenon DEF Pushes
<1>13. \E chains : Linked(n, cells1, E \cup {c}, KeyOf(es1), Nexts(es1), chains)
  BY <1>2, <1>12, LinkedPush
<1>14. MapInv(r1)
  <2>1. map.nentries + 1 = Cardinality(DOMAIN es1) /\ map.nentries + 1 \in Nat
    BY <1>2, <1>4, <1>10, OneMore
  <2>2. DOMAIN es1 \subseteq 0 .. max - 1 /\ Free(g) = (0 .. max - 1) \ DOMAIN es1
    BY <1>2, <1>4, <1>10
  <2>3. Sound(cells1, es1, g, n, map.nentries + 1, max)
    BY <1>2, <1>6, <1>10, <1>11, <1>13, <2>1, <2>2, ZenonT(60) DEF Sound
  <2> QED
    BY <2>3, SoundMakes
<1>15. r1.maxentries = max /\ r1.entries = es1 /\ r1.nentries = map.nentries + 1
  BY MapFields
<1> HIDE DEF r1
<1>16. ASSUME NEW l, NEW w
       PROVE  Binds(r1, l, w) <=> IF l = k THEN w = v ELSE Binds(map, l, w)
  <2>1. Binds(r1, l, w) <=> \E x \in E \cup {c} : es1[x].key = l /\ es1[x].value = w
    BY <1>10, <1>15 DEF Binds
  <2>2. Binds(map, l, w) <=> \E x \in E : es[x].key = l /\ es[x].value = w
    BY DEF Binds, E, es
  <2>3. \A x \in E : es[x].key # k
    BY DEF E, es
  <2>4. CASE l = k
    BY <1>8, <1>10, <2>1, <2>3, <2>4
  <2>5. CASE l # k
    BY <1>8, <1>10, <2>1, <2>2, <2>5
  <2> QED
    BY <2>4, <2>5
<1>17. MapInv(r) /\ r.maxentries = map.maxentries
  BY <1>3, <1>14, <1>15 DEF max
<1>18. DOMAIN r.entries = DOMAIN map.entries \cup {c} /\ r.nentries = map.nentries + 1
  BY <1>3, <1>10, <1>15 DEF E
<1> QED
  BY <1>3, <1>16, <1>17, <1>18 DEF r

(* The arrays of a map hold each index of its entries. *)
LEMMA StoredWhole ==
  ASSUME MapAssumption, NEW map, MapInv(map), NEW c \in 0 .. map.maxentries - 1
  PROVE  KeptIndex(map, c) = c
<1>1. CharRange \in Nat \ {0} /\ Limit \in Nat /\ Limit <= CharRange
  BY DEF MapAssumption
<1>2. map.maxentries \in Nat
  BY MapIs
<1>3. CASE map.maxentries < Limit
  <2>1. PICK r \in Nat, max \in Nat : r = CharRange /\ max = map.maxentries /\ max < r
    BY <1>1, <1>2, <1>3
  <2>2. c \in Nat /\ c < r /\ 2 * r \in Nat \ {0} /\ c < 2 * r
    BY <2>1
  <2>3. \A d \in Nat \ {0} : c < d => c % d = c
    BY <2>2
  <2>4. c % (2 * CharRange) = c /\ ~ c >= CharRange
    BY <1>1, <2>1, <2>2, <2>3
  <2> QED
    BY <1>3, <2>4 DEF KeptIndex
<1>4. CASE ~ map.maxentries < Limit
  BY <1>4 DEF KeptIndex
<1> QED
  BY <1>3, <1>4

(* What set does to a map that has a place for the key. *)
LEMMA PutKeeps ==
  ASSUME MapAssumption, NEW map, MapInv(map), NEW k \in Key, NEW v \in Value,
         Find(map, k) # Nil \/ Get(map.lfree)[1] # Nil
  PROVE  /\ MapInv(Put(map, k, v)) /\ Put(map, k, v).maxentries = map.maxentries
         /\ \A l, w : Binds(Put(map, k, v), l, w) <=> IF l = k THEN w = v ELSE Binds(map, l, w)
         /\ (\A c \in DOMAIN map.entries : map.entries[c].key # k)
              => Put(map, k, v).nentries = map.nentries + 1
<1> DEFINE old == Find(map, k)
<1>1. k \in Nat
  BY DEF MapAssumption
<1>2. CASE /\ old \in DOMAIN map.entries /\ map.entries[old].key = k
           /\ old \in Nat
  <2>1. old # Nil
    BY <1>2 DEF Nil
  <2>2. Put(map, k, v) = ValuePutIn(map, old, v)
    BY <2>1 DEF Put, ValuePutIn
  <2> HIDE DEF old
  <2> QED
    BY <1>2, <2>2, ValuePut
<1>3. CASE /\ old = Nil
           /\ \A c \in DOMAIN map.entries : map.entries[c].key # k
  <2> DEFINE c == Get(map.lfree)[1]
             g == Get(map.lfree)[2]
  <2>1. Ranges(map.lfree)
    BY DEF MapInv, RestIsFree
  <2>2. c # Nil
    BY <1>3
  <2>3. c \in Free(map.lfree) /\ Ranges(g) /\ Free(g) = Free(map.lfree) \ {c}
    BY <2>1, <2>2, GetTakes
  <2>6. Free(map.lfree) \subseteq 0 .. map.maxentries - 1
    BY DEF MapInv, RestIsFree
  <2>7. KeptIndex(map, c) = c
    BY <2>3, <2>6, StoredWhole
  <2>4. Put(map, k, v) = EntryPutIn(map, k, v, c, g)
    BY <1>3, <2>7, Zenon DEF Put, EntryPutIn, With, WithCells, WithEntries, WithFree, WithCount
  <2> HIDE DEF c, g, old
  <2> DEFINE r == EntryPutIn(map, k, v, c, g)
  <2>5. /\ MapInv(r) /\ r.maxentries = map.maxentries
        /\ DOMAIN r.entries = DOMAIN map.entries \cup {c} /\ r.nentries = map.nentries + 1
        /\ \A l, w : Binds(r, l, w) <=> IF l = k THEN w = v ELSE Binds(map, l, w)
    BY <1>3, <2>3, EntryPut, Zenon
  <2> HIDE DEF r
  <2> QED
    BY <2>4, <2>5, Zenon DEF r
<1> QED
  BY <1>1, <1>2, <1>3, FindIs

(* While there are fewer entries than places, one is free. *)
LEMMA RoomLeft ==
  ASSUME NEW map, MapInv(map), map.nentries # map.maxentries
  PROVE  Get(map.lfree)[1] # Nil
<1>1. /\ Ranges(map.lfree) /\ Free(map.lfree) = (0 .. map.maxentries - 1) \ DOMAIN map.entries
      /\ map.nentries = Cardinality(DOMAIN map.entries)
  BY DEF MapInv, RestIsFree
<1>2. map.maxentries \in Nat /\ DOMAIN map.entries \subseteq 0 .. map.maxentries - 1
  BY MapIs
<1>3. Cardinality(0 .. map.maxentries - 1) = map.maxentries
  BY <1>2, FS_Interval
<1>4. Free(map.lfree) # {}
  <2>1. SUFFICES ASSUME Free(map.lfree) = {} PROVE FALSE
    OBVIOUS
  <2>2. DOMAIN map.entries = 0 .. map.maxentries - 1
    BY <1>1, <1>2, <2>1
  <2> QED
    BY <1>1, <1>3, <2>2
<1>5. Get(map.lfree)[1] \in Nat
  BY <1>1, <1>4, GetTakes
<1> QED
  BY <1>5 DEF Nil

(* And when none is free, there are as many. *)
LEMMA NoneLeft ==
  ASSUME NEW map, MapInv(map), Get(map.lfree)[1] = Nil
  PROVE  map.nentries = map.maxentries
  BY RoomLeft

(* How many cells there are for n entries. *)
LEMMA CellsFor ==
  ASSUME MapAssumption, NEW n \in 0 .. MaxEntries
  PROVE  NextCells(n) \in Nat \ {0}
<1> DEFINE enough == {i \in DOMAIN Primes : Primes[i] >= n \div CellRatio}
           first == CHOOSE i \in enough : \A j \in enough : i <= j
<1>1. /\ Primes \in Seq(Nat \ {0})
      /\ \A x \in 0 .. MaxEntries : \E i \in DOMAIN Primes : Primes[i] >= x \div CellRatio
  BY Zenon DEF MapAssumption
<1>2. DOMAIN Primes = 1 .. Len(Primes) /\ Len(Primes) \in Nat
      /\ \A i \in 1 .. Len(Primes) : Primes[i] \in Nat \ {0}
  BY <1>1, Elements
<1>3. enough # {}
  BY <1>1
<1>4. enough \subseteq Nat /\ enough \subseteq DOMAIN Primes
  BY <1>2
<1> HIDE DEF enough
<1>5. first \in enough
  <2>1. \E i \in enough : \A j \in enough : i <= j
    BY <1>3, <1>4, First
  <2> QED
    BY <2>1, Zenon
<1>6. Primes[first] \in Nat \ {0}
  BY <1>2, <1>4, <1>5
<1>7. NextCells(n) = Primes[first]
  BY Zenon DEF NextCells, enough
<1> QED
  BY <1>6, <1>7

(* The arrays grow. *)
LEMMA GrownBy ==
  ASSUME MapAssumption, NEW map, MapInv(map)
  PROVE  NextEntries(map) \in Nat \ {0} /\ NextEntries(map) > map.maxentries
<1>1. PICK max \in Nat : max = map.maxentries
  BY MapIs
<1>2. SizeInit \in Nat \ {0}
  BY Zenon DEF MapAssumption
<1>3. max # 0 => (max * 3 + 1) \div 2 \in Nat /\ (max * 3 + 1) \div 2 > max
  OBVIOUS
<1> QED
  BY <1>1, <1>2, <1>3 DEF NextEntries

(* Same cells, of the same width: what is new is free. *)
LEMMA ExpandKeeps ==
  ASSUME NEW map, MapInv(map), map.ncells # 0, NEW n \in Nat, n > map.maxentries,
         map.maxentries < Limit <=> n < Limit
  PROVE  /\ MapInv(Expand(map, n)) /\ Expand(map, n).maxentries = n
         /\ Expand(map, n).nentries = map.nentries
         /\ \A l, w : Binds(Expand(map, n), l, w) <=> Binds(map, l, w)
<1> DEFINE es == map.entries
           E == DOMAIN map.entries
           f1 == AddRange(map.lfree, map.maxentries, n - map.maxentries)
           r1 == MapOf(map.cells, es, f1, map.ncells, map.nentries, n)
<1>1. Sound(map.cells, es, map.lfree, map.ncells, map.nentries, map.maxentries)
  BY SoundIs
<1>2. /\ map.ncells \in Nat /\ (map.maxentries > 0 <=> map.ncells > 0)
      /\ map.cells \in Seq({Nil} \cup Nat) /\ Len(map.cells) = map.ncells
      /\ es \in [E -> Entry] /\ E \subseteq 0 .. map.maxentries - 1
      /\ map.nentries \in Nat /\ map.nentries = Cardinality(E)
      /\ Ranges(map.lfree) /\ Free(map.lfree) = (0 .. map.maxentries - 1) \ E
      /\ \E chains : Linked(map.ncells, map.cells, E, KeyOf(es), Nexts(es), chains)
  BY <1>1, Zenon DEF Sound
<1>3. PICK max \in Nat, more \in Nat \ {0} : max = map.maxentries /\ more = n - max /\ n = max + more
  <2>1. map.maxentries \in Nat
    BY MapIs
  <2> QED
    BY <2>1
<1>4. f1 = AddRange(map.lfree, max, more)
  BY <1>3
<1>5. Ranges(f1) /\ Free(f1) = Free(map.lfree) \cup (max .. max + more - 1)
  <2>1. Free(map.lfree) \cap (max .. max + more - 1) = {}
    BY <1>2, <1>3
  <2>2. Ranges(map.lfree)
    BY <1>2
  <2>3. PICK f : f = map.lfree
    OBVIOUS
  <2>4. /\ Ranges(AddRange(f, max, more))
        /\ Free(AddRange(f, max, more)) = Free(f) \cup (max .. max + more - 1)
    <3> HIDE DEF E, f1
    <3> QED
      BY <2>1, <2>2, <2>3, AddRangeKeeps
  <2> QED
    BY <1>4, <2>3, <2>4
<1> HIDE DEF f1
<1>6. Sound(map.cells, es, f1, map.ncells, map.nentries, n)
  <2>1. E \subseteq 0 .. n - 1 /\ Free(f1) = (0 .. n - 1) \ E
    <3>1. E \subseteq 0 .. max - 1 /\ Free(f1) = ((0 .. max - 1) \ E) \cup (max .. max + more - 1)
      BY <1>2, <1>3, <1>5
    <3>2. /\ \A x : x \in 0 .. n - 1 <=> x \in 0 .. max - 1 \/ x \in max .. max + more - 1
          /\ \A x \in 0 .. max - 1 : x \notin max .. max + more - 1
      BY <1>3
    <3> HIDE DEF E
    <3> QED
      BY <3>1, <3>2, Zenon
  <2>2. n > 0 <=> map.ncells > 0
    BY <1>2, <1>3
  <2> QED
    BY <1>2, <1>5, <2>1, <2>2, Zenon DEF Sound
<1>7. MapInv(r1)
  BY <1>6, SoundMakes
<1>8. r1.maxentries = n /\ r1.entries = es /\ r1.nentries = map.nentries
  BY MapFields
<1>9. Expand(map, n) = r1
  <2> DEFINE same == map.maxentries < Limit <=> n < Limit
             readCells ==
               [i \in DOMAIN map.cells |-> IF same THEN map.cells[i] ELSE Nil]
             readEntries ==
               [c \in E |-> [es[c] EXCEPT !.next = IF same THEN @ ELSE Nil]]
             map1 == WithCells(WithMax(map, n), readCells)
  <2>5. Expand(map, n) = WithFree(WithEntries(map1, readEntries), f1)
    BY Zenon DEF Expand, WithFree, WithMax, WithCells, WithEntries, f1
  <2>6. readCells = map.cells
    <3>1. map.cells = [i \in DOMAIN map.cells |-> map.cells[i]]
      BY <1>2
    <3> QED
      BY <3>1, Zenon
  <2>7. readEntries = es
    <3>1. \A c \in E : es[c] \in Entry
      BY <1>2
    <3>2. \A c \in E : [es[c] EXCEPT !.next = @] = es[c]
      BY <3>1 DEF Entry
    <3>3. readEntries = [c \in E |-> [es[c] EXCEPT !.next = @]]
      BY Zenon
    <3>4. [c \in E |-> [es[c] EXCEPT !.next = @]] = [c \in E |-> es[c]]
      BY <3>2
    <3>5. es = [c \in E |-> es[c]]
      BY <1>2
    <3> QED
      BY <3>3, <3>4, <3>5, Zenon
  <2> HIDE DEF readCells, readEntries
  <2>2. PICK cells, entries, f, cs, count, mx :
          /\ map = MapOf(cells, entries, f, cs, count, mx)
          /\ map.cells = cells /\ map.nentries = count /\ map.entries = entries
          /\ map.ncells = cs
    BY MapIsOf, Zenon
  <2>3. WithMax(map, n) = MapOf(cells, entries, f, cs, count, n)
    BY <2>2, FieldSet
  <2>8. map1 = MapOf(cells, entries, f, cs, count, n)
    BY <2>2, <2>3, <2>6, FieldSet
  <2> HIDE DEF map1
  <2>9. WithEntries(map1, readEntries) = MapOf(cells, entries, f, cs, count, n)
    BY <2>2, <2>7, <2>8, FieldSet
  <2>4. WithFree(WithEntries(map1, readEntries), f1) = MapOf(cells, entries, f1, cs, count, n)
    BY <2>9, FieldSet
  <2> QED
    BY <2>2, <2>4, <2>5
<1> HIDE DEF r1
<1>10. \A l, w : Binds(r1, l, w) <=> Binds(map, l, w)
  BY <1>8 DEF Binds
<1> QED
  BY <1>7, <1>8, <1>9, <1>10

(* New arrays: everything is free. *)
LEMMA FreshIs ==
  ASSUME MapAssumption, NEW n \in 1 .. MaxEntries
  PROVE  /\ MapInv(Fresh(n)) /\ Fresh(n).maxentries = n /\ Fresh(n).nentries = 0
         /\ DOMAIN Fresh(n).entries = {}
<1> DEFINE c == NextCells(n)
           cells == [i \in 1 .. c |-> Nil]
           f == AddRange(EmptyList, 0, n)
           chains == [i \in 1 .. c |-> <<>>]
<1>1. c \in Nat \ {0} /\ n \in Nat \ {0}
  BY CellsFor
<1>2. Ranges(f) /\ Free(f) = 0 .. n - 1
  <2>1. <<>> \in Seq([pos : Nat, count : Nat \ {0}])
    OBVIOUS
  <2>2. Ranges(EmptyList) /\ Free(EmptyList) = {}
    BY <2>1 DEF Ranges, FreeList, EmptyList, Free
  <2>3. /\ Ranges(AddRange(EmptyList, 0, n))
        /\ Free(AddRange(EmptyList, 0, n)) = Free(EmptyList) \cup (0 .. 0 + n - 1)
    <3>1. PICK z \in Nat : z = 0
      OBVIOUS
    <3>3. PICK k \in Nat \ {0} : k = n
      BY <1>1
    <3>4. Free(EmptyList) \cap (z .. z + k - 1) = {}
      BY <2>2
    <3>5. /\ Ranges(AddRange(EmptyList, z, k))
          /\ Free(AddRange(EmptyList, z, k)) = Free(EmptyList) \cup (z .. z + k - 1)
      BY <2>2, <3>4, AddRangeKeeps
    <3> QED
      BY <3>1, <3>3, <3>5
  <2> QED
    BY <2>2, <2>3
<1>3. cells \in Seq({Nil} \cup Nat) /\ Len(cells) = c
  BY <1>1
<1>4. NoEntries \in [{} -> Entry] /\ DOMAIN NoEntries = {}
  BY DEF NoEntries
<1>5. Linked(c, cells, {}, KeyOf(NoEntries), Nexts(NoEntries), chains)
  <2>1. ASSUME NEW i \in 1 .. c
        PROVE  /\ Chained(cells[i], Nexts(NoEntries), chains[i])
               /\ \A x : x \in ToSet(chains[i])
                           <=> x \in {} /\ (KeyOf(NoEntries)[x] % c) + 1 = i
    <3>1. cells[i] = Nil /\ chains[i] = <<>>
      OBVIOUS
    <3>2. <<>> \in Seq(Nat) /\ Len(<<>>) = 0
      OBVIOUS
    <3>3. Chained(Nil, Nexts(NoEntries), <<>>)
      <4>1. PICK s : s = <<>>
        OBVIOUS
      <4>2. s \in Seq(Nat) /\ Len(s) = 0
        BY <3>2, <4>1
      <4>3. \A j \in 1 .. Len(s) : FALSE
        BY <4>2
      <4>4. DOMAIN s = 1 .. Len(s)
        BY <4>2, Elements
      <4> QED
        BY <4>1, <4>2, <4>3, <4>4 DEF Chained, Links, IsInjective
    <3>4. ToSet(<<>>) = {}
      BY DEF ToSet
    <3> QED
      BY <3>1, <3>3, <3>4
  <2> HIDE DEF cells, chains
  <2> QED
    BY <2>1, Zenon DEF Linked
<1>6. Sound(cells, NoEntries, f, c, 0, n)
  <2>1. Cardinality({}) = 0
    BY FS_EmptySet
  <2> HIDE DEF c, cells, f, chains
  <2>2. DOMAIN NoEntries \subseteq 0 .. n - 1 /\ Free(f) = (0 .. n - 1) \ DOMAIN NoEntries
    BY <1>2, <1>4
  <2>3. c \in Nat /\ n \in Nat /\ (n > 0 <=> c > 0) /\ 0 \in Nat
    BY <1>1
  <2>4. \E ch : Linked(c, cells, DOMAIN NoEntries, KeyOf(NoEntries), Nexts(NoEntries), ch)
    BY <1>4, <1>5
  <2>5. 0 = Cardinality(DOMAIN NoEntries) /\ NoEntries \in [DOMAIN NoEntries -> Entry]
    BY <1>4, <2>1
  <2> QED
    BY <1>2, <1>3, <2>2, <2>3, <2>4, <2>5 DEF Sound
<1>7. Fresh(n) = MapOf(cells, NoEntries, f, c, 0, n)
  BY Zenon DEF Fresh, MapOf
<1> HIDE DEF c, cells, f
<1> QED
  BY <1>4, <1>6, <1>7, SoundMakes, MapFields

(* New arrays, filled with the first i entries of used: they say what these do. *)
FilledWith(es, used, n, i, map) ==
  /\ MapInv(map) /\ map.maxentries = n /\ map.nentries = i
  /\ \A l, w : Binds(map, l, w)
                 <=> \E j \in 1 .. i : es[used[j]].key = l /\ es[used[j]].value = w

(* One more entry is put into the new arrays (resize). *)
LEMMA NextFilled ==
  ASSUME MapAssumption, NEW es, es \in [DOMAIN es -> Entry],
         \A c, d \in DOMAIN es : es[c].key = es[d].key => c = d,
         NEW used, used \in Seq(Nat), IsInjective(used), ToSet(used) = DOMAIN es,
         NEW n \in Nat, NEW i \in Nat, i < Len(used), Len(used) < n,
         NEW map, FilledWith(es, used, n, i, map)
  PROVE  FilledWith(es, used, n, i + 1, Put(map, es[used[i + 1]].key, es[used[i + 1]].value))
<1> DEFINE c == used[i + 1]
           k == es[c].key
           v == es[c].value
           r == Put(map, k, v)
<1>1. /\ Len(used) \in Nat /\ \A j \in 1 .. Len(used) : used[j] \in DOMAIN es
      /\ \A j, l \in 1 .. Len(used) : used[j] = used[l] => j = l
  BY Elements DEF IsInjective
<1>2. i + 1 \in 1 .. Len(used) /\ \A j \in 1 .. i : j \in 1 .. Len(used) /\ j # i + 1
  BY <1>1
<1>3. c \in DOMAIN es /\ \A j \in 1 .. i : used[j] \in DOMAIN es /\ used[j] # c
  BY <1>1, <1>2
<1> HIDE DEF c
<1>4. k \in Key /\ v \in Value
  BY <1>3 DEF Entry
<1>5. \A j \in 1 .. i : es[used[j]].key # k
  BY <1>3
<1> HIDE DEF k, v
<1>6. /\ MapInv(map) /\ map.maxentries = n /\ map.nentries = i
      /\ \A l, w : Binds(map, l, w)
                     <=> \E j \in 1 .. i : es[used[j]].key = l /\ es[used[j]].value = w
  BY Zenon DEF FilledWith
<1>7. Get(map.lfree)[1] # Nil
  <2>1. map.nentries # map.maxentries
    BY <1>1, <1>6
  <2> QED
    BY <1>6, <2>1, RoomLeft
<1>8. \A d \in DOMAIN map.entries : map.entries[d].key # k
  <2>1. SUFFICES ASSUME NEW d \in DOMAIN map.entries, map.entries[d].key = k PROVE FALSE
    OBVIOUS
  <2>2. Binds(map, k, map.entries[d].value)
    BY <2>1 DEF Binds
  <2> QED
    BY <1>5, <1>6, <2>2
<1>9. /\ MapInv(r) /\ r.maxentries = map.maxentries /\ r.nentries = map.nentries + 1
      /\ \A l, w : Binds(r, l, w) <=> IF l = k THEN w = v ELSE Binds(map, l, w)
  BY <1>4, <1>6, <1>7, <1>8, PutKeeps
<1> HIDE DEF r
<1>10. ASSUME NEW l, NEW w
       PROVE  Binds(r, l, w)
                <=> \E j \in 1 .. i + 1 : es[used[j]].key = l /\ es[used[j]].value = w
  <2>1. \A j \in 1 .. i + 1 : j = i + 1 \/ j \in 1 .. i
    OBVIOUS
  <2>2. i + 1 \in 1 .. i + 1 /\ \A j \in 1 .. i : j \in 1 .. i + 1
    OBVIOUS
  <2>3. es[used[i + 1]].key = k /\ es[used[i + 1]].value = v
    BY DEF k, v, c
  <2>4. CASE l = k
    <3>1. Binds(r, l, w) <=> w = v
      BY <1>9, <2>4
    <3>2. (\E j \in 1 .. i + 1 : es[used[j]].key = l /\ es[used[j]].value = w) <=> w = v
      BY <1>5, <2>1, <2>2, <2>3, <2>4
    <3> QED
      BY <3>1, <3>2
  <2>5. CASE l # k
    <3>1. Binds(r, l, w) <=> \E j \in 1 .. i : es[used[j]].key = l /\ es[used[j]].value = w
      BY <1>6, <1>9, <2>5
    <3> QED
      BY <2>1, <2>2, <2>3, <2>5, <3>1
  <2> QED
    BY <2>4, <2>5
<1>11. FilledWith(es, used, n, i + 1, r)
  BY <1>6, <1>9, <1>10 DEF FilledWith
<1> QED
  BY <1>11 DEF r, k, v, c

(* The maps there are, as a set. *)
Maps ==
  [cells : Seq({Nil} \cup Nat), entries : UNION {[D -> Entry] : D \in SUBSET Nat},
   lfree : FreeList, ncells : Nat, nentries : Nat, maxentries : Nat]

(* A map that holds is one of them. *)
LEMMA MapsHold == ASSUME NEW map, MapInv(map) PROVE map \in Maps
<1>1. DOMAIN map.entries \in SUBSET Nat
  BY MapIs
<1>2. map.entries \in [DOMAIN map.entries -> Entry]
  BY SoundIs, Zenon DEF Sound
<1>3. map.entries \in UNION {[D -> Entry] : D \in SUBSET Nat}
  BY <1>1, <1>2, Zenon
<1>4. /\ map.cells \in Seq({Nil} \cup Nat) /\ map.lfree \in FreeList
      /\ map.ncells \in Nat /\ map.nentries \in Nat /\ map.maxentries \in Nat
  BY DEF MapInv, MapTypeOK
<1>5. map = MapOf(map.cells, map.entries, map.lfree, map.ncells, map.nentries, map.maxentries)
  BY MapIsOf, SMTT(60)
<1> DEFINE U == UNION {[D -> Entry] : D \in SUBSET Nat}
<1> HIDE DEF U
<1>6. map \in [cells : Seq({Nil} \cup Nat), entries : U, lfree : FreeList,
               ncells : Nat, nentries : Nat, maxentries : Nat]
  <2>1. map.entries \in U
    BY <1>3 DEF U
  <2>2. \A cs, es, f, n, k, x :
          cs \in Seq({Nil} \cup Nat) /\ es \in U /\ f \in FreeList /\ n \in Nat /\ k \in Nat /\ x \in Nat
            => MapOf(cs, es, f, n, k, x)
                 \in [cells : Seq({Nil} \cup Nat), entries : U, lfree : FreeList,
                      ncells : Nat, nentries : Nat, maxentries : Nat]
    BY DEF MapOf
  <2>3. PICK cs, es, f, n, k, x :
          /\ map = MapOf(cs, es, f, n, k, x)
          /\ cs = map.cells /\ es = map.entries /\ f = map.lfree
          /\ n = map.ncells /\ k = map.nentries /\ x = map.maxentries
    BY <1>5, ZenonT(60)
  <2>4. /\ cs \in Seq({Nil} \cup Nat) /\ es \in U /\ f \in FreeList
        /\ n \in Nat /\ k \in Nat /\ x \in Nat
    BY <1>4, <2>1, <2>3
  <2> QED
    BY <2>2, <2>3, <2>4
<1> QED
  BY <1>6 DEF U, Maps

(* New arrays say what the old ones did. *)
LEMMA RemapKeeps ==
  ASSUME MapAssumption, NEW map, MapInv(map), NEW n \in 1 .. MaxEntries, map.nentries < n
  PROVE  /\ MapInv(Remap(map, n)) /\ Remap(map, n).maxentries = n
         /\ Remap(map, n).nentries = map.nentries
         /\ \A l, w : Binds(Remap(map, n), l, w) <=> Binds(map, l, w)
<1> DEFINE es == map.entries
           used == Chains(map)
           N == Len(used)
           Next1(i, q) == Put(q, es[used[i]].key, es[used[i]].value)
           Is(g) == g = [i \in 0 .. N |-> IF i = 0 THEN Fresh(n) ELSE Next1(i, g[i - 1])]
           Has(i, q) == FilledWith(es, used, n, i, q)
           S == {q \in Maps : MapInv(q)}
           To(i, q) == IF i \in 1 .. N /\ Has(i - 1, q) THEN Next1(i, q) ELSE q
           step == [i \in Nat |-> [q \in S |-> To(i, q)]]
<1>1. /\ used \in Seq(Nat) /\ IsInjective(used) /\ ToSet(used) = DOMAIN es
      /\ N = map.nentries /\ N \in Nat /\ n \in Nat /\ N < n
      /\ \A c \in DOMAIN es : \E j \in 1 .. N : c = used[j]
      /\ \A j \in 1 .. N : used[j] \in DOMAIN es
  <2>1. used \in Seq(Nat) /\ IsInjective(used) /\ ToSet(used) = DOMAIN es /\ N = map.nentries
    BY ChainsTogether
  <2> HIDE DEF used
  <2>2. \A x : x \in ToSet(used) <=> \E i \in 1 .. N : x = used[i]
    BY <2>1, Elements
  <2> QED
    BY <2>1, <2>2, Elements, SMTT(60)
<1>2. /\ es \in [DOMAIN es -> Entry]
      /\ \A c, d \in DOMAIN es : es[c].key = es[d].key => c = d
  <2>1. es \in [DOMAIN es -> Entry]
    BY SoundIs, Zenon DEF Sound
  <2> QED
    BY <2>1 DEF MapInv, ChainsHold
<1> HIDE DEF es, used, N
<1>3. ASSUME NEW i \in 1 .. N, NEW q, Has(i - 1, q) PROVE Has(i, Next1(i, q))
  <2>1. PICK j \in Nat : j = i - 1 /\ i = j + 1 /\ j < N
    BY <1>1
  <2>2. FilledWith(es, used, n, j, q) /\ j < Len(used) /\ Len(used) < n
    BY <1>1, <1>3, <2>1 DEF N
  <2>3. FilledWith(es, used, n, j + 1, Put(q, es[used[j + 1]].key, es[used[j + 1]].value))
    BY <1>1, <1>2, <2>2, NextFilled
  <2> QED
    BY <2>1, <2>3
<1>4. Has(0, Fresh(n))
  <2>1. /\ MapInv(Fresh(n)) /\ Fresh(n).maxentries = n /\ Fresh(n).nentries = 0
        /\ DOMAIN Fresh(n).entries = {}
    BY FreshIs
  <2>2. \A l, w : ~ Binds(Fresh(n), l, w)
    BY <2>1 DEF Binds
  <2> QED
    BY <2>1, <2>2 DEF FilledWith
<1> HIDE DEF Next1
<1>5. \A i, q : Has(i, q) => MapInv(q)
  BY DEF FilledWith
<1> HIDE DEF Has
<1>6. Fresh(n) \in S /\ step \in [Nat -> [S -> S]]
  <2>1. \A q : MapInv(q) => q \in S
    BY MapsHold
  <2>2. ASSUME NEW i \in Nat, NEW q \in S PROVE To(i, q) \in S
    BY <1>3, <1>5, <2>1
  <2>3. Fresh(n) \in S
    BY <1>4, <1>5, <2>1
  <2> HIDE DEF To, S
  <2> QED
    BY <2>2, <2>3
<1>7. PICK f : Iterates(f, S, Fresh(n), step)
  <2> HIDE DEF step, S
  <2> QED
    BY <1>6, Iteration, Zenon
<1>8. f[0] = Fresh(n) /\ \A i \in Nat : f[i + 1] = To(i + 1, f[i])
  <2>1. \A i \in Nat : f[i] \in S /\ i + 1 \in Nat
    BY <1>7 DEF Iterates
  <2>2. \A i \in Nat, q \in S : step[i][q] = To(i, q)
    OBVIOUS
  <2> HIDE DEF step, S, To
  <2> QED
    BY <1>7, <2>1, <2>2, Zenon DEF Iterates
<1> DEFINE T == {i \in Nat : i <= N => Has(i, f[i])}
<1>9. \A i \in Nat : i \in T
  <2>1. 0 \in T
    BY <1>4, <1>8
  <2>2. ASSUME NEW i \in Nat, i \in T PROVE i + 1 \in T
    <3>1. SUFFICES ASSUME i + 1 <= N PROVE Has(i + 1, f[i + 1])
      OBVIOUS
    <3>2. i + 1 \in 1 .. N /\ (i + 1) - 1 = i /\ Has(i, f[i])
      BY <1>1, <2>2, <3>1
    <3>3. f[i + 1] = Next1(i + 1, f[i])
      BY <1>8, <3>2
    <3> QED
      BY <1>3, <3>2, <3>3
  <2> HIDE DEF T
  <2> QED
    BY <2>1, <2>2, Induction
<1> DEFINE g == [i \in 0 .. N |-> f[i]]
<1>10. Is(g)
  <2>1. ASSUME NEW i \in 0 .. N
        PROVE  f[i] = IF i = 0 THEN Fresh(n) ELSE Next1(i, g[i - 1])
    <3>1. CASE i = 0
      BY <1>8, <3>1
    <3>2. CASE i # 0
      <4>1. i - 1 \in Nat /\ (i - 1) + 1 = i /\ i \in 1 .. N /\ i - 1 \in 0 .. N
        BY <1>1, <3>2
      <4>2. f[i] = To(i, f[i - 1]) /\ g[i - 1] = f[i - 1]
        BY <1>8, <4>1
      <4>3. Has(i - 1, f[i - 1])
        BY <1>1, <1>9, <4>1
      <4> QED
        BY <3>2, <4>1, <4>2, <4>3
    <3> QED
      BY <3>1, <3>2
  <2> QED
    BY <2>1
<1> DEFINE filled == CHOOSE h : Is(h)
<1>11. Remap(map, n) = filled[N]
  BY DEF Remap, es, used, N, Next1
<1>12. Is(filled)
  <2> HIDE DEF Is, g
  <2> QED
    BY <1>10, Zenon
<1> HIDE DEF filled
<1> DEFINE V == {i \in Nat : i <= N => Has(i, filled[i])}
<1>13. \A i \in Nat : i \in V
  <2>1. 0 \in V
    <3>1. filled[0] = Fresh(n)
      BY <1>1, <1>12
    <3> QED
      BY <1>4, <3>1
  <2>2. ASSUME NEW i \in Nat, i \in V PROVE i + 1 \in V
    <3>1. SUFFICES ASSUME i + 1 <= N PROVE Has(i + 1, filled[i + 1])
      OBVIOUS
    <3>2. i + 1 \in 1 .. N /\ i + 1 \in 0 .. N /\ (i + 1) - 1 = i /\ Has(i, filled[i]) /\ i + 1 # 0
      BY <1>1, <2>2, <3>1
    <3>3. filled[i + 1] = Next1(i + 1, filled[i])
      BY <1>12, <3>2
    <3> QED
      BY <1>3, <3>2, <3>3
  <2> HIDE DEF V
  <2> QED
    BY <2>1, <2>2, Induction
<1>14. Has(N, Remap(map, n))
  BY <1>1, <1>11, <1>13
<1> DEFINE r == Remap(map, n)
<1>15. /\ MapInv(r) /\ r.maxentries = n /\ r.nentries = N
       /\ \A l, w : Binds(r, l, w)
                      <=> \E j \in 1 .. N : es[used[j]].key = l /\ es[used[j]].value = w
  BY <1>14, Zenon DEF Has, FilledWith
<1> HIDE DEF r
<1>16. \A l, w : Binds(r, l, w) <=> Binds(map, l, w)
  <2>1. \A l, w : Binds(map, l, w) <=> \E c \in DOMAIN es : es[c].key = l /\ es[c].value = w
    BY DEF Binds, es
  <2> SUFFICES ASSUME NEW l, NEW w PROVE Binds(r, l, w) <=> Binds(map, l, w)
    OBVIOUS
  <2> DEFINE here == \E j \in 1 .. N : es[used[j]].key = l /\ es[used[j]].value = w
             there == \E c \in DOMAIN es : es[c].key = l /\ es[c].value = w
  <2>2. here <=> there
    BY <1>1
  <2>3. Binds(r, l, w) <=> here
    BY <1>15
  <2>4. Binds(map, l, w) <=> there
    BY <2>1
  <2> HIDE DEF here, there
  <2> QED
    BY <2>2, <2>3, <2>4
<1> QED
  BY <1>1, <1>15, <1>16 DEF r

(* When every entry is used, resize makes places for more. *)
LEMMA ResizeKeeps ==
  ASSUME MapAssumption, NEW map, MapInv(map), Get(map.lfree)[1] = Nil,
         NextEntries(map) <= MaxEntries
  PROVE  /\ MapInv(Resize(map)) /\ Get(Resize(map).lfree)[1] # Nil
         /\ \A l, w : Binds(Resize(map), l, w) <=> Binds(map, l, w)
<1> DEFINE n == NextEntries(map)
           r == Resize(map)
<1>1. /\ n \in Nat \ {0} /\ n > map.maxentries /\ map.nentries = map.maxentries
      /\ map.maxentries \in Nat /\ MaxEntries \in Nat
  BY GrownBy, NoneLeft, MapIs DEF MapAssumption
<1>2. n \in 1 .. MaxEntries /\ n \in 0 .. MaxEntries
  BY <1>1
<1>3. NextCells(n) \in Nat \ {0}
  <2> HIDE DEF n
  <2> QED
    BY <1>2, CellsFor
<1>4. \/ /\ r = Expand(map, n) /\ map.ncells = NextCells(n)
         /\ n < Limit \/ map.maxentries >= Limit
      \/ r = Remap(map, n)
  BY DEF Resize
<1> HIDE DEF n, r
<1>5. /\ MapInv(r) /\ r.maxentries = n /\ r.nentries = map.nentries
      /\ \A l, w : Binds(r, l, w) <=> Binds(map, l, w)
  <2>1. CASE /\ r = Expand(map, n) /\ map.ncells = NextCells(n)
             /\ n < Limit \/ map.maxentries >= Limit
    <3>1. map.ncells # 0 /\ n \in Nat /\ n > map.maxentries
      BY <1>1, <1>3, <2>1
    <3>2. map.maxentries < Limit <=> n < Limit
      BY <1>1, <2>1 DEF MapAssumption
    <3> QED
      BY <2>1, <3>1, <3>2, ExpandKeeps
  <2>2. CASE r = Remap(map, n)
    <3>1. map.nentries < n
      BY <1>1
    <3> QED
      BY <1>2, <2>2, <3>1, RemapKeeps
  <2> QED
    BY <1>4, <2>1, <2>2
<1>6. Get(r.lfree)[1] # Nil
  <2>1. r.nentries # r.maxentries
    BY <1>1, <1>5
  <2> QED
    BY <1>5, <2>1, RoomLeft
<1> QED
  BY <1>5, <1>6 DEF r

(* Where entry c is: its cell, its chain, and its place there. *)
Home(map, c) == Cell(map, map.entries[c].key)
Peers(map, c) == Chain(map, Home(map, c))
PlaceOf(map, c) == CHOOSE j \in DOMAIN Peers(map, c) : Peers(map, c)[j] = c

(* The entry before c in its chain, or its cell, leads past c. *)
Before(map, c) == IF PlaceOf(map, c) = 1 THEN Nil ELSE Peers(map, c)[PlaceOf(map, c) - 1]

CellsPast(map, c) ==
  IF Before(map, c) = Nil
  THEN [map.cells EXCEPT ![Home(map, c)] = map.entries[c].next]
  ELSE map.cells

EntriesPast(map, c) ==
  IF Before(map, c) = Nil
  THEN map.entries
  ELSE [map.entries EXCEPT ![Before(map, c)].next = map.entries[c].next]

(* Entry c has one place, in the chain of its key's cell. *)
LEMMA PlaceIs ==
  ASSUME MapAssumption, NEW map, MapInv(map), NEW c, c \in DOMAIN map.entries
  PROVE  LET chain == Peers(map, c)
             at == PlaceOf(map, c)
         IN /\ Home(map, c) \in 1 .. map.ncells
            /\ at \in 1 .. Len(chain) /\ chain[at] = c
            /\ at # 1 => at - 1 \in 1 .. Len(chain)
            /\ \A j \in 1 .. Len(chain) : chain[j] \in DOMAIN map.entries /\ chain[j] # Nil
            /\ \A j \in 1 .. Len(chain) : chain[j] = c => j = at
<1> DEFINE k == map.entries[c].key
           i == Home(map, c)
           chain == Peers(map, c)
           at == PlaceOf(map, c)
<1>1. k \in Nat /\ map.maxentries # 0
  <2>1. /\ map.entries[c] \in [key : Key, value : Value, next : {Nil} \cup Nat]
        /\ c \in 0 .. map.maxentries - 1 /\ map.maxentries \in Nat
    BY MapIs
  <2>2. Key \subseteq Nat
    BY Zenon DEF MapAssumption
  <2>3. k \in Nat
    BY <2>1, <2>2
  <2>4. map.maxentries # 0
    BY <2>1
  <2> QED
    BY <2>3, <2>4
<1>2. /\ i \in 1 .. map.ncells
      /\ Chained(map.cells[i], Nexts(map.entries), chain)
      /\ \A x : x \in ToSet(chain)
                  <=> x \in DOMAIN map.entries /\ Cell(map, map.entries[x].key) = i
  <2>1. i = Cell(map, k) /\ chain = Chain(map, Cell(map, k))
    BY Zenon DEF Home, Peers
  <2> HIDE DEF k, i, chain
  <2> QED
    BY <1>1, <2>1, CellIs
<1>4. c \in ToSet(chain)
  <2>1. Cell(map, map.entries[c].key) = i
    BY Zenon DEF Home
  <2> HIDE DEF i
  <2> QED
    BY <1>2, <2>1
<1> HIDE DEF i, chain
<1>5. /\ Len(chain) \in Nat /\ DOMAIN chain = 1 .. Len(chain)
      /\ \A x : x \in ToSet(chain) <=> \E j \in 1 .. Len(chain) : x = chain[j]
      /\ \A j, l \in 1 .. Len(chain) : chain[j] = chain[l] => j = l
  BY <1>2, ChainedIs, Elements
<1>6. at \in 1 .. Len(chain) /\ chain[at] = c
  BY <1>4, <1>5 DEF PlaceOf, chain
<1> HIDE DEF at
<1>7. ASSUME NEW j \in 1 .. Len(chain) PROVE chain[j] \in DOMAIN map.entries /\ chain[j] # Nil
  <2>1. chain[j] \in DOMAIN map.entries
    BY <1>2, <1>5
  <2>2. chain[j] \in Nat
    BY <2>1, MapIs
  <2> QED
    BY <2>1, <2>2 DEF Nil
<1>8. at # 1 => at - 1 \in 1 .. Len(chain)
  BY <1>5, <1>6
<1>9. \A j \in 1 .. Len(chain) : chain[j] = c => j = at
  BY <1>5, <1>6
<1> QED
  BY <1>2, <1>6, <1>7, <1>8, <1>9 DEF i, chain, at

(* The map without c in its chain, field by field. *)
LEMMA UnlinkedIs ==
  ASSUME MapAssumption, NEW map, MapInv(map), NEW c, c \in DOMAIN map.entries
  PROVE  Unlinked(map, c)
           = MapOf(CellsPast(map, c), EntriesPast(map, c), map.lfree, map.ncells,
                   map.nentries, map.maxentries)
<1> DEFINE i == Home(map, c)
           chain == Peers(map, c)
           at == PlaceOf(map, c)
           next == map.entries[c].next
           cells1 == [map.cells EXCEPT ![i] = next]
           es1 == [map.entries EXCEPT ![chain[at - 1]].next = next]
<1>1. /\ Before(map, c) = IF at = 1 THEN Nil ELSE chain[at - 1]
      /\ at # 1 => chain[at - 1] # Nil
  <2>1. Before(map, c) = IF at = 1 THEN Nil ELSE chain[at - 1]
    BY Zenon DEF Before
  <2>2. /\ at # 1 => at - 1 \in 1 .. Len(chain)
        /\ \A j \in 1 .. Len(chain) : chain[j] # Nil
    BY PlaceIs
  <2> HIDE DEF at, chain
  <2> QED
    BY <2>1, <2>2
<1>2. PICK cells, entries, f, n, count, max :
        /\ map = MapOf(cells, entries, f, n, count, max)
        /\ map.cells = cells /\ map.nentries = count /\ map.entries = entries
        /\ map.ncells = n /\ map.maxentries = max /\ map.lfree = f
  BY MapIsOf, Zenon
<1>3. CASE at = 1
  <2>1. Unlinked(map, c) = WithCells(map, cells1)
    BY <1>3, Zenon DEF Unlinked, WithCells, Home, Peers, PlaceOf
  <2>2. CellsPast(map, c) = cells1 /\ EntriesPast(map, c) = map.entries
    BY <1>1, <1>3, Zenon DEF CellsPast, EntriesPast
  <2> HIDE DEF cells1
  <2>3. WithCells(map, cells1) = MapOf(cells1, entries, f, n, count, max)
    BY <1>2, FieldSet
  <2> QED
    BY <1>2, <2>1, <2>2, <2>3, Zenon
<1>4. CASE at # 1
  <2>1. Unlinked(map, c) = WithEntries(map, es1)
    BY <1>4, Zenon DEF Unlinked, WithEntries, Home, Peers, PlaceOf
  <2>2. CellsPast(map, c) = map.cells /\ EntriesPast(map, c) = es1
    BY <1>1, <1>4, Zenon DEF CellsPast, EntriesPast
  <2> HIDE DEF es1
  <2>3. WithEntries(map, es1) = MapOf(cells, es1, f, n, count, max)
    BY <1>2, FieldSet
  <2> QED
    BY <1>2, <2>1, <2>2, <2>3, Zenon
<1> QED
  BY <1>3, <1>4

(* One less. *)
LEMMA OneLess ==
  ASSUME NEW max \in Nat, NEW E, E \subseteq 0 .. max - 1, NEW c, c \in E
  PROVE  Cardinality(E \ {c}) = Cardinality(E) - 1 /\ Cardinality(E) - 1 \in Nat
<1>1. IsFiniteSet(0 .. max - 1)
  BY FS_Interval
<1>2. IsFiniteSet(E)
  BY <1>1, FS_Subset
<1>3. Cardinality(E \ {c}) = Cardinality(E) - 1
  BY <1>2, FS_RemoveElement
<1>4. IsFiniteSet(E \ {c})
  BY <1>2, FS_Subset
<1>5. Cardinality(E \ {c}) \in Nat
  BY <1>4, FS_CardinalityType
<1> QED
  BY <1>3, <1>5

(* The entry is free. *)
Without(entries, c) == [d \in DOMAIN entries \ {c} |-> entries[d]]

EntryTakenFrom(map, c) ==
  LET u == Unlinked(map, c)
      map1 == WithFree(u, AddRange(u.lfree, c, 1))
      map2 == WithCount(map1, map1.nentries - 1)
  IN WithEntries(map2, Without(map2.entries, c))

(* The map without entry c, field by field. *)
LEMMA TakenInFields ==
  ASSUME MapAssumption, NEW map, MapInv(map), NEW c, c \in DOMAIN map.entries
  PROVE  EntryTakenFrom(map, c)
           = MapOf(CellsPast(map, c), Without(EntriesPast(map, c), c), AddRange(map.lfree, c, 1),
                   map.ncells, map.nentries - 1, map.maxentries)
<1>1. PICK cells, entries, f, n, count, max, free :
        /\ Unlinked(map, c) = MapOf(cells, entries, f, n, count, max)
        /\ cells = CellsPast(map, c) /\ entries = EntriesPast(map, c)
        /\ f = map.lfree /\ n = map.ncells /\ count = map.nentries /\ max = map.maxentries
        /\ free = AddRange(map.lfree, c, 1)
  BY UnlinkedIs, Zenon
<1> DEFINE u == Unlinked(map, c)
           map1 == WithFree(u, AddRange(u.lfree, c, 1))
           map2 == WithCount(map1, map1.nentries - 1)
           map3 == WithEntries(map2, Without(map2.entries, c))
<1>2. EntryTakenFrom(map, c) = map3
  BY Zenon DEF EntryTakenFrom
<1>3. u = MapOf(cells, entries, f, n, count, max) /\ u.lfree = f
  <2>1. u = MapOf(cells, entries, f, n, count, max)
    BY <1>1
  <2> HIDE DEF u
  <2> QED
    BY <2>1, MapFields
<1> HIDE DEF u
<1>4. map1 = MapOf(cells, entries, free, n, count, max)
  <2>1. AddRange(u.lfree, c, 1) = free
    BY <1>1, <1>3, Zenon
  <2>2. map1 = WithFree(u, free)
    BY <2>1, Zenon
  <2> HIDE DEF map1
  <2> QED
    BY <1>3, <2>2, FieldSet
<1>5. map1.nentries = count
  <2> HIDE DEF map1
  <2> QED
    BY <1>4, MapFields
<1> HIDE DEF map1
<1>6. map2 = MapOf(cells, entries, free, n, count - 1, max)
  BY <1>4, <1>5, FieldSet
<1> HIDE DEF map2
<1>7. map2.entries = entries
  BY <1>6, MapFields
<1>8. map3 = MapOf(cells, Without(entries, c), free, n, count - 1, max)
  BY <1>6, <1>7, FieldSet
<1> HIDE DEF map3
<1> QED
  BY <1>1, <1>2, <1>8, Zenon

(* The fields lead past c, and the other entries are as before. *)
LEMMA PastIs ==
  ASSUME MapAssumption, NEW map, MapInv(map), NEW c, c \in DOMAIN map.entries,
         NEW chains, chains = [i \in 1 .. map.ncells |-> Chain(map, i)]
  PROVE  /\ CellsPast(map, c) \in Seq({Nil} \cup Nat) /\ Len(CellsPast(map, c)) = map.ncells
         /\ EntriesPast(map, c) \in [DOMAIN map.entries -> Entry]
         /\ \A x \in DOMAIN map.entries : /\ EntriesPast(map, c)[x].key = map.entries[x].key
                                          /\ EntriesPast(map, c)[x].value = map.entries[x].value
         /\ Cuts(map.ncells, Home(map, c), PlaceOf(map, c), c, DOMAIN map.entries,
                 KeyOf(map.entries), map.cells, Nexts(map.entries), chains,
                 CellsPast(map, c), KeyOf(Without(EntriesPast(map, c), c)),
                 Nexts(Without(EntriesPast(map, c), c)))
<1> DEFINE es == map.entries
           E == DOMAIN map.entries
           n == map.ncells
           i == Home(map, c)
           p == PlaceOf(map, c)
           s == Peers(map, c)
           b == Before(map, c)
           next == es[c].next
           cells1 == CellsPast(map, c)
           es1 == EntriesPast(map, c)
           es2 == Without(es1, c)
<1>1. /\ n \in Nat /\ map.cells \in Seq({Nil} \cup Nat) /\ Len(map.cells) = n
      /\ es \in [E -> Entry] /\ E \subseteq Nat
  <2>1. es \in [E -> Entry]
    BY SoundIs, Zenon DEF Sound
  <2> QED
    BY <2>1, MapIs
<1>2. /\ i \in 1 .. n /\ p \in 1 .. Len(s) /\ s[p] = c
      /\ p # 1 => p - 1 \in 1 .. Len(s)
      /\ \A j \in 1 .. Len(s) : s[j] \in E /\ s[j] # Nil
      /\ \A j \in 1 .. Len(s) : s[j] = c => j = p
  BY PlaceIs
<1>3. chains[i] = s
  <2>1. s = Chain(map, i)
    BY Zenon DEF Peers
  <2> HIDE DEF s, i
  <2> QED
    BY <1>2, <2>1
<1>4. /\ p = 1 => b = Nil
      /\ p # 1 => b = s[p - 1] /\ b \in E /\ b # Nil /\ b # c
  <2>1. b = IF p = 1 THEN Nil ELSE s[p - 1]
    BY Zenon DEF Before
  <2> HIDE DEF b, p, s
  <2>2. p # 1 => p - 1 # p
    BY <1>2
  <2> QED
    BY <1>2, <2>1, <2>2
<1>5. next \in {Nil} \cup Nat
  BY <1>1 DEF Entry
<1>6. /\ cells1 = IF b = Nil THEN [map.cells EXCEPT ![i] = next] ELSE map.cells
      /\ es1 = IF b = Nil THEN es ELSE [es EXCEPT ![b].next = next]
  BY Zenon DEF CellsPast, EntriesPast
<1> HIDE DEF n, i, p, s, b, cells1, es1
<1>7. /\ cells1 \in Seq({Nil} \cup Nat) /\ Len(cells1) = n
      /\ \A j \in 1 .. n : cells1[j] = IF j = i /\ p = 1 THEN next ELSE map.cells[j]
  <2>1. CASE p = 1
    <3> HIDE DEF next
    <3>1. cells1 = [map.cells EXCEPT ![i] = next]
      BY <1>4, <1>6, <2>1
    <3>2. map.cells \in [1 .. n -> {Nil} \cup Nat] /\ DOMAIN map.cells = 1 .. n
      BY <1>1, LenProperties, Elements
    <3> QED
      BY <1>1, <1>2, <1>5, <2>1, <3>1, <3>2, ExceptSeq
  <2>2. CASE p # 1
    BY <1>1, <1>4, <1>6, <2>2
  <2> QED
    BY <2>1, <2>2
<1>8. /\ es1 \in [E -> Entry]
      /\ \A x \in E : /\ es1[x].key = es[x].key /\ es1[x].value = es[x].value
                      /\ es1[x].next = IF p # 1 /\ x = b THEN next ELSE es[x].next
  <2>1. CASE p = 1
    BY <1>1, <1>4, <1>6, <2>1
  <2>2. CASE p # 1
    <3>1. es1 = [es EXCEPT ![b].next = next] /\ b \in E
      BY <1>4, <1>6, <2>2
    <3>2. PICK y : y = next /\ y \in {Nil} \cup Nat
      BY <1>5
    <3> DEFINE new == [es[b] EXCEPT !.next = y]
    <3>3. es1 = [es EXCEPT ![b] = new]
      BY <3>1, <3>2
    <3>4. new \in Entry /\ new.key = es[b].key /\ new.value = es[b].value /\ new.next = y
      BY <1>1, <3>1, <3>2 DEF Entry
    <3> HIDE DEF new
    <3>5. es1 \in [E -> Entry] /\ es1[b] = new /\ \A x \in E : x # b => es1[x] = es[x]
      BY <1>1, <3>1, <3>3, <3>4
    <3> QED
      BY <2>2, <3>2, <3>4, <3>5
  <2> QED
    BY <2>1, <2>2
<1>9. /\ DOMAIN es2 = E \ {c} /\ \A x \in E \ {c} : es2[x] = es1[x]
  BY <1>8 DEF Without
<1> HIDE DEF es2
<1>10. ASSUME NEW x \in E \ {c}
       PROVE  /\ KeyOf(es2)[x] = KeyOf(es)[x]
              /\ Nexts(es2)[x] = IF p # 1 /\ x = chains[i][p - 1] THEN Nexts(es)[c] ELSE Nexts(es)[x]
  <2>1. x # Nil /\ c # Nil
    BY <1>1 DEF Nil
  <2>2. /\ KeyOf(es)[x] = es[x].key /\ Nexts(es)[x] = es[x].next /\ Nexts(es)[c] = next
        /\ KeyOf(es2)[x] = es2[x].key /\ Nexts(es2)[x] = es2[x].next
    BY <1>9, <2>1 DEF KeyOf, Nexts
  <2>3. p # 1 => chains[i][p - 1] = b
    BY <1>3, <1>4
  <2> QED
    BY <1>8, <1>9, <2>2, <2>3
<1>11. Nexts(es)[c] = next
  <2>1. c # Nil
    BY <1>1 DEF Nil
  <2> QED
    BY <2>1 DEF Nexts
<1>12. p \in 1 .. Len(chains[i]) /\ chains[i][p] = c
  BY <1>2, <1>3
<1>13. Cuts(n, i, p, c, E, KeyOf(es), map.cells, Nexts(es), chains, cells1, KeyOf(es2), Nexts(es2))
  <2>1. \A j \in 1 .. n : cells1[j] = IF j = i /\ p = 1 THEN Nexts(es)[c] ELSE map.cells[j]
    BY <1>7, <1>11
  <2> HIDE DEF es, E
  <2> QED
    BY <1>2, <1>10, <1>12, <2>1, Zenon DEF Cuts
<1> QED
  BY <1>7, <1>8, <1>13, Zenon DEF n, i, p, cells1, es1, es2
(* What remove does to a map: the entry of one key goes, and it is free. *)
LEMMA EntryTaken ==
  ASSUME MapAssumption, NEW map, MapInv(map), NEW c, c \in DOMAIN map.entries
  PROVE  LET r == EntryTakenFrom(map, c) IN
         /\ MapInv(r)
         /\ \A l, w : Binds(r, l, w) <=> l # map.entries[c].key /\ Binds(map, l, w)
<1> DEFINE es == map.entries
           E == DOMAIN map.entries
           n == map.ncells
           max == map.maxentries
           cells1 == CellsPast(map, c)
           es1 == EntriesPast(map, c)
           es2 == Without(es1, c)
           g == AddRange(map.lfree, c, 1)
           r == EntryTakenFrom(map, c)
           r1 == MapOf(cells1, es2, g, n, map.nentries - 1, max)
<1>1. PICK chains : chains = [i \in 1 .. map.ncells |-> Chain(map, i)]
  OBVIOUS
<1>2. /\ n \in Nat /\ max \in Nat /\ (max > 0 <=> n > 0)
      /\ E \subseteq 0 .. max - 1 /\ es \in [E -> Entry]
      /\ map.nentries = Cardinality(E)
      /\ Ranges(map.lfree) /\ Free(map.lfree) = (0 .. max - 1) \ E
  BY SoundIs, Zenon DEF Sound
<1>3. Linked(n, map.cells, E, KeyOf(es), Nexts(es), chains)
  <2>1. ChainsHold(map)
    BY DEF MapInv
  <2> QED
    BY <1>1, <2>1, ChainsOf, Zenon DEF HasChains
<1>4. r = r1
  BY TakenInFields, Zenon
<1>5. /\ cells1 \in Seq({Nil} \cup Nat) /\ Len(cells1) = n
      /\ es1 \in [E -> Entry]
      /\ \A x \in E : es1[x].key = es[x].key /\ es1[x].value = es[x].value
      /\ Cuts(n, Home(map, c), PlaceOf(map, c), c, E, KeyOf(es), map.cells, Nexts(es), chains,
              cells1, KeyOf(es2), Nexts(es2))
  BY <1>1, PastIs, Zenon
<1> HIDE DEF cells1, es1, r, n, max
<1>6. /\ DOMAIN es2 = E \ {c} /\ es2 \in [E \ {c} -> Entry]
      /\ \A x \in E \ {c} : es2[x].key = es[x].key /\ es2[x].value = es[x].value
  BY <1>5 DEF Without
<1> HIDE DEF es2
<1>7. \E chains1 : Linked(n, cells1, E \ {c}, KeyOf(es2), Nexts(es2), chains1)
  <2> HIDE DEF es, E
  <2> QED
    BY <1>3, <1>5, LinkedCut
<1>8. Ranges(g) /\ Free(g) = (0 .. max - 1) \ (E \ {c})
  <2> PICK f : f = map.lfree
    OBVIOUS
  <2>1. PICK pos \in Nat, count \in Nat \ {0} :
          pos = c /\ count = 1 /\ f = map.lfree /\ Free(f) = (0 .. max - 1) \ E /\ Ranges(f)
    BY <1>2
  <2>2. pos .. pos + count - 1 = {c} /\ c \in 0 .. max - 1
    BY <1>2, <2>1
  <2>3. Free(f) \cap (pos .. pos + count - 1) = {}
    BY <2>1, <2>2
  <2>4. /\ Ranges(AddRange(f, pos, count))
        /\ Free(AddRange(f, pos, count)) = Free(f) \cup (pos .. pos + count - 1)
    BY <2>1, <2>3, AddRangeKeeps
  <2>5. g = AddRange(f, pos, count)
    BY <2>1, Zenon
  <2> HIDE DEF g
  <2> QED
    BY <2>1, <2>2, <2>4, <2>5
<1> HIDE DEF g
<1>9. MapInv(r1)
  <2>1. map.nentries - 1 = Cardinality(E \ {c}) /\ map.nentries - 1 \in Nat
    <3> HIDE DEF E
    <3> QED
      BY <1>2, OneLess
  <2>2. DOMAIN es2 \subseteq 0 .. max - 1 /\ Free(g) = (0 .. max - 1) \ DOMAIN es2
    BY <1>2, <1>6, <1>8
  <2>3. Sound(cells1, es2, g, n, map.nentries - 1, max)
    <3> HIDE DEF E
    <3> QED
      BY <1>2, <1>5, <1>6, <1>7, <1>8, <2>1, <2>2, Zenon DEF Sound
  <2> QED
    BY <2>3, SoundMakes
<1>10. r1.entries = es2
  BY MapFields
<1> HIDE DEF r1
<1>11. ASSUME NEW l, NEW w
       PROVE  Binds(r1, l, w) <=> l # es[c].key /\ Binds(map, l, w)
  <2>1. Binds(r1, l, w) <=> \E x \in E \ {c} : es2[x].key = l /\ es2[x].value = w
    BY <1>6, <1>10 DEF Binds
  <2>2. Binds(map, l, w) <=> \E x \in E : es[x].key = l /\ es[x].value = w
    BY DEF Binds
  <2>3. \A x \in E : es[x].key = es[c].key => x = c
    BY DEF MapInv, ChainsHold
  <2> QED
    BY <1>6, <2>1, <2>2, <2>3
<1> QED
  BY <1>4, <1>9, <1>11 DEF r

(* The map that every map starts as, and is after a clear. *)
LEMMA EmptyHolds ==
  /\ MapInv(EmptyMap)
  /\ \A l, w : ~ Binds(EmptyMap, l, w)
<1>1. Ranges(EmptyList) /\ Free(EmptyList) = {}
  <2>1. EmptyList \in FreeList /\ ~ EmptyList.listed
    BY EmptySeq DEF EmptyList, FreeList
  <2>2. EmptyList.head = 0 /\ EmptyList.nbuckets = 0
    BY DEF EmptyList
  <2>3. Ranges(EmptyList)
    BY <2>1 DEF Ranges
  <2>4. Free(EmptyList) = EmptyList.head .. EmptyList.head + EmptyList.nbuckets - 1
    BY <2>1 DEF Free
  <2> QED
    BY <2>2, <2>3, <2>4
<1>2. PICK zero \in Nat : zero = 0
  OBVIOUS
<1>3. DOMAIN NoEntries = {} /\ NoEntries \in [DOMAIN NoEntries -> Entry]
  BY DEF NoEntries
<1>4. EmptyMap = MapOf(<<>>, NoEntries, EmptyList, zero, zero, zero)
  BY <1>2 DEF EmptyMap, MapOf
<1>5. Linked(zero, <<>>, DOMAIN NoEntries, KeyOf(NoEntries), Nexts(NoEntries), <<>>)
  BY <1>2, <1>3 DEF Linked
<1>6. Sound(<<>>, NoEntries, EmptyList, zero, zero, zero)
  <2>1. <<>> \in Seq({Nil} \cup Nat) /\ Len(<<>>) = zero
    BY <1>2, EmptySeq
  <2>2. Cardinality(DOMAIN NoEntries) = zero
    BY <1>2, <1>3, FS_EmptySet
  <2>3. /\ DOMAIN NoEntries \subseteq 0 .. zero - 1 /\ (zero > 0 <=> zero > 0)
        /\ Free(EmptyList) = (0 .. zero - 1) \ DOMAIN NoEntries
    BY <1>1, <1>2, <1>3
  <2> QED
    BY <1>1, <1>3, <1>5, <2>1, <2>2, <2>3, Zenon DEF Sound
<1>7. MapInv(EmptyMap)
  BY <1>4, <1>6, SoundMakes
<1>8. EmptyMap.entries = NoEntries
  BY <1>4, MapFields
<1> QED
  BY <1>3, <1>7, <1>8 DEF Binds
(* What the constants have to be for the keys to be found. *)
LEMMA KeysAreNat == ASSUME MapAssumption PROVE Key \subseteq Nat
  BY Zenon DEF MapAssumption

(* A map binds a key to what is found for it. *)
LEMMA FoundIsBound ==
  ASSUME MapAssumption, NEW map, MapInv(map), NEW k, k \in Key
  PROVE  /\ \A w : Binds(map, k, w) <=> Find(map, k) # Nil /\ map.entries[Find(map, k)].value = w
         /\ Find(map, k) # Nil => map.entries[Find(map, k)].value \in Value
<1>1. k \in Nat
  BY KeysAreNat
<1>2. PICK c : c = Find(map, k)
  OBVIOUS
<1>3. \/ c \in DOMAIN map.entries /\ map.entries[c].key = k /\ c \in Nat
      \/ c = Nil /\ \A d \in DOMAIN map.entries : map.entries[d].key # k
  BY <1>1, <1>2, FindIs
<1>4. \A d, e \in DOMAIN map.entries : map.entries[d].key = map.entries[e].key => d = e
  BY DEF MapInv, ChainsHold
<1>5. CASE c \in DOMAIN map.entries /\ map.entries[c].key = k /\ c \in Nat
  <2>1. c # Nil
    BY <1>5 DEF Nil
  <2>2. map.entries[c] \in [key : Key, value : Value, next : {Nil} \cup Nat]
    BY <1>5, MapIs
  <2>3. map.entries[c].value \in Value
    BY <2>2
  <2>4. \A w : Binds(map, k, w) <=> map.entries[c].value = w
    BY <1>4, <1>5 DEF Binds
  <2> QED
    BY <1>2, <2>1, <2>3, <2>4
<1>6. CASE c = Nil /\ \A d \in DOMAIN map.entries : map.entries[d].key # k
  <2>1. \A w : ~ Binds(map, k, w)
    BY <1>6 DEF Binds
  <2> QED
    BY <1>2, <1>6, <2>1
<1> QED
  BY <1>3, <1>5, <1>6

(* The function that a map is. *)
ContentsOf(map) ==
  [k \in {l \in Key : Find(map, l) # Nil} |-> map.entries[Find(map, k)].value]

(* The function has the pairs that the map binds. *)
LEMMA ContentsAre ==
  ASSUME MapAssumption, NEW map, MapInv(map)
  PROVE  /\ ContentsOf(map) = [k \in DOMAIN ContentsOf(map) |-> ContentsOf(map)[k]]
         /\ DOMAIN ContentsOf(map) \subseteq Key
         /\ \A k \in DOMAIN ContentsOf(map) : ContentsOf(map)[k] \in Value
         /\ \A k, w : Binds(map, k, w) => k \in Key
         /\ \A k, w : Binds(map, k, w) <=> k \in DOMAIN ContentsOf(map) /\ ContentsOf(map)[k] = w
<1> DEFINE f == ContentsOf(map)
<1>1. f = [k \in DOMAIN f |-> f[k]] /\ DOMAIN f = {l \in Key : Find(map, l) # Nil}
  BY DEF ContentsOf
<1>2. \A k \in DOMAIN f : f[k] = map.entries[Find(map, k)].value
  BY DEF ContentsOf
<1> HIDE DEF f
<1>3. ASSUME NEW k, NEW w, Binds(map, k, w) PROVE k \in Key
  <2>1. PICK c \in DOMAIN map.entries : map.entries[c].key = k
    BY <1>3 DEF Binds
  <2>2. map.entries[c] \in [key : Key, value : Value, next : {Nil} \cup Nat]
    BY MapIs
  <2> QED
    BY <2>1, <2>2
<1>4. ASSUME NEW k \in Key
      PROVE  /\ \A w : Binds(map, k, w) <=> k \in DOMAIN f /\ f[k] = w
             /\ k \in DOMAIN f => f[k] \in Value
  <2>1. PICK c : c = Find(map, k)
    OBVIOUS
  <2>2. /\ \A w : Binds(map, k, w) <=> c # Nil /\ map.entries[c].value = w
        /\ c # Nil => map.entries[c].value \in Value
    BY <2>1, FoundIsBound
  <2>3. /\ k \in DOMAIN f <=> c # Nil
        /\ k \in DOMAIN f => f[k] = map.entries[c].value
    BY <1>1, <1>2, <2>1
  <2> QED
    BY <2>2, <2>3
<1>5. \A k, w : Binds(map, k, w) <=> k \in DOMAIN f /\ f[k] = w
  BY <1>1, <1>3, <1>4
<1>6. /\ DOMAIN f \subseteq Key /\ \A k \in DOMAIN f : f[k] \in Value
      /\ \A k, w : Binds(map, k, w) => k \in Key
  BY <1>1, <1>3, <1>4
<1> QED
  BY <1>1, <1>5, <1>6 DEF f

(* Two functions of which the pairs are the same are the same. *)
LEMMA SamePairs ==
  ASSUME NEW f, f = [x \in DOMAIN f |-> f[x]], NEW g, g = [x \in DOMAIN g |-> g[x]],
         \A x, y : x \in DOMAIN f /\ f[x] = y <=> x \in DOMAIN g /\ g[x] = y
  PROVE  f = g
<1>1. DOMAIN f = DOMAIN g /\ \A x \in DOMAIN f : f[x] = g[x]
  OBVIOUS
<1> QED
  BY <1>1

-----------------------------------------------------------------------------
(* The steps.                                                              *)

(* Set binds one key, in a map that holds. *)
LEMMA SetDoes ==
  ASSUME MapAssumption, HashInv, NEW k \in Key, NEW v \in Value, Set(k, v)
  PROVE  /\ HashInv'
         /\ \A l, w : Binds(m', l, w) <=> IF l = k THEN w = v ELSE Binds(m, l, w)
<1>1. MapInv(m)
  BY DEF HashInv
<1>2. CASE Find(m, k) # Nil \/ Get(m.lfree)[1] # Nil
  <2>1. m' = Put(m, k, v)
    BY <1>2, Zenon DEF Set
  <2>2. /\ MapInv(Put(m, k, v))
        /\ \A l, w : Binds(Put(m, k, v), l, w) <=> IF l = k THEN w = v ELSE Binds(m, l, w)
    BY <1>1, <1>2, PutKeeps
  <2> QED
    BY <2>1, <2>2 DEF HashInv
<1>3. CASE ~ (Find(m, k) # Nil \/ Get(m.lfree)[1] # Nil)
  <2>1. NextEntries(m) <= MaxEntries /\ m' = Put(Resize(m), k, v)
    BY <1>3, Zenon DEF Set
  <2>2. PICK r : r = Resize(m)
    OBVIOUS
  <2>3. /\ MapInv(r) /\ Get(r.lfree)[1] # Nil
        /\ \A l, w : Binds(r, l, w) <=> Binds(m, l, w)
    BY <1>1, <1>3, <2>1, <2>2, ResizeKeeps
  <2>4. /\ MapInv(Put(r, k, v))
        /\ \A l, w : Binds(Put(r, k, v), l, w) <=> IF l = k THEN w = v ELSE Binds(r, l, w)
    BY <2>3, PutKeeps
  <2> QED
    BY <2>1, <2>2, <2>3, <2>4 DEF HashInv
<1> QED
  BY <1>2, <1>3

(* Delete unbinds one. *)
LEMMA DeleteDoes ==
  ASSUME MapAssumption, HashInv, NEW k \in Key, Delete(k)
  PROVE  /\ HashInv'
         /\ \E w : Binds(m, k, w)
         /\ \A l, w : Binds(m', l, w) <=> l # k /\ Binds(m, l, w)
<1>1. MapInv(m) /\ k \in Nat
  BY KeysAreNat DEF HashInv
<1>2. PICK c : c = Find(m, k)
  OBVIOUS
<1>3. c # Nil /\ m' = EntryTakenFrom(m, c)
  BY <1>2, Zenon DEF Delete, EntryTakenFrom, WithFree, WithCount, WithEntries, Without
<1>4. c \in DOMAIN m.entries /\ m.entries[c].key = k
  BY <1>1, <1>2, <1>3, FindIs
<1>5. /\ MapInv(EntryTakenFrom(m, c))
      /\ \A l, w : Binds(EntryTakenFrom(m, c), l, w) <=> l # m.entries[c].key /\ Binds(m, l, w)
  BY <1>1, <1>4, EntryTaken
<1>6. Binds(m, k, m.entries[c].value)
  BY <1>4 DEF Binds
<1> QED
  BY <1>3, <1>4, <1>5, <1>6 DEF HashInv
(* Clear leaves nothing bound. *)
LEMMA ClearDoes ==
  ASSUME Clear
  PROVE  HashInv' /\ \A l, w : ~ Binds(m', l, w)
  BY EmptyHolds DEF Clear, HashInv

(* At first the map is empty. *)
LEMMA InitDoes ==
  ASSUME HashInit
  PROVE  HashInv /\ \A l, w : ~ Binds(m, l, w)
  BY EmptyHolds DEF HashInit, HashInv

(* The invariant is kept by each step. *)
LEMMA HashStep ==
  ASSUME MapAssumption, HashInv, [HashNext]_m
  PROVE  HashInv'
<1>1. ASSUME NEW k \in Key, NEW v \in Value, Set(k, v) PROVE HashInv'
  BY <1>1, SetDoes
<1>2. ASSUME NEW k \in Key, Delete(k) PROVE HashInv'
  BY <1>2, DeleteDoes
<1>3. CASE Clear
  BY <1>3, ClearDoes
<1>4. CASE UNCHANGED m
  BY <1>4 DEF HashInv
<1> QED
  BY <1>1, <1>2, <1>3, <1>4 DEF HashNext

(* Chains, free list and arrays fit at each step, whatever the keys. *)
THEOREM MapHolds == MapAssumption => (HashSpec => []HashInv)
<1>1. SUFFICES ASSUME MapAssumption PROVE HashSpec => []HashInv
  OBVIOUS
<1>2. HashInit => HashInv
  BY InitDoes
<1>3. HashInv /\ [HashNext]_m => HashInv'
  BY <1>1, HashStep
<1> QED
  BY <1>2, <1>3, PTL DEF HashSpec

(* What is used is used once, and what is not is free. *)
LEMMA Accounted ==
  ASSUME MapAssumption, HashInv
  PROVE  EntriesAccounted
<1> DEFINE used == Chains(m)
           f == m.lfree
<1>1. MapInv(m)
  BY DEF HashInv
<1>2. IsInjective(used) /\ ToSet(used) = DOMAIN m.entries /\ Len(used) = m.nentries
  BY <1>1, ChainsTogether
<1> HIDE DEF used
<1>3. Ranges(f) /\ Free(f) = (0 .. m.maxentries - 1) \ ToSet(used)
  BY <1>1, <1>2 DEF MapInv, RestIsFree
<1> HIDE DEF f
<1>4. ASSUME f.listed
      PROVE  /\ f.head <= f.nbuckets
             /\ \A i \in 1 .. f.head : f.buckets[i].count > 0
             /\ \A i \in 1 .. f.head - 1 :
                  f.buckets[i].pos + f.buckets[i].count < f.buckets[i + 1].pos
  <2>1. PICK b, n : b = f.buckets /\ n = f.head
    OBVIOUS
  <2>2. /\ b \in Seq([pos : Nat, count : Nat \ {0}]) /\ n = Len(b) /\ n <= f.nbuckets
        /\ \A i, j \in 1 .. n : i < j => b[i].pos + b[i].count < b[j].pos
    BY <1>3, <1>4, <2>1 DEF Ranges, FreeList
  <2>3. n \in Nat /\ \A i \in 1 .. n : b[i] \in [pos : Nat, count : Nat \ {0}]
    BY <2>2, Elements
  <2>4. \A i \in 1 .. n : b[i].count > 0
    <3>1. ASSUME NEW i \in 1 .. n PROVE b[i].count > 0
      <4>1. b[i] \in [pos : Nat, count : Nat \ {0}]
        BY <2>3
      <4>2. b[i].count \in Nat \ {0}
        BY <4>1
      <4> QED
        BY <4>2
    <3> QED
      BY <3>1
  <2>5. \A i \in 1 .. n - 1 : b[i].pos + b[i].count < b[i + 1].pos
    <3>1. ASSUME NEW i \in 1 .. n - 1 PROVE b[i].pos + b[i].count < b[i + 1].pos
      <4>1. i \in 1 .. n /\ i + 1 \in 1 .. n /\ i < i + 1
        BY <2>3
      <4> QED
        BY <2>2, <4>1
    <3> QED
      BY <3>1
  <2> QED
    BY <2>1, <2>2, <2>4, <2>5
<1> QED
  BY <1>2, <1>3, <1>4, Zenon DEF EntriesAccounted, used, f

(* The free list and the chains share the entries, exactly, at each step. *)
THEOREM EntriesHold == MapAssumption => (HashSpec => []EntriesAccounted)
<1>1. SUFFICES ASSUME MapAssumption PROVE HashSpec => []EntriesAccounted
  OBVIOUS
<1>2. HashSpec => []HashInv
  BY <1>1, MapHolds
<1>3. HashInv => EntriesAccounted
  BY <1>1, Accounted
<1> QED
  BY <1>2, <1>3, PTL

(* Each step is one of a function from keys to values. *)
LEMMA StepIsOfMap ==
  ASSUME MapAssumption, HashInv, [HashNext]_m
  PROVE  [Abstract!ASet \/ Abstract!ARemove \/ Abstract!AClear]_Contents
<1> DEFINE f == Contents
           g == Contents'
<1>1. /\ f = [l \in DOMAIN f |-> f[l]] /\ DOMAIN f \subseteq Key
      /\ \A l, w : Binds(m, l, w) <=> l \in DOMAIN f /\ f[l] = w
  <2>1. f = ContentsOf(m) /\ MapInv(m)
    BY Zenon DEF HashInv, Contents, ContentsOf
  <2> HIDE DEF f
  <2> QED
    BY <2>1, ContentsAre
<1>2. /\ g = [l \in DOMAIN g |-> g[l]]
      /\ \A l, w : Binds(m', l, w) <=> l \in DOMAIN g /\ g[l] = w
  <2>1. MapInv(m')
    BY HashStep DEF HashInv
  <2>2. g = ContentsOf(m')
    BY DEF Contents, ContentsOf
  <2> HIDE DEF g
  <2> QED
    BY <2>1, <2>2, ContentsAre
<1> HIDE DEF f, g
<1>3. ASSUME NEW k \in Key, NEW v \in Value, Set(k, v) PROVE Abstract!ASet
  <2> DEFINE h == [l \in DOMAIN f \cup {k} |-> IF l = k THEN v ELSE f[l]]
  <2>1. \A l, w : Binds(m', l, w) <=> IF l = k THEN w = v ELSE Binds(m, l, w)
    BY <1>3, SetDoes
  <2>2. \A l, w : l \in DOMAIN h /\ h[l] = w <=> l \in DOMAIN g /\ g[l] = w
    BY <1>1, <1>2, <2>1
  <2>3. h = [l \in DOMAIN h |-> h[l]]
    OBVIOUS
  <2>4. g = h
    <3> HIDE DEF h
    <3> QED
      BY <1>2, <2>2, <2>3, SamePairs
  <2> QED
    BY <2>4, Zenon DEF Abstract!ASet, f, g
<1>4. ASSUME NEW k \in Key, Delete(k) PROVE Abstract!ARemove
  <2> DEFINE h == [l \in DOMAIN f \ {k} |-> f[l]]
  <2>1. /\ \E w : Binds(m, k, w)
        /\ \A l, w : Binds(m', l, w) <=> l # k /\ Binds(m, l, w)
    BY <1>4, DeleteDoes
  <2>2. \A l, w : l \in DOMAIN h /\ h[l] = w <=> l \in DOMAIN g /\ g[l] = w
    BY <1>1, <1>2, <2>1
  <2>3. h = [l \in DOMAIN h |-> h[l]] /\ k \in DOMAIN f
    BY <1>1, <2>1
  <2>4. g = h
    <3> HIDE DEF h
    <3> QED
      BY <1>2, <2>2, <2>3, SamePairs
  <2> QED
    BY <2>3, <2>4, Zenon DEF Abstract!ARemove, f, g
<1>5. ASSUME Clear PROVE Abstract!AClear
  <2>1. \A l, w : ~ Binds(m', l, w)
    BY <1>5, ClearDoes
  <2>2. DOMAIN g = {}
    BY <1>2, <2>1
  <2>3. g \in [{} -> Value]
    BY <1>2, <2>2
  <2> QED
    BY <2>3, Zenon DEF Abstract!AClear, g
<1>6. CASE UNCHANGED m
  BY <1>6 DEF Contents
<1> QED
  BY <1>3, <1>4, <1>5, <1>6 DEF HashNext

(* The hash map is a map: the chains, the free list and the growing arrays    *)
(* implement a partial function from keys to values, for any keys and sizes.  *)
THEOREM MapIsAMap == MapAssumption => (HashSpec => MapSpec)
<1>1. SUFFICES ASSUME MapAssumption PROVE HashSpec => MapSpec
  OBVIOUS
<1>2. HashSpec => []HashInv
  BY <1>1, MapHolds
<1>3. HashInit => Abstract!AInit
  <2>1. SUFFICES ASSUME HashInit PROVE Abstract!AInit
    OBVIOUS
  <2>2. MapInv(m) /\ \A l, w : ~ Binds(m, l, w)
    BY <2>1, InitDoes DEF HashInv
  <2>3. /\ ContentsOf(m) = [l \in DOMAIN ContentsOf(m) |-> ContentsOf(m)[l]]
        /\ \A l, w : Binds(m, l, w) <=> l \in DOMAIN ContentsOf(m) /\ ContentsOf(m)[l] = w
    BY <1>1, <2>2, ContentsAre
  <2>4. ContentsOf(m) \in [{} -> Value]
    BY <2>2, <2>3
  <2>5. Contents \in [{} -> Value]
    BY <2>4 DEF Contents, ContentsOf
  <2> QED
    BY <2>5, Zenon DEF Abstract!AInit
<1>4. HashInv /\ [HashNext]_m => [Abstract!ASet \/ Abstract!ARemove \/ Abstract!AClear]_Contents
  BY <1>1, StepIsOfMap
<1> QED
  BY <1>2, <1>3, <1>4, PTL DEF HashSpec, MapSpec, Abstract!ASpec

-----------------------------------------------------------------------------
(* Dynamic objects.                                                        *)

(* A set of names numbered from 0 on by f. *)
Numbered(S, k, f) ==
  /\ k \in Nat /\ IsFiniteSet(S) /\ Cardinality(S) = k
  /\ \A a \in S : f[a] \in Nat /\ f[a] < k
  /\ \A a, b \in S : f[a] = f[b] => a = b
  /\ \A i \in Nat : i < k => \E a \in S : f[a] = i

(* Another function that numbers them alike, *)
LEMMA NumberedSame ==
  ASSUME NEW S, NEW k, NEW f, NEW g, Numbered(S, k, f), \A a \in S : g[a] = f[a]
  PROVE  Numbered(S, k, g)
BY Zenon DEF Numbered

(* one more name, with the next number, *)
LEMMA NumberedAdd ==
  ASSUME NEW S, NEW k, NEW f, NEW g, NEW a, Numbered(S, k, f), a \notin S,
         g[a] = k, \A b \in S : g[b] = f[b]
  PROVE  Numbered(S \cup {a}, k + 1, g)
<1>1. k \in Nat /\ IsFiniteSet(S) /\ Cardinality(S) = k
  BY DEF Numbered
<1>2. IsFiniteSet(S \cup {a}) /\ Cardinality(S \cup {a}) = k + 1
  BY <1>1, FS_AddElement
<1>3. \A b \in S \cup {a} : g[b] \in Nat /\ g[b] < k + 1
  BY DEF Numbered
<1>4. \A b, c \in S \cup {a} : g[b] = g[c] => b = c
  BY DEF Numbered
<1>5. ASSUME NEW i \in Nat, i < k + 1 PROVE \E b \in S \cup {a} : g[b] = i
  <2>1. CASE i = k
    BY <2>1
  <2>2. CASE i < k
    BY <2>2 DEF Numbered
  <2> QED
    BY <1>1, <1>5, <2>1, <2>2
<1> QED
  BY <1>1, <1>2, <1>3, <1>4, <1>5 DEF Numbered

(* and one name less, with the numbers above it one lower. *)
LEMMA NumberedCut ==
  ASSUME NEW S, NEW k, NEW f, NEW g, NEW a, Numbered(S, k, f), a \in S,
         \A b \in S : b # a => g[b] = IF f[b] > f[a] THEN f[b] - 1 ELSE f[b]
  PROVE  Numbered(S \ {a}, k - 1, g)
<1>1. /\ k \in Nat /\ IsFiniteSet(S) /\ Cardinality(S) = k
      /\ \A b \in S : f[b] \in Nat /\ f[b] < k
      /\ \A b, c \in S : f[b] = f[c] => b = c
      /\ \A i \in Nat : i < k => \E b \in S : f[b] = i
  BY DEF Numbered
<1>2. IsFiniteSet(S \ {a}) /\ Cardinality(S \ {a}) = k - 1
  BY <1>1, FS_RemoveElement
<1>3. k - 1 \in Nat
  BY <1>1
<1>4. \A b \in S \ {a} : g[b] \in Nat /\ g[b] < k - 1
  <2> TAKE b \in S \ {a}
  <2>1. f[b] # f[a] /\ f[b] \in Nat /\ f[a] \in Nat /\ f[a] < k /\ f[b] < k
    BY <1>1
  <2>2. g[b] = IF f[b] > f[a] THEN f[b] - 1 ELSE f[b]
    OBVIOUS
  <2> QED
    BY <2>1, <2>2, <1>1
<1>5. \A b, c \in S \ {a} : g[b] = g[c] => b = c
  <2> TAKE b, c \in S \ {a}
  <2>1. /\ f[b] # f[a] /\ f[b] \in Nat /\ f[a] \in Nat /\ f[c] \in Nat /\ f[c] # f[a]
        /\ (f[b] = f[c] => b = c)
    BY <1>1
  <2>2. /\ g[b] = IF f[b] > f[a] THEN f[b] - 1 ELSE f[b]
        /\ g[c] = IF f[c] > f[a] THEN f[c] - 1 ELSE f[c]
    OBVIOUS
  <2> QED
    BY <2>1, <2>2
<1>6. ASSUME NEW i \in Nat, i < k - 1 PROVE \E b \in S \ {a} : g[b] = i
  <2>1. f[a] \in Nat
    BY <1>1
  <2>2. CASE i < f[a]
    <3>1. PICK b \in S : f[b] = i
      BY <1>1, <1>6
    <3> QED
      BY <2>1, <2>2, <3>1
  <2>3. CASE ~ (i < f[a])
    <3>1. PICK b \in S : f[b] = i + 1
      BY <1>1, <1>6
    <3>2. b # a /\ f[b] > f[a] /\ (i + 1) - 1 = i
      BY <2>1, <2>3, <3>1
    <3> QED
      BY <3>1, <3>2
  <2> QED
    BY <2>2, <2>3
<1> QED
  BY <1>2, <1>3, <1>4, <1>5, <1>6 DEF Numbered

(* Raw data of the names of S placed by at in k cells: aligned, in them, and disjoint. *)
Placed(F, S, k) ==
  /\ \A n \in S : F[n].index % Size(F[n].type) = 0 /\ F[n].index + Size(F[n].type) <= k
  /\ \A n, l \in S : n # l => \/ F[n].index + Size(F[n].type) <= F[l].index
                              \/ F[l].index + Size(F[l].type) <= F[n].index

(* Data has as many bytes as its type. *)
LEMMA SizeIs == \A type : Size(type) \in {1, 2, 4, 8}
BY DEF Size

(* Padded, a place is aligned. *)
LEMMA PadIs ==
  ASSUME NEW k \in Nat, NEW type
  PROVE  Pad(k, type) \in Nat /\ (k + Pad(k, type)) % Size(type) = 0
<1>1. PICK size : size = Size(type) /\ size \in {1, 2, 4, 8}
  BY SizeIs
<1>2. Pad(k, type) = IF k % size = 0 THEN 0 ELSE size - (k % size)
  BY <1>1 DEF Pad
<1>3. CASE size = 1
  BY <1>1, <1>2, <1>3
<1>4. CASE size = 2
  BY <1>1, <1>2, <1>4
<1>5. CASE size = 4
  BY <1>1, <1>2, <1>5
<1>6. CASE size = 8
  BY <1>1, <1>2, <1>6
<1> QED
  BY <1>1, <1>3, <1>4, <1>5, <1>6

(* Some of them, in the same places and in at least as many cells. *)
LEMMA PlacedSame ==
  ASSUME NEW F, NEW G, NEW S, NEW T, NEW k, NEW j, Placed(F, S, k), T \subseteq S,
         \A n \in S : F[n].index \in Nat, k \in Nat, j \in Nat, k <= j,
         \A n \in T : G[n].index = F[n].index /\ Size(G[n].type) = Size(F[n].type)
  PROVE  Placed(G, T, j)
<1>1. ASSUME NEW n \in T
      PROVE  G[n].index % Size(G[n].type) = 0 /\ G[n].index + Size(G[n].type) <= j
  <2>1. /\ F[n].index % Size(F[n].type) = 0 /\ F[n].index + Size(F[n].type) <= k
        /\ Size(F[n].type) \in Nat /\ F[n].index \in Nat
    BY SizeIs DEF Placed
  <2> QED
    BY <2>1
<1>2. ASSUME NEW n \in T, NEW l \in T, n # l
      PROVE  \/ G[n].index + Size(G[n].type) <= G[l].index
             \/ G[l].index + Size(G[l].type) <= G[n].index
  <2>1. n \in S /\ l \in S
    OBVIOUS
  <2>2. \/ F[n].index + Size(F[n].type) <= F[l].index
        \/ F[l].index + Size(F[l].type) <= F[n].index
    BY <1>2, <2>1 DEF Placed
  <2> QED
    BY <2>2
<1> QED
  BY <1>1, <1>2 DEF Placed

(* One more, at an aligned place behind the others. *)
LEMMA PlacedAdd ==
  ASSUME NEW F, NEW G, NEW S, NEW n, NEW k, NEW j, Placed(F, S, k), n \notin S,
         \A l \in S : F[l].index \in Nat,
         \A l \in S : G[l].index = F[l].index /\ Size(G[l].type) = Size(F[l].type),
         k \in Nat, G[n].index \in Nat, k <= G[n].index,
         G[n].index % Size(G[n].type) = 0, j = G[n].index + Size(G[n].type)
  PROVE  Placed(G, S \cup {n}, j)
<1>1. Size(G[n].type) \in Nat /\ j \in Nat
  BY SizeIs
<1>2. ASSUME NEW l \in S
      PROVE  /\ G[l].index % Size(G[l].type) = 0 /\ G[l].index + Size(G[l].type) <= k
             /\ G[l].index \in Nat /\ Size(G[l].type) \in Nat
  <2>1. /\ F[l].index % Size(F[l].type) = 0 /\ F[l].index + Size(F[l].type) <= k
    BY DEF Placed
  <2> QED
    BY <2>1, SizeIs
<1>3. ASSUME NEW l \in S \cup {n}
      PROVE  G[l].index % Size(G[l].type) = 0 /\ G[l].index + Size(G[l].type) <= j
  <2>1. CASE l \in S
    BY <1>1, <1>2, <2>1
  <2>2. CASE l = n
    BY <1>1, <2>2
  <2> QED
    BY <2>1, <2>2
<1>4. ASSUME NEW a \in S \cup {n}, NEW l \in S \cup {n}, a # l
      PROVE  \/ G[a].index + Size(G[a].type) <= G[l].index
             \/ G[l].index + Size(G[l].type) <= G[a].index
  <2>1. CASE a \in S /\ l \in S
    <3>1. \/ F[a].index + Size(F[a].type) <= F[l].index
          \/ F[l].index + Size(F[l].type) <= F[a].index
      BY <1>4, <2>1 DEF Placed
    <3> QED
      BY <2>1, <3>1
  <2>2. CASE a \in S /\ l = n
    BY <1>2, <2>2
  <2>3. CASE a = n /\ l \in S
    BY <1>2, <2>3
  <2> QED
    BY <1>4, <2>1, <2>2, <2>3
<1> QED
  BY <1>3, <1>4 DEF Placed
-----------------------------------------------------------------------------
(* An object and its fields. *)
FieldRec == [type : Pointer \cup Raw, index : Nat, order : Nat]

Data == Datum \cup {Torn}

ObjOf(fields, values, raw, virtuals) ==
  [fields |-> fields, values |-> values, raw |-> raw, virtuals |-> virtuals]

IsFields(F) == DOMAIN F \subseteq Name /\ F \in [DOMAIN F -> FieldRec]

Typed(x) ==
  /\ x = ObjOf(x.fields, x.values, x.raw, x.virtuals)
  /\ IsFields(x.fields) /\ x.values \in Seq(Data) /\ x.raw \in Seq(Data)

IndexOf(F) == [n \in DOMAIN F |-> F[n].index]
OrderOf(F) == [n \in DOMAIN F |-> F[n].order]

Ptrs(F) == {n \in DOMAIN F : F[n].type \in Pointer}
Raws(F) == {n \in DOMAIN F : F[n].type \in Raw}

LaidOut(F, values, raw) ==
  /\ Numbered(Ptrs(F), Len(values), IndexOf(F))
  /\ Numbered(DOMAIN F, Cardinality(DOMAIN F), OrderOf(F))
  /\ Placed(F, Raws(F), Len(raw))

Follows(F, views) ==
  \A view \in views : view.type \in Virtual /\ view = View(F, view.type)

HoldsIn(F, values, raw, n, w) ==
  IF F[n].type \in Pointer THEN values[F[n].index + 1] = w
  ELSE \A i \in Cells(F[n]) : raw[i] = w

Holds(x, n, w) == HoldsIn(x.fields, x.values, x.raw, n, w)

Valid(x) ==
  /\ Typed(x) /\ LaidOut(x.fields, x.values, x.raw) /\ Follows(x.fields, x.virtuals)

Seen(views) == {view.type : view \in views}

(* What the fields of S hold in x they hold in y, as the same types, and the same   *)
(* virtuals view it.                                                                *)
Keeps(x, y, S) ==
  /\ Seen(y.virtuals) = Seen(x.virtuals)
  /\ \A l \in S : y.fields[l].type = x.fields[l].type
  /\ \A l \in S, w \in Datum : Holds(x, l, w) => Holds(y, l, w)

(* What a field is. *)
LEMMA FieldIs ==
  ASSUME ObjectAssumption, NEW F, IsFields(F), NEW n \in DOMAIN F
  PROVE  /\ F[n].type \in Pointer \cup Raw /\ F[n].index \in Nat /\ F[n].order \in Nat
         /\ F[n] = [type |-> F[n].type, index |-> F[n].index, order |-> F[n].order]
         /\ n \in Name /\ n \in Nat
         /\ ~ (F[n].type \in Pointer /\ F[n].type \in Raw)
         /\ F[n] \in FieldRec
<1>1. F[n] \in FieldRec
  BY DEF IsFields
<1>2. /\ F[n].type \in Pointer \cup Raw /\ F[n].index \in Nat /\ F[n].order \in Nat
      /\ F[n] = [type |-> F[n].type, index |-> F[n].index, order |-> F[n].order]
  BY <1>1 DEF FieldRec
<1>3. n \in Name /\ n \in Nat
  BY DEF IsFields, ObjectAssumption, Type
<1>4. ~ (F[n].type \in Pointer /\ F[n].type \in Raw)
  BY DEF ObjectAssumption, Type
<1> QED
  BY <1>1, <1>2, <1>3, <1>4

(* What the parts of an object are. *)
LEMMA ObjIs ==
  ASSUME NEW F, NEW V, NEW R, NEW W
  PROVE  LET x == ObjOf(F, V, R, W) IN
         x.fields = F /\ x.values = V /\ x.raw = R /\ x.virtuals = W
BY DEF ObjOf
(* One more field in the lookup: the orders stay those of an array. *)
LEMMA FieldsWithIs ==
  ASSUME ObjectAssumption, NEW F, IsFields(F), NEW n \in Name, n \notin DOMAIN F,
         NEW type \in Pointer \cup Raw, NEW index \in Nat,
         Numbered(DOMAIN F, Cardinality(DOMAIN F), OrderOf(F))
  PROVE  LET G == FieldsWith(F, n, type, index) IN
         /\ IsFields(G) /\ DOMAIN G = DOMAIN F \cup {n}
         /\ G[n].type = type /\ G[n].index = index
         /\ \A l \in DOMAIN F : G[l] = F[l]
         /\ Numbered(DOMAIN G, Cardinality(DOMAIN G), OrderOf(G))
<1> DEFINE G == FieldsWith(F, n, type, index)
           k == Cardinality(DOMAIN F)
<1>1. k \in Nat
  BY DEF Numbered
<1>2. /\ DOMAIN G = DOMAIN F \cup {n} /\ G[n] = [type |-> type, index |-> index, order |-> k]
      /\ \A l \in DOMAIN F : G[l] = F[l]
      /\ G = [l \in DOMAIN G |-> G[l]]
  BY DEF FieldsWith
<1> HIDE DEF G
<1>3. G[n].type = type /\ G[n].index = index /\ G[n].order = k /\ G[n] \in FieldRec
  BY <1>1, <1>2 DEF FieldRec
<1>4. IsFields(G)
  <2>1. \A l \in DOMAIN G : G[l] \in FieldRec
    <3>1. \A l \in DOMAIN F : F[l] \in FieldRec
      BY DEF IsFields
    <3> QED
      BY <1>2, <1>3, <3>1
  <2>2. DOMAIN G \subseteq Name
    BY <1>2 DEF IsFields
  <2> QED
    BY <1>2, <2>1, <2>2 DEF IsFields
<1>5. Numbered(DOMAIN F \cup {n}, k + 1, OrderOf(G))
  <2>1. OrderOf(G)[n] = k /\ \A l \in DOMAIN F : OrderOf(G)[l] = OrderOf(F)[l]
    BY <1>2, <1>3 DEF OrderOf
  <2> QED
    BY <2>1, NumberedAdd
<1>6. Numbered(DOMAIN G, Cardinality(DOMAIN G), OrderOf(G))
  BY <1>2, <1>5, SMTT(60) DEF Numbered
<1> QED
  BY <1>2, <1>3, <1>4, <1>6 DEF G

(* Pad cells, then size cells that hold d, behind r. *)
LEMMA Padded ==
  ASSUME NEW r \in Seq(Data), NEW pad \in Nat, NEW size \in Nat, NEW d \in Data
  PROVE  LET s == r \o Cellful(pad, Torn) \o Cellful(size, d) IN
         /\ s \in Seq(Data) /\ Len(s) = Len(r) + pad + size /\ Len(r) \in Nat
         /\ \A i \in 1 .. Len(r) : s[i] = r[i]
         /\ \A i \in Len(r) + pad + 1 .. Len(r) + pad + size : s[i] = d
<1> DEFINE a == Cellful(pad, Torn)
           c == Cellful(size, d)
           t == r \o a
           s == t \o c
<1>1. Torn \in Data /\ Len(r) \in Nat
  BY DEF Data
<1>2. a \in Seq(Data) /\ Len(a) = pad
  BY <1>1 DEF Cellful
<1>3. c \in Seq(Data) /\ Len(c) = size /\ \A i \in 1 .. size : c[i] = d
  BY DEF Cellful
<1> HIDE DEF a, c
<1>4. /\ t \in Seq(Data) /\ Len(t) = Len(r) + pad
      /\ \A i \in 1 .. Len(r) : t[i] = r[i]
  <2>1. /\ t \in Seq(Data) /\ Len(t) = Len(r) + Len(a)
        /\ \A i \in 1 .. Len(r) + Len(a) : t[i] = IF i <= Len(r) THEN r[i] ELSE a[i - Len(r)]
    BY <1>2, ConcatProperties
  <2> HIDE DEF t
  <2> QED
    BY <1>1, <1>2, <2>1
<1> HIDE DEF t
<1>5. /\ s \in Seq(Data) /\ Len(s) = Len(r) + pad + size
      /\ \A i \in 1 .. Len(t) : s[i] = t[i]
      /\ \A i \in Len(t) + 1 .. Len(t) + size : s[i] = c[i - Len(t)]
  <2>1. /\ s \in Seq(Data) /\ Len(s) = Len(t) + Len(c)
        /\ \A i \in 1 .. Len(t) + Len(c) : s[i] = IF i <= Len(t) THEN t[i] ELSE c[i - Len(t)]
    BY <1>3, <1>4, ConcatProperties
  <2> HIDE DEF s
  <2> QED
    BY <1>1, <1>3, <1>4, <2>1
<1> HIDE DEF s
<1>6. \A i \in Len(r) + pad + 1 .. Len(r) + pad + size : s[i] = d
  <2> TAKE i \in Len(r) + pad + 1 .. Len(r) + pad + size
  <2>1. i - Len(t) \in 1 .. size /\ i \in Len(t) + 1 .. Len(t) + size
    BY <1>1, <1>4
  <2> QED
    BY <1>3, <1>5, <2>1
<1>7. \A i \in 1 .. Len(r) : s[i] = r[i]
  BY <1>1, <1>4, <1>5
<1> QED
  BY <1>1, <1>5, <1>6, <1>7 DEF s, t, a, c
(* Where the fields are. *)
LEMMA PlaceOfField ==
  ASSUME ObjectAssumption, NEW F, NEW V, NEW R, IsFields(F), LaidOut(F, V, R),
         R \in Seq(Data)
  PROVE  /\ \A l \in Ptrs(F) : F[l].index + 1 \in 1 .. Len(V)
         /\ \A l \in Raws(F) : Cells(F[l]) \subseteq 1 .. Len(R)
         /\ Len(V) \in Nat /\ Len(R) \in Nat
<1>1. Len(V) \in Nat
  BY DEF LaidOut, Numbered
<1>2. ASSUME NEW l \in Ptrs(F) PROVE F[l].index + 1 \in 1 .. Len(V)
  <2>1. IndexOf(F)[l] \in Nat /\ IndexOf(F)[l] < Len(V)
    BY DEF LaidOut, Numbered
  <2>2. IndexOf(F)[l] = F[l].index
    BY DEF IndexOf, Ptrs
  <2> QED
    BY <1>1, <2>1, <2>2
<1>3. Len(R) \in Nat
  BY Elements
<1>4. ASSUME NEW l \in Raws(F) PROVE Cells(F[l]) \subseteq 1 .. Len(R)
  <2>1. F[l].index + Size(F[l].type) <= Len(R) /\ F[l].index \in Nat
    BY FieldIs DEF LaidOut, Placed, Raws
  <2>2. Size(F[l].type) \in Nat
    BY SizeIs
  <2> QED
    BY <1>3, <2>1, <2>2 DEF Cells
<1> QED
  BY <1>1, <1>2, <1>3, <1>4

(* A new pointer is at the end of the values, the others are as before. *)
LEMMA AddedPointer ==
  ASSUME ObjectAssumption, NEW F, NEW V \in Seq(Data), NEW R \in Seq(Data),
         IsFields(F), LaidOut(F, V, R),
         NEW n \in Name, n \notin DOMAIN F, NEW type \in Pointer, NEW d \in Data
  PROVE  LET G == FieldsWith(F, n, type, Len(V))
             U == Append(V, d)
         IN
         /\ IsFields(G) /\ DOMAIN G = DOMAIN F \cup {n} /\ G[n].type = type
         /\ \A l \in DOMAIN F : G[l] = F[l]
         /\ U \in Seq(Data) /\ LaidOut(G, U, R) /\ HoldsIn(G, U, R, n, d)
         /\ \A l \in DOMAIN F, w \in Data : HoldsIn(F, V, R, l, w) => HoldsIn(G, U, R, l, w)
<1> DEFINE k == Len(V)
           G == FieldsWith(F, n, type, k)
           U == Append(V, d)
<1>0. k \in Nat
  BY Elements
<1>1. /\ IsFields(G) /\ DOMAIN G = DOMAIN F \cup {n}
      /\ G[n].type = type /\ G[n].index = k
      /\ \A l \in DOMAIN F : G[l] = F[l]
      /\ Numbered(DOMAIN G, Cardinality(DOMAIN G), OrderOf(G))
  <2>1. Numbered(DOMAIN F, Cardinality(DOMAIN F), OrderOf(F))
    BY DEF LaidOut
  <2> QED
    BY <1>0, <2>1, FieldsWithIs
<1>2. /\ U \in Seq(Data) /\ Len(U) = k + 1 /\ U[k + 1] = d
      /\ \A i \in 1 .. k : U[i] = V[i]
  BY ElementsOfAppend
<1> HIDE DEF G, U
<1>3. n \notin Ptrs(F) /\ Ptrs(G) = Ptrs(F) \cup {n} /\ Raws(G) = Raws(F)
  <2>1. ~ (type \in Raw)
    BY DEF ObjectAssumption, Type
  <2> QED
    BY <1>1, <2>1 DEF Ptrs, Raws
<1>4. Numbered(Ptrs(G), Len(U), IndexOf(G))
  <2>1. IndexOf(G)[n] = k
    BY <1>1 DEF IndexOf
  <2>2. \A l \in Ptrs(F) : IndexOf(G)[l] = IndexOf(F)[l]
    BY <1>1 DEF IndexOf, Ptrs
  <2>3. Numbered(Ptrs(F), k, IndexOf(F))
    BY DEF LaidOut
  <2>4. Numbered(Ptrs(F) \cup {n}, k + 1, IndexOf(G))
    BY <1>3, <2>1, <2>2, <2>3, NumberedAdd
  <2> QED
    BY <1>2, <1>3, <2>4
<1>5. Placed(G, Raws(G), Len(R))
  <2>1. \A l \in Raws(F) : G[l] = F[l]
    BY <1>1 DEF Raws
  <2> QED
    BY <1>3, <2>1 DEF LaidOut, Placed
<1>6. HoldsIn(G, U, R, n, d)
  BY <1>1, <1>2 DEF HoldsIn
<1>7. ASSUME NEW l \in DOMAIN F, NEW w \in Data, HoldsIn(F, V, R, l, w)
      PROVE  HoldsIn(G, U, R, l, w)
  <2>1. G[l] = F[l]
    BY <1>1
  <2>2. CASE F[l].type \in Pointer
    <3>1. F[l].index + 1 \in 1 .. k
      BY <2>2, PlaceOfField DEF Ptrs
    <3> QED
      BY <1>2, <1>7, <2>1, <2>2, <3>1 DEF HoldsIn
  <2> QED
    BY <1>7, <2>1, <2>2 DEF HoldsIn
<1>8. LaidOut(G, U, R)
  BY <1>1, <1>4, <1>5 DEF LaidOut
<1> QED
  BY <1>1, <1>2, <1>6, <1>7, <1>8 DEF G, U

(* New raw data is aligned behind the rest, which is as before. *)
LEMMA AddedRaw ==
  ASSUME ObjectAssumption, NEW F, NEW V \in Seq(Data), NEW R \in Seq(Data),
         IsFields(F), LaidOut(F, V, R),
         NEW n \in Name, n \notin DOMAIN F, NEW type \in Raw, NEW d \in Data
  PROVE  LET pad == Pad(Len(R), type)
             G == FieldsWith(F, n, type, Len(R) + pad)
             U == R \o Cellful(pad, Torn) \o Cellful(Size(type), d)
         IN
         /\ IsFields(G) /\ DOMAIN G = DOMAIN F \cup {n} /\ G[n].type = type
         /\ \A l \in DOMAIN F : G[l] = F[l]
         /\ U \in Seq(Data) /\ LaidOut(G, V, U) /\ HoldsIn(G, V, U, n, d)
         /\ \A l \in DOMAIN F, w \in Data : HoldsIn(F, V, R, l, w) => HoldsIn(G, V, U, l, w)
<1> DEFINE k == Len(R)
           pad == Pad(k, type)
           at == k + pad
           G == FieldsWith(F, n, type, at)
           U == R \o Cellful(pad, Torn) \o Cellful(Size(type), d)
<1>0. k \in Nat /\ pad \in Nat /\ at \in Nat /\ at % Size(type) = 0 /\ Size(type) \in Nat
  <2>1. k \in Nat
    BY Elements
  <2>2. pad \in Nat /\ (k + pad) % Size(type) = 0
    <3> HIDE DEF k
    <3> QED
      BY <2>1, PadIs
  <2> HIDE DEF pad, k
  <2> QED
    BY <2>1, <2>2, SizeIs
<1>1. /\ IsFields(G) /\ DOMAIN G = DOMAIN F \cup {n}
      /\ G[n].type = type /\ G[n].index = at
      /\ \A l \in DOMAIN F : G[l] = F[l]
      /\ Numbered(DOMAIN G, Cardinality(DOMAIN G), OrderOf(G))
  <2>1. Numbered(DOMAIN F, Cardinality(DOMAIN F), OrderOf(F))
    BY DEF LaidOut
  <2> HIDE DEF at
  <2> QED
    BY <1>0, <2>1, FieldsWithIs
<1>2. /\ U \in Seq(Data) /\ Len(U) = k + pad + Size(type)
      /\ \A i \in 1 .. k : U[i] = R[i]
      /\ \A i \in k + pad + 1 .. k + pad + Size(type) : U[i] = d
  <2>1. PICK size \in Nat : size = Size(type)
    BY <1>0
  <2> DEFINE r == R \o Cellful(pad, Torn) \o Cellful(size, d)
  <2>2. /\ r \in Seq(Data) /\ Len(r) = Len(R) + pad + size /\ Len(R) \in Nat
        /\ \A i \in 1 .. Len(R) : r[i] = R[i]
        /\ \A i \in Len(R) + pad + 1 .. Len(R) + pad + size : r[i] = d
    <3> HIDE DEF pad
    <3> QED
      BY <1>0, Padded
  <2>3. U = r
    BY <2>1
  <2> HIDE DEF r, U, pad
  <2> QED
    BY <2>1, <2>2, <2>3
<1> HIDE DEF G, U, pad
<1>3. n \notin Raws(F) /\ Raws(G) = Raws(F) \cup {n} /\ Ptrs(G) = Ptrs(F)
  <2>1. ~ (type \in Pointer)
    BY DEF ObjectAssumption, Type
  <2> QED
    BY <1>1, <2>1 DEF Ptrs, Raws
<1>4. Numbered(Ptrs(G), Len(V), IndexOf(G))
  <2>2. \A l \in Ptrs(F) : IndexOf(G)[l] = IndexOf(F)[l]
    BY <1>1 DEF IndexOf, Ptrs
  <2>3. Numbered(Ptrs(F), Len(V), IndexOf(F))
    BY DEF LaidOut
  <2> QED
    BY <1>3, <2>2, <2>3, NumberedSame
<1>5. Placed(G, Raws(G), Len(U))
  <2>1. \A l \in Raws(F) : G[l] = F[l] /\ F[l].index \in Nat
    BY <1>1, FieldIs DEF Raws
  <2>2. Placed(F, Raws(F), k)
    BY DEF LaidOut
  <2>3. \A l \in Raws(F) : G[l].index = F[l].index /\ Size(G[l].type) = Size(F[l].type)
    BY <2>1
  <2>4. /\ G[n].index \in Nat /\ k <= G[n].index /\ G[n].index % Size(G[n].type) = 0
        /\ Len(U) = G[n].index + Size(G[n].type)
    BY <1>0, <1>1, <1>2
  <2>5. Placed(G, Raws(F) \cup {n}, Len(U))
    BY <1>0, <1>3, <2>1, <2>2, <2>3, <2>4, PlacedAdd
  <2> QED
    BY <1>3, <2>5
<1>6. HoldsIn(G, V, U, n, d)
  <2>1. ~ (type \in Pointer)
    BY DEF ObjectAssumption, Type
  <2>2. Cells(G[n]) = k + pad + 1 .. k + pad + Size(type)
    BY <1>0, <1>1 DEF Cells
  <2> QED
    BY <1>1, <1>2, <2>1, <2>2 DEF HoldsIn
<1>7. ASSUME NEW l \in DOMAIN F, NEW w \in Data, HoldsIn(F, V, R, l, w)
      PROVE  HoldsIn(G, V, U, l, w)
  <2>1. G[l] = F[l]
    BY <1>1
  <2>2. CASE ~ (F[l].type \in Pointer)
    <3>1. l \in Raws(F)
      BY <2>2, FieldIs DEF Raws
    <3>2. Cells(F[l]) \subseteq 1 .. k
      BY <3>1, PlaceOfField
    <3> QED
      BY <1>2, <1>7, <2>1, <2>2, <3>2 DEF HoldsIn
  <2> QED
    BY <1>7, <2>1, <2>2 DEF HoldsIn
<1>8. LaidOut(G, V, U)
  BY <1>1, <1>4, <1>5 DEF LaidOut
<1> QED
  BY <1>1, <1>2, <1>6, <1>7, <1>8 DEF G, U, pad
(* The object with a new field, part by part. *)
LEMMA AddedFields ==
  ASSUME NEW F, NEW V, NEW R, NEW W, NEW n, NEW type, NEW d
  PROVE  LET pad == Pad(Len(R), type) IN
         /\ type \in Pointer =>
              Added(ObjOf(F, V, R, W), n, type, d) =
                ObjOf(FieldsWith(F, n, type, Len(V)), Append(V, d), R, W)
         /\ type \notin Pointer =>
              Added(ObjOf(F, V, R, W), n, type, d) =
                ObjOf(FieldsWith(F, n, type, Len(R) + pad), V,
                      R \o Cellful(pad, Torn) \o Cellful(Size(type), d), W)
<1> DEFINE pad == Pad(Len(R), type)
           x == ObjOf(F, V, R, W)
           new == R \o Cellful(pad, Torn) \o Cellful(Size(type), d)
<1>1. x.fields = F /\ x.values = V /\ x.raw = R /\ x.virtuals = W
  BY ObjIs
<1>2. CASE type \in Pointer
  <2> DEFINE G == FieldsWith(F, n, type, Len(V))
             U == Append(V, d)
  <2>1. Added(x, n, type, d) = [x EXCEPT !.values = U, !.fields = G]
    BY <1>1, <1>2, Zenon DEF Added
  <2> HIDE DEF G, U
  <2>2. Added(x, n, type, d) = ObjOf(G, U, R, W)
    BY <2>1 DEF ObjOf
  <2> QED
    BY <1>2, <2>2, Zenon DEF G, U
<1>3. CASE type \notin Pointer
  <2> DEFINE G == FieldsWith(F, n, type, Len(R) + pad)
  <2>1. Added(x, n, type, d) = [x EXCEPT !.raw = new, !.fields = G]
    BY <1>1, <1>3, Zenon DEF Added
  <2> HIDE DEF G, new
  <2>2. Added(x, n, type, d) = ObjOf(G, V, new, W)
    BY <2>1 DEF ObjOf
  <2> QED
    BY <1>3, <2>2, Zenon DEF G, new
<1> QED
  BY <1>2, <1>3, Zenon

(* A new field at the end of its array (hl_dynobj_add_field). *)
LEMMA AddedIs ==
  ASSUME ObjectAssumption, NEW x, Typed(x), LaidOut(x.fields, x.values, x.raw),
         NEW n \in Name, n \notin DOMAIN x.fields, NEW type \in Pointer \cup Raw,
         NEW d \in Data
  PROVE  LET y == Added(x, n, type, d) IN
         /\ Typed(y) /\ LaidOut(y.fields, y.values, y.raw) /\ y.virtuals = x.virtuals
         /\ DOMAIN y.fields = DOMAIN x.fields \cup {n} /\ y.fields[n].type = type
         /\ \A l \in DOMAIN x.fields : y.fields[l] = x.fields[l]
         /\ Holds(y, n, d) /\ Keeps(x, y, DOMAIN x.fields)
<1>1. PICK F, V, R, W : /\ x = ObjOf(F, V, R, W)
                        /\ x.fields = F /\ x.values = V /\ x.raw = R /\ x.virtuals = W
  BY Zenon DEF Typed
<1>2. IsFields(F) /\ V \in Seq(Data) /\ R \in Seq(Data) /\ LaidOut(F, V, R)
  BY <1>1, Zenon DEF Typed
<1> DEFINE pad == Pad(Len(R), type)
           Done(G, U, S) ==
             /\ IsFields(G) /\ DOMAIN G = DOMAIN F \cup {n} /\ G[n].type = type
             /\ \A l \in DOMAIN F : G[l] = F[l]
             /\ U \in Seq(Data) /\ S \in Seq(Data) /\ LaidOut(G, U, S) /\ HoldsIn(G, U, S, n, d)
             /\ \A l \in DOMAIN F, w \in Data : HoldsIn(F, V, R, l, w) => HoldsIn(G, U, S, l, w)
           y == Added(x, n, type, d)
<1>3. \E G, U, S : Done(G, U, S) /\ y = ObjOf(G, U, S, W)
  <2>1. n \notin DOMAIN F
    BY <1>1
  <2>2. CASE type \in Pointer
    <3> DEFINE G == FieldsWith(F, n, type, Len(V))
               U == Append(V, d)
    <3>1. Done(G, U, R)
      <4>1. /\ IsFields(G) /\ DOMAIN G = DOMAIN F \cup {n} /\ G[n].type = type
            /\ \A l \in DOMAIN F : G[l] = F[l]
            /\ U \in Seq(Data) /\ LaidOut(G, U, R) /\ HoldsIn(G, U, R, n, d)
            /\ \A l \in DOMAIN F, w \in Data : HoldsIn(F, V, R, l, w) => HoldsIn(G, U, R, l, w)
        BY <1>2, <2>1, <2>2, AddedPointer
      <4> HIDE DEF G, U
      <4> QED
        BY <1>2, <4>1, Zenon
    <3>2. y = ObjOf(G, U, R, W)
      <4>1. Added(ObjOf(F, V, R, W), n, type, d) = ObjOf(G, U, R, W)
        BY <2>2, AddedFields
      <4> QED
        BY <1>1, <4>1, Zenon
    <3> HIDE DEF G, U, Done, y
    <3> QED
      BY <3>1, <3>2
  <2>3. CASE type \notin Pointer
    <3> DEFINE G == FieldsWith(F, n, type, Len(R) + pad)
               U == R \o Cellful(pad, Torn) \o Cellful(Size(type), d)
    <3>1. Done(G, V, U)
      <4>1. type \in Raw
        BY <2>3
      <4>2. /\ IsFields(G) /\ DOMAIN G = DOMAIN F \cup {n} /\ G[n].type = type
            /\ \A l \in DOMAIN F : G[l] = F[l]
            /\ U \in Seq(Data) /\ LaidOut(G, V, U) /\ HoldsIn(G, V, U, n, d)
            /\ \A l \in DOMAIN F, w \in Data : HoldsIn(F, V, R, l, w) => HoldsIn(G, V, U, l, w)
        BY <1>2, <2>1, <4>1, AddedRaw
      <4> HIDE DEF G, U
      <4> QED
        BY <1>2, <4>2, Zenon
    <3>2. y = ObjOf(G, V, U, W)
      <4>1. Added(ObjOf(F, V, R, W), n, type, d) = ObjOf(G, V, U, W)
        BY <2>3, AddedFields
      <4> QED
        BY <1>1, <4>1, Zenon
    <3> HIDE DEF G, U, Done, y
    <3> QED
      BY <3>1, <3>2
  <2> QED
    BY <2>2, <2>3
<1> HIDE DEF y
<1>4. PICK G, U, S : Done(G, U, S) /\ y = ObjOf(G, U, S, W)
  BY <1>3
<1>5. y.fields = G /\ y.values = U /\ y.raw = S /\ y.virtuals = W
  BY <1>4, ObjIs
<1>6. Typed(y)
  BY <1>4, <1>5, Zenon DEF Typed
<1>7. Holds(y, n, d) /\ Keeps(x, y, DOMAIN F)
  <2>1. Holds(y, n, d)
    BY <1>4, <1>5, Zenon DEF Holds
  <2>2. ASSUME NEW l \in DOMAIN F, NEW w \in Data, HoldsIn(F, V, R, l, w)
        PROVE  HoldsIn(G, U, S, l, w)
    BY <1>4, <2>2, Zenon
  <2>3. ASSUME NEW l \in DOMAIN F, NEW w \in Datum, Holds(x, l, w) PROVE Holds(y, l, w)
    <3>1. w \in Data
      BY DEF Data
    <3> QED
      BY <1>1, <1>5, <2>2, <2>3, <3>1, Zenon DEF Holds
  <2>4. \A l \in DOMAIN F : y.fields[l].type = x.fields[l].type
    BY <1>1, <1>4, <1>5
  <2>5. y.virtuals = x.virtuals
    BY <1>1, <1>5
  <2> QED
    BY <1>1, <2>1, <2>3, <2>4, <2>5, Zenon DEF Keeps
<1>8. /\ LaidOut(y.fields, y.values, y.raw) /\ DOMAIN G = DOMAIN F \cup {n} /\ G[n].type = type
      /\ \A l \in DOMAIN F : G[l] = F[l]
  BY <1>4, <1>5, Zenon
<1> HIDE DEF Done
<1>9. y.virtuals = x.virtuals /\ G = y.fields /\ F = x.fields
  BY <1>1, <1>5
<1> QED
  BY <1>6, <1>7, <1>8, <1>9 DEF y
-----------------------------------------------------------------------------
(* The virtuals. *)

Slot(F, v, i) ==
  IF i \in DOMAIN F /\ F[i].type = Declares[v][i] THEN Address(F[i]) ELSE NoField

(* What a view is. *)
LEMMA ViewIs ==
  ASSUME NEW F, NEW v
  PROVE  /\ View(F, v).type = v
         /\ View(F, v) = [type |-> v, slot |-> [i \in DOMAIN Declares[v] |-> Slot(F, v, i)]]
         /\ View(F, v).slot = [i \in DOMAIN Declares[v] |-> Slot(F, v, i)]
BY DEF View, Slot

(* Its address after a move that the address has followed. *)
LEMMA ShiftedIs ==
  ASSUME NEW f, NEW type, NEW array \in {"values", "raw"}
  PROVE  /\ Array(type) \in {"values", "raw"}
         /\ Address(f).array = Array(f.type) /\ Address(f).lag = 0
         /\ Address(f).index = f.index /\ Address(f) # NoField
         /\ NoField.array = "none" /\ NoField.index = 0 /\ NoField.lag = 0
         /\ Shifted(NoField, type, array) = NoField
         /\ f.type = type /\ Array(type) = array =>
              Shifted([Address(f) EXCEPT !.lag = @ + 1], type, array) = Address(f)
         /\ f.type = type /\ Array(type) # array =>
              Shifted(Address(f), type, array) = Address(f)
<1>1. Array(type) \in {"values", "raw"} /\ Array(f.type) \in {"values", "raw"}
  BY DEF Array
<1>2. /\ Address(f).array = Array(f.type) /\ Address(f).lag = 0
      /\ Address(f).index = f.index
      /\ NoField.array = "none" /\ NoField.index = 0 /\ NoField.lag = 0
  BY DEF Address, NoField
<1>3. Address(f) # NoField
  BY <1>1, <1>2
<1>4. Shifted(NoField, type, array) = NoField
  BY DEF Shifted
<1>5. ASSUME f.type = type, Array(type) = array
      PROVE  Shifted([Address(f) EXCEPT !.lag = @ + 1], type, array) = Address(f)
  <2> DEFINE a == [array |-> array, lag |-> 1, index |-> f.index]
  <2>1. [Address(f) EXCEPT !.lag = @ + 1] = a
    BY <1>5 DEF Address
  <2>2. a # NoField
    BY DEF NoField
  <2>3. Shifted(a, type, array) = [a EXCEPT !.lag = @ - 1]
    BY <1>5, <2>2 DEF Shifted
  <2>4. [a EXCEPT !.lag = @ - 1] = [array |-> array, lag |-> 0, index |-> f.index]
    OBVIOUS
  <2> HIDE DEF a
  <2> QED
    BY <1>5, <2>1, <2>3, <2>4 DEF Address
<1>6. ASSUME f.type = type, Array(type) # array
      PROVE  Shifted(Address(f), type, array) = Address(f)
  BY <1>6 DEF Shifted
<1> QED
  BY <1>1, <1>2, <1>3, <1>4, <1>5, <1>6

(* One field looked up again, the others as they were. *)
LEMMA Relooked ==
  ASSUME NEW F, NEW G, NEW v, NEW n \in DOMAIN G, DOMAIN G = DOMAIN F \cup {n},
         \A l \in DOMAIN F : l # n => G[l] = F[l]
  PROVE  Remapped(View(F, v), G[n], n, FALSE) = View(G, v)
<1> DEFINE old == View(F, v)
           New(i) == IF i = n THEN IF Declares[v][n] = G[n].type THEN Address(G[n]) ELSE NoField
                     ELSE old.slot[i]
<1>1. /\ old.type = v /\ old.slot = [i \in DOMAIN Declares[v] |-> Slot(F, v, i)]
      /\ DOMAIN old.slot = DOMAIN Declares[v]
      /\ \A i \in DOMAIN Declares[v] : old.slot[i] = Slot(F, v, i)
  <2>1. old.type = v /\ old.slot = [i \in DOMAIN Declares[v] |-> Slot(F, v, i)]
    BY ViewIs
  <2> HIDE DEF old
  <2> QED
    BY <2>1
<1> HIDE DEF old
<1>2. Remapped(old, G[n], n, FALSE) = [type |-> v, slot |-> [i \in DOMAIN Declares[v] |-> New(i)]]
  BY <1>1 DEF Remapped
<1>3. ASSUME NEW i \in DOMAIN Declares[v] PROVE New(i) = Slot(G, v, i)
  BY <1>1 DEF Slot
<1> HIDE DEF New
<1>4. [i \in DOMAIN Declares[v] |-> New(i)] = [i \in DOMAIN Declares[v] |-> Slot(G, v, i)]
  BY <1>3
<1> QED
  <2>1. View(G, v) = [type |-> v, slot |-> [i \in DOMAIN Declares[v] |-> Slot(G, v, i)]]
    BY DEF View, Slot
  <2> QED
    BY <1>2, <1>4, <2>1 DEF old

(* A new field, whose array was moved. *)
GrownAt(F, G, n) ==
  n \notin DOMAIN F /\ DOMAIN G = DOMAIN F \cup {n} /\ \A l \in DOMAIN F : G[l] = F[l]

AlongWith(view, G, n, array) == Remapped(LeftBehind(view, array), G[n], n, TRUE)

(* The addresses into the moved array are shifted, that of the new field is found. *)
LEMMA MovedAlong ==
  ASSUME NEW F, NEW G, NEW v, NEW n, GrownAt(F, G, n),
         NEW array, array = Array(G[n].type)
  PROVE  AlongWith(View(F, v), G, n, array) = View(G, v)
<1>0. n \notin DOMAIN F /\ DOMAIN G = DOMAIN F \cup {n} /\ \A l \in DOMAIN F : G[l] = F[l]
  BY DEF GrownAt
<1> DEFINE old == View(F, v)
           Left(i) == IF old.slot[i].array = array
                      THEN [old.slot[i] EXCEPT !.lag = @ + 1] ELSE old.slot[i]
           left == LeftBehind(old, array)
           New(i) == IF i = n THEN IF Declares[v][n] = G[n].type THEN Address(G[n]) ELSE NoField
                     ELSE Shifted(left.slot[i], Declares[v][i], array)
<1>1. /\ old.type = v /\ DOMAIN old.slot = DOMAIN Declares[v]
      /\ \A i \in DOMAIN Declares[v] : old.slot[i] = Slot(F, v, i)
  <2>1. old.type = v /\ old.slot = [i \in DOMAIN Declares[v] |-> Slot(F, v, i)]
    BY ViewIs
  <2> HIDE DEF old
  <2> QED
    BY <2>1
<1> HIDE DEF old
<1>2. array \in {"values", "raw"}
  BY DEF Array
<1>3. /\ left.type = v /\ DOMAIN left.slot = DOMAIN Declares[v]
      /\ \A i \in DOMAIN Declares[v] : left.slot[i] = Left(i)
  <2>1. left = [type |-> old.type, slot |-> [i \in DOMAIN old.slot |-> Left(i)]]
    BY DEF LeftBehind
  <2> HIDE DEF left, Left
  <2> QED
    BY <1>1, <2>1
<1>4. Remapped(left, G[n], n, TRUE) = [type |-> v, slot |-> [i \in DOMAIN Declares[v] |-> New(i)]]
  <2> HIDE DEF left
  <2> QED
    BY <1>3 DEF Remapped
<1>5. ASSUME NEW i \in DOMAIN Declares[v] PROVE New(i) = Slot(G, v, i)
  <2> HIDE DEF left
  <2>1. CASE i = n
    BY <1>0, <2>1 DEF Slot
  <2>2. CASE i # n /\ i \in DOMAIN F /\ F[i].type = Declares[v][i]
    <3> DEFINE g == F[i]
               type == Declares[v][i]
    <3>1. old.slot[i] = Address(g) /\ Slot(G, v, i) = Address(g) /\ New(i) = Shifted(Left(i), type, array)
      BY <1>0, <1>1, <1>3, <2>2 DEF Slot
    <3>2. g.type = type /\ Address(g).array = Array(type)
      BY <2>2 DEF Address
    <3> HIDE DEF g, type
    <3>3. CASE Array(type) = array
      <4>1. Left(i) = [Address(g) EXCEPT !.lag = @ + 1]
        BY <3>1, <3>2, <3>3
      <4>2. Shifted([Address(g) EXCEPT !.lag = @ + 1], type, array) = Address(g)
        BY <1>2, <3>2, <3>3, ShiftedIs, Zenon
      <4> HIDE DEF New, Left
      <4> QED
        BY <3>1, <4>1, <4>2
    <3>4. CASE Array(type) # array
      <4>1. Left(i) = Address(g)
        BY <3>1, <3>2, <3>4
      <4>2. Shifted(Address(g), type, array) = Address(g)
        BY <1>2, <3>2, <3>4, ShiftedIs, Zenon
      <4> HIDE DEF New, Left
      <4> QED
        BY <3>1, <4>1, <4>2
    <3> QED
      BY <3>3, <3>4
  <2>3. CASE i # n /\ ~ (i \in DOMAIN F /\ F[i].type = Declares[v][i])
    <3>1. old.slot[i] = NoField /\ Slot(G, v, i) = NoField /\ New(i) = Shifted(Left(i), Declares[v][i], array)
      BY <1>0, <1>1, <1>3, <2>3 DEF Slot
    <3>2. Left(i) = NoField
      <4>1. NoField.array = "none"
        BY DEF NoField
      <4> QED
        BY <1>2, <3>1, <4>1
    <3>3. Shifted(NoField, Declares[v][i], array) = NoField
      BY DEF Shifted
    <3> HIDE DEF New, Left
    <3> QED
      BY <3>1, <3>2, <3>3
  <2> QED
    BY <2>1, <2>2, <2>3
<1> HIDE DEF New, left
<1>6. [i \in DOMAIN Declares[v] |-> New(i)] = [i \in DOMAIN Declares[v] |-> Slot(G, v, i)]
  BY <1>5
<1> QED
  <2>1. View(G, v) = [type |-> v, slot |-> [i \in DOMAIN Declares[v] |-> Slot(G, v, i)]]
    BY DEF View, Slot
  <2> QED
    BY <1>4, <1>6, <2>1 DEF old, left, AlongWith
RelookedViews(W, H, n) == {Remapped(view, H[n], n, FALSE) : view \in W}

Relook(x, n) == RemapVirtuals(x, n, FALSE)

(* The fields looked up, part by part. *)
LEMMA RelookIs ==
  ASSUME NEW F, NEW V, NEW R, NEW W, NEW n
  PROVE  Relook(ObjOf(F, V, R, W), n) = ObjOf(F, V, R, RelookedViews(W, F, n))
<1> DEFINE x == ObjOf(F, V, R, W)
           new == RelookedViews(W, F, n)
<1>1. x.fields = F /\ x.virtuals = W
  BY ObjIs
<1>2. Relook(x, n) = [x EXCEPT !.virtuals = new]
  BY <1>1, Zenon DEF Relook, RemapVirtuals, RelookedViews
<1> HIDE DEF new
<1>3. [x EXCEPT !.virtuals = new] = ObjOf(F, V, R, new)
  BY DEF ObjOf
<1> QED
  BY <1>2, <1>3 DEF new

ViewsBehind(W, array) == {LeftBehind(view, array) : view \in W}

(* An array moved, part by part. *)
LEMMA MovedIs ==
  ASSUME NEW F, NEW V, NEW R, NEW W, NEW array
  PROVE  Moved(ObjOf(F, V, R, W), array)
           = ObjOf(F, V, R, ViewsBehind(W, array))
<1> DEFINE x == ObjOf(F, V, R, W)
           new == ViewsBehind(W, array)
<1>1. x.fields = F /\ x.virtuals = W
  BY ObjIs
<1>2. Moved(x, array) = [x EXCEPT !.virtuals = new]
  BY <1>1, Zenon DEF Moved, ViewsBehind
<1> HIDE DEF new
<1>3. [x EXCEPT !.virtuals = new] = ObjOf(F, V, R, new)
  BY DEF ObjOf
<1> QED
  BY <1>2, <1>3 DEF new

(* All virtuals follow a field that is looked up again, *)
LEMMA RelookedAll ==
  ASSUME NEW F, NEW G, NEW W, NEW n, n \in DOMAIN G, Follows(F, W),
         DOMAIN G = DOMAIN F \cup {n}, \A l \in DOMAIN F : l # n => G[l] = F[l]
  PROVE  Follows(G, RelookedViews(W, G, n))
<1>1. ASSUME NEW view \in W
      PROVE  LET new == Remapped(view, G[n], n, FALSE) IN
             new.type \in Virtual /\ new = View(G, new.type)
  <2>1. PICK v \in Virtual : v = view.type /\ view = View(F, v)
    BY DEF Follows
  <2>2. Remapped(View(F, v), G[n], n, FALSE) = View(G, v)
    BY Relooked
  <2>3. View(G, v).type = v
    BY ViewIs
  <2> QED
    BY <2>1, <2>2, <2>3
<1> QED
  BY <1>1, Zenon DEF Follows, RelookedViews

RegainedViews(W, H, n) == {Remapped(view, H[n], n, TRUE) : view \in W}

(* The virtuals stay those they were, *)
LEMMA SameTypes ==
  ASSUME NEW W
  PROVE  /\ \A H, n : Seen(RelookedViews(W, H, n)) = Seen(W)
         /\ \A H, n : Seen(RegainedViews(W, H, n)) = Seen(W)
         /\ \A array : Seen(ViewsBehind(W, array)) = Seen(W)
<1>1. \A view, f, n, moved : Remapped(view, f, n, moved).type = view.type
  BY DEF Remapped
<1>2. \A view, array : LeftBehind(view, array).type = view.type
  BY DEF LeftBehind
<1>3. ASSUME NEW H, NEW n PROVE Seen(RelookedViews(W, H, n)) = Seen(W)
  <2>1. \A v : v \in Seen(RelookedViews(W, H, n)) <=>
                 \E view \in W : v = Remapped(view, H[n], n, FALSE).type
    BY Zenon DEF Seen, RelookedViews
  <2>2. \A view : Remapped(view, H[n], n, FALSE).type = view.type
    BY <1>1, Zenon
  <2>3. \A v : v \in Seen(RelookedViews(W, H, n)) <=> v \in Seen(W)
    BY <2>1, <2>2, Zenon DEF Seen
  <2> QED
    BY <2>3
<1>4. ASSUME NEW H, NEW n PROVE Seen(RegainedViews(W, H, n)) = Seen(W)
  <2>1. \A v : v \in Seen(RegainedViews(W, H, n)) <=>
                 \E view \in W : v = Remapped(view, H[n], n, TRUE).type
    BY Zenon DEF Seen, RegainedViews
  <2>2. \A view : Remapped(view, H[n], n, TRUE).type = view.type
    BY <1>1, Zenon
  <2>3. \A v : v \in Seen(RegainedViews(W, H, n)) <=> v \in Seen(W)
    BY <2>1, <2>2, Zenon DEF Seen
  <2> QED
    BY <2>3
<1>5. ASSUME NEW array PROVE Seen(ViewsBehind(W, array)) = Seen(W)
  BY <1>2 DEF Seen, ViewsBehind
<1> QED
  BY <1>3, <1>4, <1>5

(* and follow an array that was moved for a new field. *)
LEMMA MovedAll ==
  ASSUME NEW F, NEW G, NEW W, NEW n, Follows(F, W), GrownAt(F, G, n),
         NEW array, array = Array(G[n].type)
  PROVE  Follows(G, RegainedViews(ViewsBehind(W, array), G, n))
<1>1. ASSUME NEW left \in ViewsBehind(W, array)
      PROVE  LET new == Remapped(left, G[n], n, TRUE) IN
             new.type \in Virtual /\ new = View(G, new.type)
  <2>0. PICK view \in W : left = LeftBehind(view, array)
    BY <1>1 DEF ViewsBehind
  <2>1. PICK v \in Virtual : v = view.type /\ view = View(F, v)
    BY DEF Follows
  <2>2. AlongWith(View(F, v), G, n, array) = View(G, v)
    BY MovedAlong
  <2>3. View(G, v).type = v
    BY ViewIs
  <2>4. Remapped(left, G[n], n, TRUE) = View(G, v)
    BY <2>0, <2>1, <2>2, Zenon DEF AlongWith
  <2> QED
    BY <2>1, <2>3, <2>4
<1> QED
  BY <1>1, Zenon DEF Follows, RegainedViews

(* A field is gone. *)
LEMMA ViewWithoutIs ==
  ASSUME ObjectAssumption, NEW F, IsFields(F), NEW v, NEW n \in DOMAIN F
  PROVE  ViewWithout(View(F, v), F[n], n) = View(FieldsWithout(F, n), v)
<1> DEFINE old == View(F, v)
           G == FieldsWithout(F, n)
           New(i) == IF i = n THEN NoField
                     ELSE [old.slot[i] EXCEPT
                             !.index = Lowered(@, Declares[v][i], F[n])]
<1>1. /\ old.type = v /\ DOMAIN old.slot = DOMAIN Declares[v]
      /\ \A i \in DOMAIN Declares[v] : old.slot[i] = Slot(F, v, i)
  <2>1. old.type = v /\ old.slot = [i \in DOMAIN Declares[v] |-> Slot(F, v, i)]
    BY ViewIs
  <2> HIDE DEF old
  <2> QED
    BY <2>1
<1> HIDE DEF old
<1>2. ViewWithout(old, F[n], n) = [type |-> v, slot |-> [i \in DOMAIN Declares[v] |-> New(i)]]
  BY <1>1 DEF ViewWithout
<1>3. /\ DOMAIN G = DOMAIN F \ {n}
      /\ \A l \in DOMAIN F \ {n} :
           G[l].type = F[l].type /\ G[l].index = Lowered(F[l].index, F[l].type, F[n])
  BY DEF FieldsWithout
<1> HIDE DEF G
<1>4. ASSUME NEW i \in DOMAIN Declares[v] PROVE New(i) = Slot(G, v, i)
  <2>1. CASE i = n
    BY <1>3, <2>1 DEF Slot
  <2>2. CASE i # n /\ i \in DOMAIN F /\ F[i].type = Declares[v][i]
    <3>1. old.slot[i] = Address(F[i]) /\ Slot(G, v, i) = Address(G[i])
      BY <1>1, <1>3, <2>2 DEF Slot
    <3>2. G[i].type = F[i].type /\ G[i].index = Lowered(F[i].index, F[i].type, F[n])
      BY <1>3, <2>2
    <3> DEFINE low == Lowered(F[i].index, F[i].type, F[n])
    <3>3. New(i) = [Address(F[i]) EXCEPT !.index = low]
      <4>1. Address(F[i]).index = F[i].index
        BY DEF Address
      <4>2. New(i) = [old.slot[i] EXCEPT !.index = Lowered(@, Declares[v][i], F[n])]
        BY <2>2
      <4>3. New(i) = [Address(F[i]) EXCEPT !.index = Lowered(@, F[i].type, F[n])]
        BY <2>2, <3>1, <4>2
      <4> HIDE DEF New
      <4> QED
        BY <4>1, <4>3 DEF Address
    <3> HIDE DEF low, New
    <3> QED
      BY <3>1, <3>2, <3>3 DEF Address, low
  <2>3. CASE i # n /\ ~ (i \in DOMAIN F /\ F[i].type = Declares[v][i])
    <3>1. old.slot[i] = NoField /\ Slot(G, v, i) = NoField
      BY <1>1, <1>3, <2>3 DEF Slot
    <3>2. Lowered(0, Declares[v][i], F[n]) = 0
      <4>1. F[n].index \in Nat
        BY FieldIs
      <4> QED
        BY <4>1 DEF Lowered
    <3>3. [NoField EXCEPT !.index = Lowered(@, Declares[v][i], F[n])] = NoField
      BY <3>2 DEF NoField
    <3> QED
      BY <2>3, <3>1, <3>3
  <2> QED
    BY <2>1, <2>2, <2>3
<1> HIDE DEF New
<1>5. [i \in DOMAIN Declares[v] |-> New(i)] = [i \in DOMAIN Declares[v] |-> Slot(G, v, i)]
  BY <1>4
<1> QED
  <2>1. View(G, v) = [type |-> v, slot |-> [i \in DOMAIN Declares[v] |-> Slot(G, v, i)]]
    BY DEF View, Slot
  <2> QED
    BY <1>2, <1>5, <2>1 DEF old, G

(* All virtuals follow when a field is deleted. *)
LEMMA WithoutAll ==
  ASSUME ObjectAssumption, NEW F, IsFields(F), NEW n \in DOMAIN F, NEW W, Follows(F, W)
  PROVE  Follows(FieldsWithout(F, n), {ViewWithout(view, F[n], n) : view \in W})
<1> DEFINE G == FieldsWithout(F, n)
<1>1. ASSUME NEW view \in W
      PROVE  LET new == ViewWithout(view, F[n], n) IN
             new.type \in Virtual /\ new = View(G, new.type)
  <2>1. PICK v \in Virtual : v = view.type /\ view = View(F, v)
    BY DEF Follows
  <2>2. ViewWithout(View(F, v), F[n], n) = View(G, v)
    BY ViewWithoutIs
  <2> HIDE DEF G
  <2>3. View(G, v).type = v
    BY ViewIs
  <2> QED
    BY <2>1, <2>2, <2>3
<1> QED
  BY <1>1, Zenon DEF Follows
(* The lookup without a field: the orders above it are one lower. *)
LEMMA FieldsWithoutIs ==
  ASSUME ObjectAssumption, NEW F, IsFields(F), NEW n \in DOMAIN F,
         Numbered(DOMAIN F, Cardinality(DOMAIN F), OrderOf(F))
  PROVE  LET G == FieldsWithout(F, n) IN
         /\ IsFields(G) /\ DOMAIN G = DOMAIN F \ {n}
         /\ \A l \in DOMAIN F \ {n} :
              G[l].type = F[l].type /\ G[l].index = Lowered(F[l].index, F[l].type, F[n])
         /\ Numbered(DOMAIN G, Cardinality(DOMAIN G), OrderOf(G))
<1> DEFINE G == FieldsWithout(F, n)
           k == Cardinality(DOMAIN F)
           Order(l) == IF F[l].order > F[n].order THEN F[l].order - 1 ELSE F[l].order
           Index(l) == Lowered(F[l].index, F[l].type, F[n])
<1>1. /\ DOMAIN G = DOMAIN F \ {n} /\ G = [l \in DOMAIN G |-> G[l]]
      /\ \A l \in DOMAIN F \ {n} :
           G[l] = [type |-> F[l].type, index |-> Index(l), order |-> Order(l)]
  <2>1. G = [l \in DOMAIN F \ {n} |->
               [type |-> F[l].type, index |-> Index(l), order |-> Order(l)]]
    BY DEF FieldsWithout
  <2> HIDE DEF G, Order, Index
  <2> QED
    BY <2>1
<1> HIDE DEF G
<1>2. \A l \in DOMAIN F \ {n} :
        G[l].type = F[l].type /\ G[l].index = Index(l) /\ G[l].order = Order(l)
  <2> HIDE DEF Order, Index
  <2> QED
    BY <1>1
<1>3. ASSUME NEW l \in DOMAIN F \ {n} PROVE G[l] \in FieldRec
  <2>1. F[l].type \in Pointer \cup Raw /\ F[l].index \in Nat /\ F[l].order \in Nat
    BY FieldIs
  <2>2. F[n].index \in Nat /\ F[n].order \in Nat
    BY FieldIs
  <2>3. Order(l) \in Nat /\ Index(l) \in Nat
    BY <2>1, <2>2 DEF Lowered
  <2> HIDE DEF Order, Index
  <2> QED
    BY <1>1, <2>1, <2>3 DEF FieldRec
<1>4. IsFields(G)
  <2>1. DOMAIN F \subseteq Name
    BY DEF IsFields
  <2> QED
    BY <1>1, <1>3, <2>1 DEF IsFields
<1>5. Numbered(DOMAIN F \ {n}, k - 1, OrderOf(G))
  <2>1. \A l \in DOMAIN F : OrderOf(F)[l] = F[l].order
    BY DEF OrderOf
  <2>2. \A l \in DOMAIN F : l # n => OrderOf(G)[l] = Order(l)
    <3> HIDE DEF Order
    <3> QED
      BY <1>1, <1>2 DEF OrderOf
  <2>3. \A l \in DOMAIN F : l # n =>
          OrderOf(G)[l] = IF OrderOf(F)[l] > OrderOf(F)[n] THEN OrderOf(F)[l] - 1
                                                           ELSE OrderOf(F)[l]
    BY <2>1, <2>2
  <2> QED
    BY <2>3, NumberedCut
<1>6. Numbered(DOMAIN G, Cardinality(DOMAIN G), OrderOf(G))
  BY <1>1, <1>5 DEF Numbered
<1> QED
  BY <1>1, <1>2, <1>4, <1>6 DEF G

(* A pointer erased: those above it move down, with their addresses. *)
LEMMA DeletedPointer ==
  ASSUME ObjectAssumption, NEW F, NEW V, NEW R, V \in Seq(Data), R \in Seq(Data),
         IsFields(F), LaidOut(F, V, R), NEW n \in DOMAIN F, F[n].type \in Pointer
  PROVE  LET G == FieldsWithout(F, n)
             U == Erased(V, F[n].index)
         IN
         /\ U \in Seq(Data) /\ LaidOut(G, U, R)
         /\ \A l \in DOMAIN F \ {n}, w \in Datum :
              HoldsIn(F, V, R, l, w) => HoldsIn(G, U, R, l, w)
<1> DEFINE G == FieldsWithout(F, n)
           U == Erased(V, F[n].index)
<1>1. /\ IsFields(G) /\ DOMAIN G = DOMAIN F \ {n}
      /\ \A l \in DOMAIN F \ {n} :
           G[l].type = F[l].type /\ G[l].index = Lowered(F[l].index, F[l].type, F[n])
      /\ Numbered(DOMAIN G, Cardinality(DOMAIN G), OrderOf(G))
  <2>1. Numbered(DOMAIN F, Cardinality(DOMAIN F), OrderOf(F))
    BY DEF LaidOut
  <2> QED
    BY <2>1, FieldsWithoutIs
<1>2. PICK k : k = F[n].index /\ k \in Nat
  BY FieldIs
<1>3. /\ \A l \in Ptrs(F) : F[l].index \in Nat /\ F[l].index + 1 \in 1 .. Len(V)
      /\ \A l \in Raws(F) : Cells(F[l]) \subseteq 1 .. Len(R)
      /\ Len(V) \in Nat /\ n \in Ptrs(F)
  <2>1. \A l \in Ptrs(F) : F[l].index \in Nat
    BY FieldIs DEF Ptrs
  <2>2. n \in Ptrs(F)
    BY DEF Ptrs
  <2> QED
    BY <2>1, <2>2, PlaceOfField
<1>4. /\ U \in Seq(Data) /\ Len(U) = Len(V) - 1
      /\ \A j \in 1 .. Len(V) - 1 : U[j] = IF j < k + 1 THEN V[j] ELSE V[j + 1]
  <2>1. PICK i : i = k + 1 /\ i \in 1 .. Len(V)
    BY <1>2, <1>3
  <2>2. U = RemoveAt(V, i)
    BY <1>2, <2>1 DEF Erased
  <2> HIDE DEF U
  <2>3. /\ RemoveAt(V, i) \in Seq(Data) /\ Len(RemoveAt(V, i)) = Len(V) - 1
        /\ \A j \in 1 .. Len(V) - 1 : RemoveAt(V, i)[j] = IF j < i THEN V[j] ELSE V[j + 1]
    BY <2>1, Removed
  <2> QED
    BY <2>1, <2>2, <2>3
<1> HIDE DEF G, U
<1>5. Ptrs(G) = Ptrs(F) \ {n} /\ Raws(G) = Raws(F) /\ n \notin Raws(F)
  <2>1. ~ (F[n].type \in Raw)
    BY DEF ObjectAssumption, Type
  <2> QED
    BY <1>1, <2>1 DEF Ptrs, Raws
<1>6. \A l \in Ptrs(F) : l # n =>
        G[l].index = IF F[l].index > k THEN F[l].index - 1 ELSE F[l].index
  BY <1>1, <1>2 DEF Lowered, Ptrs
<1>7. \A l \in Raws(F) : G[l].index = F[l].index /\ G[l].type = F[l].type /\ F[l].index \in Nat
  <2> SUFFICES ASSUME NEW l \in Raws(F)
               PROVE  G[l].index = F[l].index /\ G[l].type = F[l].type /\ F[l].index \in Nat
    OBVIOUS
  <2>1. l \in DOMAIN F \ {n} /\ ~ (F[l].type \in Pointer) /\ F[l].index \in Nat
    BY <1>5, FieldIs DEF Raws
  <2> QED
    BY <1>1, <2>1 DEF Lowered
<1>8. Numbered(Ptrs(G), Len(U), IndexOf(G))
  <2>1. Numbered(Ptrs(F), Len(V), IndexOf(F))
    BY DEF LaidOut
  <2>2. \A l \in Ptrs(F) : IndexOf(F)[l] = F[l].index
    BY DEF IndexOf, Ptrs
  <2>3. \A l \in Ptrs(F) : l # n => IndexOf(G)[l] = G[l].index
    BY <1>1 DEF IndexOf, Ptrs
  <2>4. \A l \in Ptrs(F) : l # n =>
          IndexOf(G)[l] = IF IndexOf(F)[l] > IndexOf(F)[n] THEN IndexOf(F)[l] - 1
                                                           ELSE IndexOf(F)[l]
    BY <1>2, <1>3, <1>6, <2>2, <2>3
  <2>5. Numbered(Ptrs(F) \ {n}, Len(V) - 1, IndexOf(G))
    BY <1>3, <2>1, <2>4, NumberedCut
  <2> QED
    BY <1>4, <1>5, <2>5
<1>9. Placed(G, Raws(G), Len(R))
  BY <1>5, <1>7 DEF LaidOut, Placed
<1>10. ASSUME NEW l \in DOMAIN F \ {n}, NEW w \in Datum, HoldsIn(F, V, R, l, w)
       PROVE  HoldsIn(G, U, R, l, w)
  <2>1. CASE F[l].type \in Pointer
    <3>1. l \in Ptrs(F) /\ G[l].type = F[l].type
      BY <1>1, <2>1 DEF Ptrs
    <3>2. PICK i : i = F[l].index /\ i \in Nat /\ i + 1 \in 1 .. Len(V)
      BY <1>3, <3>1
    <3>3. G[l].index = IF i > k THEN i - 1 ELSE i
      BY <1>6, <3>1, <3>2
    <3>4. V[i + 1] = w
      BY <1>10, <2>1, <3>2 DEF HoldsIn
    <3>5. i # k
      <4>1. IndexOf(F)[l] = F[l].index /\ IndexOf(F)[n] = F[n].index
        BY DEF IndexOf
      <4>2. IndexOf(F)[l] # IndexOf(F)[n]
        BY <1>3, <3>1 DEF LaidOut, Numbered
      <4> QED
        BY <1>2, <3>2, <4>1, <4>2
    <3>6. k + 1 \in 1 .. Len(V)
      BY <1>2, <1>3
    <3>7. U[G[l].index + 1] = w
      <4>1. CASE i > k
        <5>1. G[l].index + 1 = i /\ i \in 1 .. Len(V) - 1 /\ ~ (i < k + 1)
          BY <1>2, <1>3, <3>2, <3>3, <3>6, <4>1
        <5> QED
          BY <1>4, <3>4, <5>1
      <4>2. CASE i < k
        <5>1. G[l].index + 1 = i + 1 /\ i + 1 \in 1 .. Len(V) - 1 /\ i + 1 < k + 1
          BY <1>2, <1>3, <3>2, <3>3, <3>6, <4>2
        <5> QED
          BY <1>4, <3>4, <5>1
      <4> QED
        BY <1>2, <3>2, <3>5, <4>1, <4>2
    <3> QED
      BY <2>1, <3>1, <3>7 DEF HoldsIn
  <2>2. CASE ~ (F[l].type \in Pointer)
    <3>1. l \in Raws(F)
      BY <2>2, FieldIs DEF Raws
    <3>2. Cells(G[l]) = Cells(F[l]) /\ G[l].type = F[l].type
      BY <1>7, <3>1 DEF Cells
    <3> QED
      BY <1>10, <2>2, <3>2 DEF HoldsIn
  <2> QED
    BY <2>1, <2>2
<1>11. LaidOut(G, U, R)
  BY <1>1, <1>8, <1>9 DEF LaidOut
<1> QED
  BY <1>4, <1>10, <1>11 DEF G, U
ValuesWithout(F, V, n) == IF F[n].type \in Pointer THEN Erased(V, F[n].index) ELSE V
ViewsWithout(F, W, n) == {ViewWithout(view, F[n], n) : view \in W}

(* The object without a field, part by part. *)
LEMMA DeletedFields ==
  ASSUME NEW F, NEW V, NEW R, NEW W, NEW n
  PROVE  DeleteField(ObjOf(F, V, R, W), n) =
           ObjOf(FieldsWithout(F, n), ValuesWithout(F, V, n), R, ViewsWithout(F, W, n))
<1> DEFINE x == ObjOf(F, V, R, W)
           views == ViewsWithout(F, W, n)
           G == FieldsWithout(F, n)
           U == ValuesWithout(F, V, n)
<1>1. x.fields = F /\ x.values = V /\ x.raw = R /\ x.virtuals = W
  BY ObjIs
<1>2. DeleteField(x, n) = [x EXCEPT !.values = U, !.fields = G, !.virtuals = views]
  BY <1>1, Zenon DEF DeleteField, ValuesWithout, ViewsWithout
<1> HIDE DEF views, G, U
<1>3. DeleteField(x, n) = ObjOf(G, U, R, views)
  BY <1>2 DEF ObjOf
<1> QED
  BY <1>3, Zenon DEF views, G, U

(* Raw data without its field stays, and is nobody's. *)
LEMMA DeletedRaw ==
  ASSUME ObjectAssumption, NEW F, NEW V, NEW R, IsFields(F), LaidOut(F, V, R),
         NEW n \in DOMAIN F, F[n].type \notin Pointer, R \in Seq(Data)
  PROVE  LET G == FieldsWithout(F, n) IN
         /\ LaidOut(G, V, R)
         /\ \A l \in DOMAIN F \ {n}, w \in Datum :
              HoldsIn(F, V, R, l, w) => HoldsIn(G, V, R, l, w)
<1> DEFINE G == FieldsWithout(F, n)
<1>1. /\ IsFields(G) /\ DOMAIN G = DOMAIN F \ {n}
      /\ \A l \in DOMAIN F \ {n} :
           G[l].type = F[l].type /\ G[l].index = Lowered(F[l].index, F[l].type, F[n])
      /\ Numbered(DOMAIN G, Cardinality(DOMAIN G), OrderOf(G))
  <2>1. Numbered(DOMAIN F, Cardinality(DOMAIN F), OrderOf(F))
    BY DEF LaidOut
  <2> QED
    BY <2>1, FieldsWithoutIs
<1> HIDE DEF G
<1>2. \A l \in DOMAIN F \ {n} : G[l].type = F[l].type /\ G[l].index = F[l].index
  BY <1>1 DEF Lowered
<1>3. Ptrs(G) = Ptrs(F) /\ Raws(G) = Raws(F) \ {n}
  BY <1>1, <1>2 DEF Ptrs, Raws
<1>4. Numbered(Ptrs(G), Len(V), IndexOf(G))
  <2>1. Numbered(Ptrs(F), Len(V), IndexOf(F))
    BY DEF LaidOut
  <2>2. \A l \in Ptrs(F) : IndexOf(G)[l] = IndexOf(F)[l]
    BY <1>1, <1>2 DEF IndexOf, Ptrs
  <2> QED
    BY <1>3, <2>1, <2>2, NumberedSame
<1>5. Placed(G, Raws(G), Len(R))
  <2>1. \A l \in Raws(F) : F[l].index \in Nat
    BY FieldIs DEF Raws
  <2>2. \A l \in Raws(G) : G[l].index = F[l].index /\ Size(G[l].type) = Size(F[l].type)
    BY <1>2, <1>3 DEF Raws
  <2>3. Placed(F, Raws(F), Len(R)) /\ Raws(G) \subseteq Raws(F) /\ Len(R) \in Nat
    BY <1>3, Elements DEF LaidOut
  <2>4. Len(R) <= Len(R)
    BY <2>3
  <2> QED
    BY <2>1, <2>2, <2>3, <2>4, PlacedSame
<1>6. ASSUME NEW l \in DOMAIN F \ {n}, NEW w \in Datum, HoldsIn(F, V, R, l, w)
      PROVE  HoldsIn(G, V, R, l, w)
  <2>1. Cells(G[l]) = Cells(F[l]) /\ G[l].type = F[l].type /\ G[l].index = F[l].index
    BY <1>2 DEF Cells
  <2> QED
    BY <1>6, <2>1 DEF HoldsIn
<1>7. LaidOut(G, V, R)
  BY <1>1, <1>4, <1>5 DEF LaidOut
<1> QED
  BY <1>6, <1>7 DEF G

(* A field deleted: the others are as before (hl_dynobj_delete_field). *)
LEMMA DeletedIs ==
  ASSUME ObjectAssumption, NEW x, Valid(x), NEW n \in DOMAIN x.fields
  PROVE  LET y == DeleteField(x, n) IN
         /\ Valid(y) /\ DOMAIN y.fields = DOMAIN x.fields \ {n}
         /\ Keeps(x, y, DOMAIN x.fields \ {n})
<1>1. PICK F, V, R, W : /\ x = ObjOf(F, V, R, W)
                        /\ x.fields = F /\ x.values = V /\ x.raw = R /\ x.virtuals = W
  BY Zenon DEF Valid, Typed
<1>2. IsFields(F) /\ V \in Seq(Data) /\ R \in Seq(Data) /\ LaidOut(F, V, R) /\ Follows(F, W)
  BY <1>1, Zenon DEF Valid, Typed
<1> DEFINE y == DeleteField(x, n)
           G == FieldsWithout(F, n)
           views == ViewsWithout(F, W, n)
           U == ValuesWithout(F, V, n)
<1>3. n \in DOMAIN F
  BY <1>1
<1>4. IsFields(G) /\ DOMAIN G = DOMAIN F \ {n}
  <2>1. Numbered(DOMAIN F, Cardinality(DOMAIN F), OrderOf(F))
    BY <1>2 DEF LaidOut
  <2> QED
    BY <1>2, <1>3, <2>1, FieldsWithoutIs
<1>5. Follows(G, views)
  BY <1>2, <1>3, WithoutAll DEF ViewsWithout
<1>11. /\ Seen(views) = Seen(W)
       /\ \A l \in DOMAIN F \ {n} : G[l].type = F[l].type
  <2>1. \A view, f : ViewWithout(view, f, n).type = view.type
    BY DEF ViewWithout
  <2>2. Seen(views) = Seen(W)
    BY <2>1 DEF Seen, ViewsWithout
  <2> QED
    BY <2>2 DEF FieldsWithout
<1>6. /\ U \in Seq(Data) /\ LaidOut(G, U, R)
      /\ \A l \in DOMAIN F \ {n}, w \in Datum :
           HoldsIn(F, V, R, l, w) => HoldsIn(G, U, R, l, w)
  <2>1. CASE F[n].type \in Pointer
    <3>1. U = Erased(V, F[n].index)
      BY <2>1 DEF ValuesWithout
    <3> HIDE DEF U
    <3> QED
      BY <1>2, <1>3, <2>1, <3>1, DeletedPointer
  <2>2. CASE F[n].type \notin Pointer
    <3>1. U = V
      BY <2>2 DEF ValuesWithout
    <3> HIDE DEF U
    <3> QED
      BY <1>2, <1>3, <2>2, <3>1, DeletedRaw
  <2> QED
    BY <2>1, <2>2
<1>7. y = ObjOf(G, U, R, views)
  <2>1. DeleteField(ObjOf(F, V, R, W), n) = ObjOf(G, U, R, views)
    BY DeletedFields
  <2> HIDE DEF G, U, views
  <2> QED
    BY <1>1, <2>1
<1> HIDE DEF y, G, views, U
<1>8. y.fields = G /\ y.values = U /\ y.raw = R /\ y.virtuals = views
  BY <1>7, ObjIs
<1>9. Valid(y)
  BY <1>2, <1>4, <1>5, <1>6, <1>7, <1>8, Zenon DEF Valid, Typed
<1>10. Keeps(x, y, DOMAIN F \ {n})
  BY <1>1, <1>6, <1>8, <1>11, Zenon DEF Holds, Keeps
<1> QED
  BY <1>1, <1>4, <1>8, <1>9, <1>10, Zenon DEF y
-----------------------------------------------------------------------------
(* Raw data packed. *)

(* Size cells of q behind r and pad cells. *)
IsBehind(s, r, pad, q, i, size) ==
  /\ s \in Seq(Data) /\ Len(s) = Len(r) + pad + size /\ Len(r) \in Nat
  /\ \A j \in 1 .. Len(r) : s[j] = r[j]
  /\ \A j \in 1 .. size : s[Len(r) + pad + j] = q[i + j]

(* Data copied behind r and the padding. *)
LEMMA CopiedBehind ==
  ASSUME NEW r, NEW q, NEW pad, NEW size, NEW i, r \in Seq(Data), q \in Seq(Data),
         pad \in Nat, size \in Nat, i \in Nat, i + size <= Len(q)
  PROVE  IsBehind(r \o Cellful(pad, Torn) \o SubSeq(q, i + 1, i + size), r, pad, q, i, size)
<1> DEFINE a == Cellful(pad, Torn)
           c == SubSeq(q, i + 1, i + size)
           t == r \o a
           s == t \o c
<1>1. Torn \in Data /\ Len(r) \in Nat /\ Len(q) \in Nat
  <2>1. Torn \in Data
    BY DEF Data
  <2> QED
    BY <2>1, Elements
<1>2. a \in Seq(Data) /\ Len(a) = pad
  BY <1>1 DEF Cellful
<1>3. c \in Seq(Data) /\ Len(c) = size /\ \A j \in 1 .. size : c[j] = q[i + j]
  <2>1. PICK lo, hi : lo = i + 1 /\ hi = i + size
    OBVIOUS
  <2>2. lo \in 1 .. Len(q) + 1 /\ hi \in lo - 1 .. Len(q)
    BY <1>1, <2>1
  <2>3. /\ SubSeq(q, lo, hi) \in Seq(Data)
        /\ Len(SubSeq(q, lo, hi)) = IF lo <= hi THEN hi - lo + 1 ELSE 0
        /\ \A j \in 1 .. hi - lo + 1 : SubSeq(q, lo, hi)[j] = q[lo + j - 1]
    <3>1. /\ SubSeq(q, lo, hi) \in Seq(Data)
          /\ Len(SubSeq(q, lo, hi)) = IF lo <= hi THEN hi - lo + 1 ELSE 0
      BY <2>2, SubSeqProperties, Elements
    <3>2. \A j \in 1 .. hi - lo + 1 : SubSeq(q, lo, hi)[j] = q[lo + j - 1]
      BY <2>2, SubSeqProperties, Elements
    <3> QED
      BY <3>1, <3>2
  <2>4. c = SubSeq(q, lo, hi)
    BY <2>1
  <2> HIDE DEF c
  <2>5. \A j \in 1 .. size : j \in 1 .. hi - lo + 1 /\ lo + j - 1 = i + j
    BY <2>1
  <2> QED
    BY <2>1, <2>3, <2>4, <2>5
<1> HIDE DEF a, c
<1>4. /\ t \in Seq(Data) /\ Len(t) = Len(r) + pad
      /\ \A j \in 1 .. Len(r) : t[j] = r[j]
  <2>1. /\ t \in Seq(Data) /\ Len(t) = Len(r) + Len(a)
        /\ \A j \in 1 .. Len(r) + Len(a) : t[j] = IF j <= Len(r) THEN r[j] ELSE a[j - Len(r)]
    BY <1>2, ConcatProperties
  <2> HIDE DEF t
  <2> QED
    BY <1>1, <1>2, <2>1
<1> HIDE DEF t
<1>5. /\ s \in Seq(Data) /\ Len(s) = Len(t) + Len(c)
      /\ \A j \in 1 .. Len(t) + Len(c) : s[j] = IF j <= Len(t) THEN t[j] ELSE c[j - Len(t)]
  BY <1>3, <1>4, ConcatProperties
<1> HIDE DEF s
<1>6. \A j \in 1 .. Len(r) : s[j] = r[j]
  BY <1>1, <1>3, <1>4, <1>5
<1>7. \A j \in 1 .. size : s[Len(r) + pad + j] = q[i + j]
  <2> TAKE j \in 1 .. size
  <2>1. PICK p : p = Len(r) + pad + j
    OBVIOUS
  <2>2. p - Len(t) = j /\ p \in 1 .. Len(t) + Len(c) /\ ~ (p <= Len(t))
    BY <1>1, <1>3, <1>4, <2>1
  <2> QED
    BY <1>3, <1>5, <2>1, <2>2
<1>8. Len(s) = Len(r) + pad + size
  BY <1>1, <1>3, <1>4, <1>5
<1>9. IsBehind(s, r, pad, q, i, size)
  BY <1>1, <1>5, <1>6, <1>7, <1>8 DEF IsBehind
<1> QED
  BY <1>9 DEF s, t, a, c

(* The fields before i have been packed into S. *)
RawsBelow(F, i) == {l \in Raws(F) : l < i}

CellsHold(f, S, w) == \A j \in Cells(f) : S[j] = w

PackedTo(F, R, G, S, i) ==
  /\ IsFields(G) /\ DOMAIN G = DOMAIN F /\ S \in Seq(Data)
  /\ \A l \in DOMAIN F : G[l].type = F[l].type /\ G[l].order = F[l].order
  /\ \A l \in DOMAIN F : l \notin RawsBelow(F, i) => G[l].index = F[l].index
  /\ Placed(G, RawsBelow(F, i), Len(S))
  /\ \A l \in RawsBelow(F, i), w \in Datum : CellsHold(F[l], R, w) => CellsHold(G[l], S, w)

AtIndex(G, n, at) == [G EXCEPT ![n].index = at]

(* One field with another index. *)
LEMMA AtIndexIs ==
  ASSUME NEW G, NEW n, NEW at, IsFields(G), n \in DOMAIN G, at \in Nat
  PROVE  LET H == AtIndex(G, n, at) IN
         /\ IsFields(H) /\ DOMAIN H = DOMAIN G
         /\ H[n].index = at /\ H[n].type = G[n].type /\ H[n].order = G[n].order
         /\ \A l \in DOMAIN G : l # n => H[l] = G[l]
         /\ G[n].index = at => H = G
<1> DEFINE H == AtIndex(G, n, at)
<1>1. G \in [DOMAIN G -> FieldRec] /\ DOMAIN G \subseteq Name
  BY DEF IsFields
<1>2. G[n] \in FieldRec
  BY <1>1
<1>3. DOMAIN H = DOMAIN G /\ H = [l \in DOMAIN G |-> H[l]]
  BY <1>1 DEF AtIndex
<1>4. \A l \in DOMAIN G : l # n => H[l] = G[l]
  BY <1>1 DEF AtIndex
<1>5. H[n] = [type |-> G[n].type, index |-> at, order |-> G[n].order]
  <2>1. H[n] = [G[n] EXCEPT !.index = at]
    BY <1>1 DEF AtIndex
  <2> HIDE DEF H
  <2> QED
    BY <1>2, <2>1 DEF FieldRec
<1> HIDE DEF H
<1>6. H[n].index = at /\ H[n].type = G[n].type /\ H[n].order = G[n].order /\ H[n] \in FieldRec
  BY <1>2, <1>5 DEF FieldRec
<1>7. IsFields(H)
  <2>1. \A l \in DOMAIN G : H[l] \in FieldRec
    BY <1>1, <1>4, <1>6
  <2> QED
    BY <1>1, <1>3, <2>1 DEF IsFields
<1>8. ASSUME G[n].index = at PROVE H = G
  <2>1. H[n] = G[n]
    BY <1>2, <1>5, <1>8 DEF FieldRec
  <2>2. \A l \in DOMAIN G : H[l] = G[l]
    BY <1>4, <2>1
  <2> QED
    BY <1>1, <1>3, <2>2
<1> QED
  BY <1>3, <1>4, <1>6, <1>7, <1>8 DEF H
(* The fields to pack before the next one. *)
LEMMA BelowNext ==
  ASSUME ObjectAssumption, NEW F, IsFields(F), NEW i \in Nat
  PROVE  /\ i \in Raws(F) => RawsBelow(F, i + 1) = RawsBelow(F, i) \cup {i}
         /\ i \notin Raws(F) => RawsBelow(F, i + 1) = RawsBelow(F, i)
         /\ i \notin RawsBelow(F, i)
<1>1. \A l \in Raws(F) : l \in Nat
  BY FieldIs DEF Raws
<1>2. \A l \in Raws(F) : l < i + 1 <=> l < i \/ l = i
  BY <1>1
<1> QED
  BY <1>1, <1>2 DEF RawsBelow

PackedData(S, pad, R, f) ==
  S \o Cellful(pad, Torn) \o SubSeq(R, f.index + 1, f.index + Size(f.type))

(* A place in an interval is its start and an offset. *)
LEMMA Offset ==
  ASSUME NEW a \in Nat, NEW size \in Nat, NEW j \in a + 1 .. a + size
  PROVE  \E e \in Nat : j = a + e /\ e \in 1 .. size
<1>1. j - a \in Nat /\ j = a + (j - a) /\ j - a \in 1 .. size
  OBVIOUS
<1> QED
  BY <1>1

(* One more field packed: those before stay, its data is what it was. *)
LEMMA PackedNext ==
  ASSUME ObjectAssumption, NEW F, NEW R, NEW G, NEW S, NEW i, NEW pad, NEW at,
         IsFields(F), R \in Seq(Data), Placed(F, Raws(F), Len(R)),
         PackedTo(F, R, G, S, i), i \in Nat, i \in Raws(F),
         pad = Pad(Len(S), F[i].type), at = Len(S) + pad
  PROVE  PackedTo(F, R, AtIndex(G, i, at), PackedData(S, pad, R, F[i]), i + 1)
<1> DEFINE f == F[i]
           H == AtIndex(G, i, at)
           T == PackedData(S, pad, R, f)
           old == RawsBelow(F, i)
           new == RawsBelow(F, i + 1)
<1>1. /\ IsFields(G) /\ DOMAIN G = DOMAIN F /\ S \in Seq(Data)
      /\ \A l \in DOMAIN F : G[l].type = F[l].type /\ G[l].order = F[l].order
      /\ \A l \in DOMAIN F : l \notin old => G[l].index = F[l].index
      /\ Placed(G, old, Len(S))
      /\ \A l \in old, w \in Datum : CellsHold(F[l], R, w) => CellsHold(G[l], S, w)
  BY DEF PackedTo
<1>2. i \in DOMAIN F /\ f.index \in Nat
  BY FieldIs DEF Raws
<1>3. PICK size : size \in Nat /\ size = Size(f.type) /\ f.index + size <= Len(R)
  <2>1. Size(f.type) \in Nat
    BY SizeIs
  <2>2. f.index + Size(f.type) <= Len(R)
    BY DEF Placed
  <2> QED
    BY <2>1, <2>2
<1>0. Len(S) \in Nat /\ pad \in Nat /\ at % Size(f.type) = 0
  <2>1. Len(S) \in Nat
    BY <1>1, Elements
  <2>2. PICK k, type : k = Len(S) /\ type = f.type /\ k \in Nat
    BY <2>1
  <2>3. Pad(k, type) \in Nat /\ (k + Pad(k, type)) % Size(type) = 0
    BY <2>2, PadIs
  <2>4. pad = Pad(k, type)
    BY <2>2, Zenon
  <2>5. at = k + pad
    BY <2>2, Zenon
  <2> QED
    BY <2>2, <2>3, <2>4, <2>5, Zenon
<1>4. Len(S) \in Nat /\ pad \in Nat /\ at \in Nat /\ at = Len(S) + pad
  BY <1>0
<1>5. /\ T \in Seq(Data) /\ Len(T) = Len(S) + pad + size
      /\ \A j \in 1 .. Len(S) : T[j] = S[j]
      /\ \A j \in 1 .. size : T[Len(S) + pad + j] = R[f.index + j]
  <2>1. PICK k : k = f.index /\ k \in Nat /\ k + size <= Len(R)
    BY <1>2, <1>3
  <2> DEFINE s == S \o Cellful(pad, Torn) \o SubSeq(R, k + 1, k + size)
  <2>2. IsBehind(s, S, pad, R, k, size)
    BY <1>1, <1>3, <1>4, <2>1, CopiedBehind
  <2>3. T = s
    BY <1>3, <2>1 DEF PackedData
  <2> HIDE DEF s, T
  <2> QED
    BY <2>1, <2>2, <2>3 DEF IsBehind
<1>6. /\ IsFields(H) /\ DOMAIN H = DOMAIN G
      /\ H[i].index = at /\ H[i].type = G[i].type /\ H[i].order = G[i].order
      /\ \A l \in DOMAIN G : l # i => H[l] = G[l]
  <2>1. i \in DOMAIN G
    BY <1>1, <1>2
  <2> QED
    BY <1>1, <1>4, <2>1, AtIndexIs
<1>7. new = old \cup {i} /\ i \notin old
  BY BelowNext
<1> HIDE DEF H, T, old, new, f
<1>8. \A l \in old : l \in DOMAIN F /\ G[l].index \in Nat /\ H[l] = G[l]
  <2>1. \A l \in old : l \in DOMAIN F /\ l # i
    BY <1>7 DEF old, RawsBelow, Raws
  <2>2. \A l \in DOMAIN F : G[l].index \in Nat
    BY <1>1, FieldIs
  <2> QED
    BY <1>1, <1>6, <2>1, <2>2
<1>9. Placed(H, new, Len(T))
  <2>1. \A l \in old : H[l].index = G[l].index /\ Size(H[l].type) = Size(G[l].type)
    BY <1>8
  <2>2. H[i].type = f.type
    BY <1>1, <1>2, <1>6 DEF f
  <2>3. /\ H[i].index \in Nat /\ Len(S) <= H[i].index
        /\ Len(T) = H[i].index + Size(H[i].type)
    BY <1>3, <1>4, <1>5, <1>6, <2>2
  <2>6. H[i].index % Size(H[i].type) = 0
    BY <1>0, <1>6, <2>2, Zenon
  <2>4. \A l \in old : G[l].index \in Nat
    BY <1>8
  <2>5. Placed(H, old \cup {i}, Len(T))
    BY <1>1, <1>4, <1>7, <2>1, <2>3, <2>4, <2>6, PlacedAdd
  <2> QED
    BY <1>7, <2>5
<1>10. ASSUME NEW l \in new, NEW w \in Datum, CellsHold(F[l], R, w)
       PROVE  CellsHold(H[l], T, w)
  <2>1. CASE l \in old
    <3>1. CellsHold(G[l], S, w) /\ H[l] = G[l]
      BY <1>1, <1>8, <1>10, <2>1
    <3>2. Cells(G[l]) \subseteq 1 .. Len(S)
      <4>1. G[l].index + Size(G[l].type) <= Len(S) /\ G[l].index \in Nat
        BY <1>1, <1>8, <2>1 DEF Placed
      <4>2. Size(G[l].type) \in Nat
        BY SizeIs
      <4> QED
        BY <1>4, <4>1, <4>2 DEF Cells
    <3> QED
      BY <1>5, <3>1, <3>2 DEF CellsHold
  <2>2. CASE l = i
    <3>1. \A j \in f.index + 1 .. f.index + size : R[j] = w
      BY <1>3, <1>10, <2>2 DEF CellsHold, Cells, f
    <3>2. H[i].type = f.type
      BY <1>1, <1>2, <1>6 DEF f
    <3>3. Cells(H[i]) = at + 1 .. at + size
      BY <1>3, <1>6, <3>2 DEF Cells
    <3>4. ASSUME NEW j \in at + 1 .. at + size PROVE T[j] = w
      <4>1. PICK e \in Nat : j = at + e /\ e \in 1 .. size
        BY <1>3, <1>4, Offset, Zenon
      <4>2. Len(S) + pad + e = j
        BY <1>4, <4>1, Zenon
      <4>4. f.index + e \in f.index + 1 .. f.index + size
        BY <1>2, <1>3, <4>1, SMTT(60)
      <4>3. T[Len(S) + pad + e] = R[f.index + e]
        BY <1>5, <4>1
      <4> QED
        BY <3>1, <4>2, <4>3, <4>4
    <3> QED
      BY <2>2, <3>3, <3>4 DEF CellsHold
  <2> QED
    BY <1>7, <2>1, <2>2
<1>11. \A l \in DOMAIN F : H[l].type = F[l].type /\ H[l].order = F[l].order
  BY <1>1, <1>2, <1>6
<1>12. \A l \in DOMAIN F : l \notin new => H[l].index = F[l].index
  BY <1>1, <1>6, <1>7
<1>13. DOMAIN H = DOMAIN F
  BY <1>1, <1>6
<1>14. PackedTo(F, R, H, T, i + 1)
  BY <1>5, <1>6, <1>9, <1>10, <1>11, <1>12, <1>13 DEF PackedTo, new
<1> QED
  BY <1>14 DEF H, T, f
WithBoth(x, H, T) == [x EXCEPT !.raw = T, !.fields = H]

(* An object with other raw data and other fields. *)
LEMMA BothSet ==
  ASSUME NEW G, NEW V, NEW S, NEW W, NEW H, NEW T
  PROVE  WithBoth(ObjOf(G, V, S, W), H, T) = ObjOf(H, V, T, W)
<1> DEFINE y == ObjOf(G, V, S, W)
           z == [y EXCEPT !.raw = T]
<1>1. z = ObjOf(G, V, T, W)
  BY DEF ObjOf
<1>2. [ObjOf(G, V, T, W) EXCEPT !.fields = H] = ObjOf(H, V, T, W)
  BY DEF ObjOf
<1>3. WithBoth(y, H, T) = [z EXCEPT !.fields = H]
  BY DEF WithBoth
<1> HIDE DEF z
<1> QED
  BY <1>1, <1>2, <1>3

(* One field packed, part by part. *)
LEMMA PackOneFields ==
  ASSUME NEW G, NEW V, NEW S, NEW W, NEW x, NEW n, NEW pad, NEW at,
         pad = Pad(Len(S), x.fields[n].type), at = Len(S) + pad
  PROVE  LET H == AtIndex(G, n, at)
             T == PackedData(S, pad, x.raw, x.fields[n])
         IN
         /\ at = x.fields[n].index => PackOne(ObjOf(G, V, S, W), x, n) = ObjOf(H, V, T, W)
         /\ at # x.fields[n].index =>
              PackOne(ObjOf(G, V, S, W), x, n) = ObjOf(H, V, T, RelookedViews(W, H, n))
<1> DEFINE H == AtIndex(G, n, at)
           T == PackedData(S, pad, x.raw, x.fields[n])
           y == ObjOf(G, V, S, W)
           packed == [y EXCEPT !.raw = T, !.fields = H]
<1>1. y.fields = G /\ y.values = V /\ y.raw = S /\ y.virtuals = W
  BY ObjIs
<1>2. PackOne(y, x, n) = IF at = x.fields[n].index THEN packed
                         ELSE Relook(packed, n)
  BY <1>1, Zenon DEF PackOne, PackedData, AtIndex, Relook
<1> HIDE DEF H, T
<1>3. packed = ObjOf(H, V, T, W)
  <2>1. WithBoth(ObjOf(G, V, S, W), H, T) = ObjOf(H, V, T, W)
    BY BothSet
  <2> QED
    BY <2>1, Zenon DEF WithBoth
<1> HIDE DEF packed
<1>4. Relook(ObjOf(H, V, T, W), n) = ObjOf(H, V, T, RelookedViews(W, H, n))
  BY RelookIs
<1> HIDE DEF y
<1> QED
  BY <1>2, <1>3, <1>4 DEF H, T, y

IsPacked(x, y, i) ==
  /\ y = ObjOf(y.fields, x.values, y.raw, y.virtuals)
  /\ PackedTo(x.fields, x.raw, y.fields, y.raw, i)
  /\ Follows(y.fields, y.virtuals) /\ Seen(y.virtuals) = Seen(x.virtuals)

(* A step of the loop for raw data, *)
LEMMA PackOneKeeps ==
  ASSUME ObjectAssumption, NEW x, NEW y, NEW i, Valid(x), IsPacked(x, y, i), i \in Nat,
         i \in Raws(x.fields)
  PROVE  IsPacked(x, PackOne(y, x, i), i + 1)
<1>1. PICK F, V, R : x.fields = F /\ x.values = V /\ x.raw = R
  OBVIOUS
<1>2. IsFields(F) /\ R \in Seq(Data) /\ Placed(F, Raws(F), Len(R)) /\ i \in Raws(F)
  BY <1>1 DEF Valid, Typed, LaidOut
<1>3. PICK G, S, W : /\ y = ObjOf(G, V, S, W) /\ PackedTo(F, R, G, S, i) /\ Follows(G, W)
                     /\ Seen(W) = Seen(x.virtuals)
  BY <1>1, Zenon DEF IsPacked
<1>4. PICK pad, at : pad = Pad(Len(S), F[i].type) /\ at = Len(S) + pad
  OBVIOUS
<1> DEFINE H == AtIndex(G, i, at)
           T == PackedData(S, pad, R, F[i])
<1>5. PackedTo(F, R, H, T, i + 1)
  BY <1>2, <1>3, <1>4, PackedNext
<1>6. /\ at = F[i].index => PackOne(ObjOf(G, V, S, W), x, i) = ObjOf(H, V, T, W)
      /\ at # F[i].index =>
           PackOne(ObjOf(G, V, S, W), x, i) = ObjOf(H, V, T, RelookedViews(W, H, i))
  <2>1. pad = Pad(Len(S), x.fields[i].type)
    BY <1>1, <1>4, Zenon
  <2>2. at = Len(S) + pad
    BY <1>4, Zenon
  <2> DEFINE q == x.fields[i]
             D == PackedData(S, pad, x.raw, q)
  <2>3. /\ at = q.index => PackOne(ObjOf(G, V, S, W), x, i) = ObjOf(H, V, D, W)
        /\ at # q.index =>
             PackOne(ObjOf(G, V, S, W), x, i) = ObjOf(H, V, D, RelookedViews(W, H, i))
    BY <2>1, <2>2, PackOneFields
  <2>4. q = F[i] /\ D = T
    BY <1>1
  <2> HIDE DEF q, D, T, H
  <2> QED
    BY <2>3, <2>4
<1>7. i \in DOMAIN G /\ IsFields(G) /\ at \in Nat
  <2>1. i \in DOMAIN G /\ IsFields(G) /\ S \in Seq(Data)
    BY <1>2, <1>3 DEF PackedTo, Raws
  <2>2. Len(S) \in Nat
    BY <2>1, Elements
  <2>3. PICK k, type : k = Len(S) /\ k \in Nat /\ type = F[i].type
    BY <2>2
  <2>4. Pad(k, type) \in Nat
    BY <2>3, PadIs
  <2>5. pad \in Nat
    BY <1>4, <2>3, <2>4, Zenon
  <2> QED
    BY <1>4, <2>1, <2>2, <2>5
<1>8. /\ DOMAIN H = DOMAIN G /\ \A l \in DOMAIN G : l # i => H[l] = G[l]
      /\ G[i].index = at => H = G
  BY <1>7, AtIndexIs
<1>9. G[i].index = F[i].index
  BY <1>2, <1>3, <1>7 DEF PackedTo, RawsBelow, Raws
<1> HIDE DEF H, T
<1>10. \E U : /\ PackOne(y, x, i) = ObjOf(H, V, T, U) /\ Follows(H, U)
             /\ Seen(U) = Seen(x.virtuals)
  <2>1. CASE at = F[i].index
    <3>1. H = G
      BY <1>8, <1>9, <2>1
    <3> QED
      BY <1>3, <1>6, <2>1, <3>1
  <2>2. CASE at # F[i].index
    <3>1. i \in DOMAIN H /\ DOMAIN H = DOMAIN G \cup {i} /\ Follows(G, W)
      BY <1>3, <1>7, <1>8
    <3>2. Follows(H, RelookedViews(W, H, i)) /\ Seen(RelookedViews(W, H, i)) = Seen(W)
      BY <1>8, <3>1, RelookedAll, SameTypes
    <3> QED
      BY <1>3, <1>6, <2>2, <3>2
  <2> QED
    BY <2>1, <2>2
<1>11. PICK U : /\ PackOne(y, x, i) = ObjOf(H, V, T, U) /\ Follows(H, U)
                /\ Seen(U) = Seen(x.virtuals)
  BY <1>10
<1> DEFINE z == PackOne(y, x, i)
<1> HIDE DEF z
<1>12. z = ObjOf(H, V, T, U)
  BY <1>11 DEF z
<1>13. z.fields = H /\ z.raw = T /\ z.virtuals = U
  BY <1>12, ObjIs
<1>14. IsPacked(x, z, i + 1)
  BY <1>1, <1>5, <1>11, <1>12, <1>13, Zenon DEF IsPacked
<1> QED
  BY <1>14 DEF z

(* and one for a name that is none. *)
LEMMA PackSkips ==
  ASSUME ObjectAssumption, NEW x, NEW y, NEW i, Valid(x), IsPacked(x, y, i), i \in Nat,
         i \notin Raws(x.fields)
  PROVE  IsPacked(x, y, i + 1)
<1>1. RawsBelow(x.fields, i + 1) = RawsBelow(x.fields, i)
  BY BelowNext DEF Valid, Typed
<1>2. PackedTo(x.fields, x.raw, y.fields, y.raw, i + 1)
  BY <1>1 DEF IsPacked, PackedTo
<1> QED
  BY <1>2 DEF IsPacked
(* The loop begins with no raw data. *)
LEMMA NothingPacked ==
  ASSUME ObjectAssumption, NEW x, Valid(x)
  PROVE  IsPacked(x, [x EXCEPT !.raw = <<>>], 0)
<1>1. PICK F, V, R, W : /\ x = ObjOf(F, V, R, W)
                        /\ x.fields = F /\ x.values = V /\ x.raw = R /\ x.virtuals = W
  BY Zenon DEF Valid, Typed
<1> DEFINE y == [x EXCEPT !.raw = <<>>]
<1>2. y = ObjOf(F, V, <<>>, W)
  BY <1>1 DEF ObjOf
<1> HIDE DEF y
<1>3. y.fields = F /\ y.raw = <<>> /\ y.virtuals = W
  BY <1>2, ObjIs
<1>4. IsFields(F) /\ Follows(F, W)
  BY <1>1, Zenon DEF Valid, Typed
<1>5. RawsBelow(F, 0) = {}
  <2>1. \A l \in Raws(F) : l \in Nat
    BY <1>4, FieldIs DEF Raws
  <2> QED
    BY <2>1 DEF RawsBelow
<1>6. PackedTo(F, R, F, <<>>, 0)
  <2>1. <<>> \in Seq(Data)
    OBVIOUS
  <2>2. Placed(F, {}, Len(<<>>))
    BY DEF Placed
  <2> QED
    BY <1>4, <1>5, <2>1, <2>2 DEF PackedTo
<1>7. IsPacked(x, y, 0)
  BY <1>1, <1>2, <1>3, <1>4, <1>6, Zenon DEF IsPacked
<1> QED
  BY <1>7 DEF y

(* The loop over the names: what it packs is as the invariant of the loop says. *)
LEMMA PackedIs ==
  ASSUME ObjectAssumption, NEW x, Valid(x)
  PROVE  IsPacked(x, Packed(x), LastName + 1)
<1> DEFINE start == [x EXCEPT !.raw = <<>>]
           Next1(i, q) == IF i - 1 \in RawFields(x) THEN PackOne(q, x, i - 1) ELSE q
           Upto(k, g) == g = [i \in 0 .. k |-> IF i = 0 THEN start ELSE Next1(i, g[i - 1])]
           K == LastName + 1
<1>1. K \in Nat /\ LastName \in Nat
  BY DEF ObjectAssumption, Type
<1>2. IsPacked(x, start, 0)
  BY NothingPacked
<1>3. ASSUME NEW i \in Nat, NEW q, IsPacked(x, q, i) PROVE IsPacked(x, Next1(i + 1, q), i + 1)
  <2>1. (i + 1) - 1 = i /\ RawFields(x) = Raws(x.fields)
    BY DEF RawFields, Raws
  <2>2. CASE i \in Raws(x.fields)
    <3>1. Next1(i + 1, q) = PackOne(q, x, i)
      BY <2>1, <2>2
    <3>2. IsPacked(x, PackOne(q, x, i), i + 1)
      BY <1>3, <2>2, PackOneKeeps
    <3> QED
      BY <3>1, <3>2
  <2>3. CASE i \notin Raws(x.fields)
    <3>1. Next1(i + 1, q) = q
      BY <2>1, <2>3
    <3>2. IsPacked(x, q, i + 1)
      BY <1>3, <2>3, PackSkips
    <3> QED
      BY <3>1, <3>2
  <2> QED
    BY <2>2, <2>3
<1> HIDE DEF Next1, start
<1>4. \A k \in Nat : \E g : Upto(k, g)
  <2> DEFINE T == {k \in Nat : \E g : Upto(k, g)}
  <2>1. 0 \in T
    <3> DEFINE g == [i \in 0 .. 0 |-> start]
    <3>1. Upto(0, g)
      OBVIOUS
    <3> HIDE DEF Upto
    <3> QED
      BY <3>1
  <2>2. ASSUME NEW k \in Nat, k \in T PROVE k + 1 \in T
    <3>1. PICK g : Upto(k, g)
      BY <2>2
    <3> DEFINE h == [i \in 0 .. k + 1 |-> IF i = k + 1 THEN Next1(k + 1, g[k]) ELSE g[i]]
    <3>2. ASSUME NEW i \in 0 .. k + 1
          PROVE  h[i] = IF i = 0 THEN start ELSE Next1(i, h[i - 1])
      <4>1. CASE i = 0
        BY <3>1, <4>1
      <4>2. CASE i = k + 1
        <5>1. h[i] = Next1(k + 1, g[k]) /\ h[i - 1] = g[k] /\ i # 0
          BY <4>2
        <5> QED
          BY <4>2, <5>1
      <4>3. CASE i # 0 /\ i # k + 1
        <5>1. i \in 0 .. k /\ i - 1 \in 0 .. k /\ i - 1 # k + 1 /\ i - 1 \in 0 .. k + 1
          BY <4>3
        <5>2. h[i] = g[i] /\ h[i - 1] = g[i - 1]
          BY <4>3, <5>1
        <5>3. g[i] = Next1(i, g[i - 1])
          BY <3>1, <4>3, <5>1
        <5> QED
          BY <4>3, <5>2, <5>3
      <4> QED
        BY <4>1, <4>2, <4>3
    <3>3. Upto(k + 1, h)
      <4>1. h = [i \in 0 .. k + 1 |-> h[i]]
        OBVIOUS
      <4> HIDE DEF h
      <4> QED
        BY <3>2, <4>1
    <3> HIDE DEF h, Upto
    <3> QED
      BY <3>3
  <2> HIDE DEF T
  <2>3. \A k \in Nat : k \in T
    BY <2>1, <2>2, Induction
  <2> QED
    BY <2>3 DEF T
<1> DEFINE filled == CHOOSE h : Upto(K, h)
<1>5. Packed(x) = filled[K]
  BY DEF Packed, Next1, start
<1>6. Upto(K, filled)
  <2>1. \E h : Upto(K, h)
    <3> HIDE DEF Upto, K
    <3> QED
      BY <1>1, <1>4
  <2> HIDE DEF Upto
  <2> QED
    BY <2>1, Zenon
<1> HIDE DEF filled
<1> DEFINE S == {i \in Nat : i <= K => IsPacked(x, filled[i], i)}
<1>7. \A i \in Nat : i \in S
  <2>1. 0 \in S
    <3>1. filled[0] = start
      BY <1>1, <1>6
    <3> QED
      BY <1>2, <3>1
  <2>2. ASSUME NEW i \in Nat, i \in S PROVE i + 1 \in S
    <3>1. SUFFICES ASSUME i + 1 <= K PROVE IsPacked(x, filled[i + 1], i + 1)
      OBVIOUS
    <3>2. i + 1 \in 0 .. K /\ (i + 1) - 1 = i /\ IsPacked(x, filled[i], i) /\ i + 1 # 0
      BY <1>1, <2>2, <3>1
    <3>3. filled[i + 1] = Next1(i + 1, filled[i])
      BY <1>6, <3>2
    <3> QED
      BY <1>3, <3>2, <3>3
  <2> HIDE DEF S
  <2> QED
    BY <2>1, <2>2, Induction
<1>8. IsPacked(x, filled[K], K)
  <2>1. K \in S /\ K <= K
    BY <1>1, <1>7
  <2> QED
    BY <2>1
<1> QED
  BY <1>5, <1>8

(* Packing moves the raw data and changes nothing else. *)
LEMMA PackedValid ==
  ASSUME ObjectAssumption, NEW x, Valid(x)
  PROVE  LET y == Packed(x) IN
         Valid(y) /\ DOMAIN y.fields = DOMAIN x.fields /\ Keeps(x, y, DOMAIN x.fields)
<1> DEFINE y == Packed(x)
           K == LastName + 1
<1>1. IsPacked(x, y, K)
  BY PackedIs
<1> HIDE DEF y
<1>2. PICK F, V, R, G, S, W :
        /\ x.fields = F /\ x.values = V /\ x.raw = R
        /\ y.fields = G /\ y.raw = S /\ y.virtuals = W
  OBVIOUS
<1>3. /\ y = ObjOf(G, V, S, W) /\ PackedTo(F, R, G, S, K) /\ Follows(G, W)
      /\ Seen(W) = Seen(x.virtuals)
  BY <1>1, <1>2, Zenon DEF IsPacked
<1>4. IsFields(F) /\ LaidOut(F, V, R) /\ V \in Seq(Data) /\ R \in Seq(Data)
  BY <1>2, Zenon DEF Valid, Typed
<1>5. y.values = V
  BY <1>3, ObjIs
<1>6. RawsBelow(F, K) = Raws(F)
  <2>1. \A l \in DOMAIN F : l \in Nat /\ l < K
    <3>1. DOMAIN F \subseteq Name
      BY <1>4 DEF IsFields
    <3>2. Name \subseteq 0 .. LastName /\ LastName \in Nat
      BY DEF ObjectAssumption, Type
    <3>3. \A i \in 0 .. LastName : i \in Nat /\ i < K
      BY <3>2
    <3> HIDE DEF K
    <3> QED
      BY <3>1, <3>2, <3>3
  <2> HIDE DEF K
  <2> QED
    BY <2>1 DEF RawsBelow, Raws
<1>7. /\ IsFields(G) /\ DOMAIN G = DOMAIN F /\ S \in Seq(Data)
      /\ \A l \in DOMAIN F : G[l].type = F[l].type /\ G[l].order = F[l].order
      /\ \A l \in DOMAIN F : l \notin Raws(F) => G[l].index = F[l].index
      /\ Placed(G, Raws(F), Len(S))
      /\ \A l \in Raws(F), w \in Datum : CellsHold(F[l], R, w) => CellsHold(G[l], S, w)
  <2> HIDE DEF K
  <2> QED
    BY <1>3, <1>6 DEF PackedTo
<1> HIDE DEF K
<1>8. Raws(G) = Raws(F) /\ Ptrs(G) = Ptrs(F)
  BY <1>7 DEF Raws, Ptrs
<1>9. \A l \in Ptrs(F) : l \in DOMAIN F /\ l \notin Raws(F) /\ G[l].index = F[l].index
  <2>1. \A l \in Ptrs(F) : l \in DOMAIN F /\ l \notin Raws(F)
    BY DEF ObjectAssumption, Type, Ptrs, Raws
  <2> QED
    BY <1>7, <2>1
<1>10. LaidOut(G, V, S)
  <2>1. Numbered(Ptrs(G), Len(V), IndexOf(G))
    <3>1. Numbered(Ptrs(F), Len(V), IndexOf(F))
      BY <1>4 DEF LaidOut
    <3>2. \A l \in Ptrs(F) : IndexOf(G)[l] = IndexOf(F)[l]
      BY <1>7, <1>9 DEF IndexOf
    <3> QED
      BY <1>8, <3>1, <3>2, NumberedSame
  <2>2. Numbered(DOMAIN G, Cardinality(DOMAIN G), OrderOf(G))
    <3>1. Numbered(DOMAIN F, Cardinality(DOMAIN F), OrderOf(F))
      BY <1>4 DEF LaidOut
    <3>2. \A l \in DOMAIN F : OrderOf(G)[l] = OrderOf(F)[l]
      BY <1>7 DEF OrderOf
    <3> QED
      BY <1>7, <3>1, <3>2, NumberedSame
  <2> QED
    BY <1>7, <1>8, <2>1, <2>2 DEF LaidOut
<1>11. Valid(y)
  <2>1. Typed(y)
    BY <1>2, <1>3, <1>4, <1>5, <1>7, Zenon DEF Typed
  <2> QED
    BY <1>2, <1>3, <1>5, <1>10, <2>1, Zenon DEF Valid
<1>12. ASSUME NEW l \in DOMAIN F, NEW w \in Datum, HoldsIn(F, V, R, l, w)
       PROVE  HoldsIn(G, V, S, l, w)
  <2>1. CASE F[l].type \in Pointer
    <3>1. l \in Ptrs(F)
      BY <2>1 DEF Ptrs
    <3>2. G[l].index = F[l].index /\ G[l].type = F[l].type
      BY <1>7, <1>9, <3>1
    <3>3. V[F[l].index + 1] = w
      BY <1>12, <2>1, Zenon DEF HoldsIn
    <3> QED
      BY <2>1, <3>2, <3>3 DEF HoldsIn
  <2>2. CASE F[l].type \notin Pointer
    <3>1. l \in Raws(F)
      BY <1>4, <2>2, FieldIs DEF Raws
    <3>2. CellsHold(F[l], R, w)
      BY <1>12, <2>2 DEF HoldsIn, CellsHold
    <3>3. CellsHold(G[l], S, w)
      BY <1>7, <3>1, <3>2
    <3> QED
      BY <1>7, <2>2, <3>3 DEF HoldsIn, CellsHold
  <2> QED
    BY <2>1, <2>2
<1>13. Keeps(x, y, DOMAIN F)
  BY <1>2, <1>3, <1>5, <1>7, <1>12, Zenon DEF Holds, Keeps
<1> QED
  BY <1>2, <1>7, <1>11, <1>13, Zenon DEF y
-----------------------------------------------------------------------------
(* A field added, where the array it goes to moves. *)
Regain(x, n) == RemapVirtuals(x, n, TRUE)

(* The fields looked up with the shift, part by part. *)
LEMMA RegainIs ==
  ASSUME NEW F, NEW V, NEW R, NEW W, NEW n
  PROVE  Regain(ObjOf(F, V, R, W), n) = ObjOf(F, V, R, RegainedViews(W, F, n))
<1> DEFINE x == ObjOf(F, V, R, W)
           new == RegainedViews(W, F, n)
<1>1. x.fields = F /\ x.virtuals = W
  BY ObjIs
<1>2. Regain(x, n) = [x EXCEPT !.virtuals = new]
  BY <1>1, Zenon DEF Regain, RemapVirtuals, RegainedViews
<1> HIDE DEF new
<1>3. [x EXCEPT !.virtuals = new] = ObjOf(F, V, R, new)
  BY DEF ObjOf
<1> QED
  BY <1>2, <1>3 DEF new

Grown(x, n, type) == Regain(Moved(Added(x, n, type, Torn), Array(type)), n)

(* A field added at the end of an array that moves: the others are as before. *)
LEMMA GrownIs ==
  ASSUME ObjectAssumption, NEW x, Valid(x), NEW n \in Name, n \notin DOMAIN x.fields,
         NEW type \in Pointer \cup Raw
  PROVE  LET y == Grown(x, n, type) IN
         /\ Valid(y) /\ DOMAIN y.fields = DOMAIN x.fields \cup {n}
         /\ y.fields[n].type = type /\ Keeps(x, y, DOMAIN x.fields)
<1> DEFINE z == Added(x, n, type, Torn)
           array == Array(type)
           y == Grown(x, n, type)
<1>1. /\ Typed(z) /\ LaidOut(z.fields, z.values, z.raw) /\ z.virtuals = x.virtuals
      /\ DOMAIN z.fields = DOMAIN x.fields \cup {n} /\ z.fields[n].type = type
      /\ \A l \in DOMAIN x.fields : z.fields[l] = x.fields[l]
      /\ Keeps(x, z, DOMAIN x.fields)
  <2>1. Torn \in Data /\ Typed(x) /\ LaidOut(x.fields, x.values, x.raw)
    BY DEF Data, Valid
  <2> QED
    BY <2>1, AddedIs
<1>2. y = Regain(Moved(z, array), n)
  BY DEF Grown
<1> HIDE DEF z, array, y
<1>3. PICK F, G, V, R, W :
        /\ z = ObjOf(G, V, R, W) /\ x.fields = F
        /\ z.fields = G /\ z.values = V /\ z.raw = R /\ z.virtuals = W
  BY <1>1, Zenon DEF Typed
<1> DEFINE left == ViewsBehind(W, array)
           new == RegainedViews(left, G, n)
<1>4. y = ObjOf(G, V, R, new)
  <2>1. Moved(ObjOf(G, V, R, W), array) = ObjOf(G, V, R, left)
    BY MovedIs
  <2> HIDE DEF left
  <2>2. Regain(ObjOf(G, V, R, left), n) = ObjOf(G, V, R, new)
    BY RegainIs
  <2> HIDE DEF new
  <2> QED
    BY <1>2, <1>3, <2>1, <2>2
<1>5. Follows(G, new)
  <2>1. Follows(F, W)
    BY <1>1, <1>3 DEF Valid
  <2>2. GrownAt(F, G, n)
    BY <1>1, <1>3 DEF GrownAt
  <2>3. array = Array(G[n].type)
    BY <1>1, <1>3 DEF array
  <2> QED
    BY <2>1, <2>2, <2>3, MovedAll
<1>9. Seen(new) = Seen(W)
  BY SameTypes
<1> HIDE DEF new
<1>6. y.fields = G /\ y.values = V /\ y.raw = R /\ y.virtuals = new
  BY <1>4, ObjIs
<1>7. Valid(y)
  <2>1. IsFields(G) /\ V \in Seq(Data) /\ R \in Seq(Data) /\ LaidOut(G, V, R)
    BY <1>1, <1>3, Zenon DEF Typed
  <2>2. Typed(y)
    BY <1>4, <1>6, <2>1, Zenon DEF Typed
  <2> QED
    BY <1>5, <1>6, <2>1, <2>2, Zenon DEF Valid
<1>8. Keeps(x, y, DOMAIN F)
  BY <1>1, <1>3, <1>6, <1>9, Zenon DEF Keeps, Holds
<1> QED
  BY <1>1, <1>3, <1>6, <1>7, <1>8 DEF y

(* hl_dynobj_add_field: the others are as before. *)
LEMMA AddFieldIs ==
  ASSUME ObjectAssumption, NEW x, Valid(x), NEW n \in Name, n \notin DOMAIN x.fields,
         NEW type \in Pointer \cup Raw
  PROVE  LET y == AddField(x, n, type) IN
         /\ Valid(y) /\ DOMAIN y.fields = DOMAIN x.fields \cup {n}
         /\ y.fields[n].type = type /\ Keeps(x, y, DOMAIN x.fields)
<1> DEFINE y == AddField(x, n, type)
           p == Packed(x)
<1>1. y = Grown(p, n, type) \/ y = Grown(x, n, type)
  BY Zenon DEF AddField, Grown, Regain
<1>2. Valid(p) /\ DOMAIN p.fields = DOMAIN x.fields /\ Keeps(x, p, DOMAIN x.fields)
  BY PackedValid
<1> HIDE DEF y, p
<1>3. CASE y = Grown(x, n, type)
  <2> DEFINE z == Grown(x, n, type)
  <2>1. /\ Valid(z) /\ DOMAIN z.fields = DOMAIN x.fields \cup {n}
        /\ z.fields[n].type = type /\ Keeps(x, z, DOMAIN x.fields)
    BY GrownIs
  <2> HIDE DEF z
  <2> QED
    BY <1>3, <2>1 DEF z, y
<1>4. CASE y = Grown(p, n, type)
  <2> DEFINE z == Grown(p, n, type)
  <2>1. /\ Valid(z) /\ DOMAIN z.fields = DOMAIN p.fields \cup {n}
        /\ z.fields[n].type = type /\ Keeps(p, z, DOMAIN p.fields)
    BY <1>2, GrownIs
  <2> HIDE DEF z
  <2>2. Keeps(x, z, DOMAIN x.fields)
    BY <1>2, <2>1, Zenon DEF Keeps
  <2>3. y = z
    BY <1>4 DEF z
  <2> QED
    BY <1>2, <2>1, <2>2, <2>3 DEF y
<1> QED
  BY <1>1, <1>3, <1>4

(* A field with another type of the same array and size. *)
Retyped(F, n, type) == [F EXCEPT ![n].type = type]

(* The lookup with a field of another type. *)
LEMMA RetypedIs ==
  ASSUME NEW F, IsFields(F), NEW n, n \in DOMAIN F, NEW type, type \in Pointer \cup Raw
  PROVE  LET G == Retyped(F, n, type) IN
         /\ IsFields(G) /\ DOMAIN G = DOMAIN F
         /\ G[n].type = type /\ G[n].index = F[n].index /\ G[n].order = F[n].order
         /\ \A l \in DOMAIN F : l # n => G[l] = F[l]
<1> DEFINE G == Retyped(F, n, type)
<1>1. F \in [DOMAIN F -> FieldRec] /\ DOMAIN F \subseteq Name
  BY DEF IsFields
<1>2. F[n] \in FieldRec
  BY <1>1
<1>3. DOMAIN G = DOMAIN F /\ G = [l \in DOMAIN F |-> G[l]]
  BY <1>1 DEF Retyped
<1>4. \A l \in DOMAIN F : l # n => G[l] = F[l]
  BY <1>1 DEF Retyped
<1>5. G[n] = [type |-> type, index |-> F[n].index, order |-> F[n].order]
  <2>1. G[n] = [F[n] EXCEPT !.type = type]
    BY <1>1 DEF Retyped
  <2> HIDE DEF G
  <2> QED
    BY <1>2, <2>1 DEF FieldRec
<1> HIDE DEF G
<1>6. /\ G[n].type = type /\ G[n].index = F[n].index /\ G[n].order = F[n].order
      /\ G[n] \in FieldRec
  BY <1>2, <1>5 DEF FieldRec
<1>7. IsFields(G)
  <2>1. \A l \in DOMAIN F : G[l] \in FieldRec
    BY <1>1, <1>4, <1>6
  <2> QED
    BY <1>1, <1>3, <2>1 DEF IsFields
<1> QED
  BY <1>3, <1>4, <1>6, <1>7 DEF G
RetypedObj(x, n, type) ==
  RemapVirtuals([x EXCEPT !.fields = [@ EXCEPT ![n].type = type]], n, FALSE)

(* The object with a field of another type, part by part. *)
LEMMA RetypeFields ==
  ASSUME NEW F, NEW V, NEW R, NEW W, NEW n, NEW type
  PROVE  RetypedObj(ObjOf(F, V, R, W), n, type)
           = ObjOf(Retyped(F, n, type), V, R, RelookedViews(W, Retyped(F, n, type), n))
<1> DEFINE x == ObjOf(F, V, R, W)
           G == Retyped(F, n, type)
           y == [x EXCEPT !.fields = [@ EXCEPT ![n].type = type]]
<1>1. x.fields = F
  BY ObjIs
<1>2. y = [x EXCEPT !.fields = G]
  BY <1>1, Zenon DEF Retyped
<1> HIDE DEF G, y
<1>3. y = ObjOf(G, V, R, W)
  BY <1>2 DEF ObjOf
<1>4. Relook(ObjOf(G, V, R, W), n) = ObjOf(G, V, R, RelookedViews(W, G, n))
  BY RelookIs
<1>5. RetypedObj(x, n, type) = Relook(y, n)
  BY Zenon DEF Relook, RetypedObj, y
<1> QED
  BY <1>3, <1>4, <1>5, Zenon DEF G

(* Another type of the same array and size leaves the layout as it is. *)
LEMMA RetypedValid ==
  ASSUME ObjectAssumption, NEW x, Valid(x), NEW n, n \in DOMAIN x.fields, NEW type,
         type \in Pointer \cup Raw,
         Array(x.fields[n].type) = Array(type), Size(x.fields[n].type) = Size(type)
  PROVE  LET y == RetypedObj(x, n, type) IN
         /\ Valid(y) /\ DOMAIN y.fields = DOMAIN x.fields
         /\ y.fields[n].type = type /\ Keeps(x, y, DOMAIN x.fields \ {n})
<1>1. PICK F, V, R, W : /\ x = ObjOf(F, V, R, W)
                        /\ x.fields = F /\ x.values = V /\ x.raw = R /\ x.virtuals = W
  BY Zenon DEF Valid, Typed
<1>2. IsFields(F) /\ V \in Seq(Data) /\ R \in Seq(Data) /\ LaidOut(F, V, R) /\ Follows(F, W)
  BY <1>1, Zenon DEF Valid, Typed
<1> DEFINE G == Retyped(F, n, type)
           new == RelookedViews(W, G, n)
           y == RetypedObj(x, n, type)
<1>3. n \in DOMAIN F
  BY <1>1
<1>4. y = ObjOf(G, V, R, new)
  <2>1. RetypedObj(ObjOf(F, V, R, W), n, type) = ObjOf(G, V, R, new)
    BY RetypeFields
  <2> QED
    BY <1>1, <2>1, Zenon
<1>5. /\ IsFields(G) /\ DOMAIN G = DOMAIN F
      /\ G[n].type = type /\ G[n].index = F[n].index /\ G[n].order = F[n].order
      /\ \A l \in DOMAIN F : l # n => G[l] = F[l]
  BY <1>2, <1>3, RetypedIs
<1> HIDE DEF G, y
<1>6. Follows(G, new)
  <2>1. n \in DOMAIN G /\ DOMAIN G = DOMAIN F \cup {n}
    BY <1>3, <1>5
  <2> QED
    BY <1>2, <1>5, <2>1, RelookedAll
<1>14. Seen(new) = Seen(W)
  BY SameTypes
<1> HIDE DEF new
<1>7. y.fields = G /\ y.values = V /\ y.raw = R /\ y.virtuals = new
  BY <1>4, ObjIs
<1>8. Ptrs(G) = Ptrs(F) /\ Raws(G) = Raws(F)
  <2>1. F[n].type \in Pointer <=> type \in Pointer
    BY <1>1 DEF Array
  <2>2. F[n].type \in Raw <=> type \in Raw
    <3>1. F[n].type \in Pointer \cup Raw /\ ~ (F[n].type \in Pointer /\ F[n].type \in Raw)
      BY <1>2, <1>3, FieldIs
    <3>2. ~ (type \in Pointer /\ type \in Raw)
      BY DEF ObjectAssumption, Type
    <3> QED
      BY <2>1, <3>1, <3>2
  <2> QED
    BY <1>3, <1>5, <2>1, <2>2 DEF Ptrs, Raws
<1>9. \A l \in DOMAIN F : /\ G[l].index = F[l].index /\ G[l].order = F[l].order
                          /\ Size(G[l].type) = Size(F[l].type)
  BY <1>1, <1>5
<1>10. LaidOut(G, V, R)
  <2>1. Numbered(Ptrs(G), Len(V), IndexOf(G))
    <3>1. Numbered(Ptrs(F), Len(V), IndexOf(F))
      BY <1>2 DEF LaidOut
    <3>2. \A l \in Ptrs(F) : IndexOf(G)[l] = IndexOf(F)[l]
      BY <1>5, <1>9 DEF IndexOf, Ptrs
    <3> QED
      BY <1>8, <3>1, <3>2, NumberedSame
  <2>2. Numbered(DOMAIN G, Cardinality(DOMAIN G), OrderOf(G))
    <3>1. Numbered(DOMAIN F, Cardinality(DOMAIN F), OrderOf(F))
      BY <1>2 DEF LaidOut
    <3>2. \A l \in DOMAIN F : OrderOf(G)[l] = OrderOf(F)[l]
      BY <1>5, <1>9 DEF OrderOf
    <3> QED
      BY <1>5, <3>1, <3>2, NumberedSame
  <2>3. Placed(G, Raws(G), Len(R))
    <3>1. \A l \in Raws(F) : F[l].index \in Nat
      BY <1>2, FieldIs DEF Raws
    <3>2. \A l \in Raws(G) : G[l].index = F[l].index /\ Size(G[l].type) = Size(F[l].type)
      BY <1>8, <1>9 DEF Raws
    <3>3. Placed(F, Raws(F), Len(R)) /\ Raws(G) \subseteq Raws(F) /\ Len(R) \in Nat
      BY <1>2, <1>8, Elements DEF LaidOut
    <3>4. Len(R) <= Len(R)
      BY <3>3
    <3> QED
      BY <3>1, <3>2, <3>3, <3>4, PlacedSame
  <2> QED
    BY <2>1, <2>2, <2>3 DEF LaidOut
<1>11. Valid(y)
  <2>1. Typed(y)
    BY <1>2, <1>4, <1>5, <1>7, Zenon DEF Typed
  <2> QED
    BY <1>6, <1>7, <1>10, <2>1, Zenon DEF Valid
<1>12. ASSUME NEW l \in DOMAIN F \ {n}, NEW w \in Datum, HoldsIn(F, V, R, l, w)
       PROVE  HoldsIn(G, V, R, l, w)
  <2>1. G[l] = F[l]
    BY <1>5
  <2> QED
    BY <1>12, <2>1 DEF HoldsIn
<1>13. Keeps(x, y, DOMAIN F \ {n})
  BY <1>1, <1>5, <1>7, <1>12, <1>14, Zenon DEF Holds, Keeps
<1> QED
  BY <1>1, <1>5, <1>7, <1>11, <1>13, Zenon DEF y

(* hl_obj_lookup_set: the field is there with its type, the others are as before. *)
LEMMA LookupSetIs ==
  ASSUME ObjectAssumption, NEW x, Valid(x), NEW n \in Name, NEW type \in Pointer \cup Raw
  PROVE  LET y == LookupSet(x, n, type) IN
         /\ Valid(y) /\ DOMAIN y.fields = DOMAIN x.fields \cup {n}
         /\ y.fields[n].type = type /\ Keeps(x, y, DOMAIN x.fields \ {n})
<1> DEFINE y == LookupSet(x, n, type)
           Good(z) == /\ Valid(z) /\ DOMAIN z.fields = DOMAIN x.fields \cup {n}
                      /\ z.fields[n].type = type /\ Keeps(x, z, DOMAIN x.fields \ {n})
<1> SUFFICES Good(y)
  OBVIOUS
<1>1. CASE n \notin DOMAIN x.fields
  <2>1. y = AddField(x, n, type)
    BY <1>1 DEF LookupSet
  <2> DEFINE z == AddField(x, n, type)
  <2>2. /\ Valid(z) /\ DOMAIN z.fields = DOMAIN x.fields \cup {n}
        /\ z.fields[n].type = type /\ Keeps(x, z, DOMAIN x.fields)
    BY <1>1, AddFieldIs
  <2> HIDE DEF z
  <2>3. Good(z)
    BY <2>2, Zenon DEF Keeps
  <2> HIDE DEF Good, y
  <2> QED
    BY <2>1, <2>3 DEF z
<1>2. CASE n \in DOMAIN x.fields /\ x.fields[n].type = type
  <2>1. y = x
    BY <1>2 DEF LookupSet
  <2>2. Good(x)
    BY <1>2 DEF Keeps
  <2> HIDE DEF Good, y
  <2> QED
    BY <2>1, <2>2
<1>3. CASE n \in DOMAIN x.fields /\ x.fields[n].type # type
  <2>1. CASE Array(x.fields[n].type) # Array(type) \/ Size(x.fields[n].type) # Size(type)
    <3>1. y = AddField(DeleteField(x, n), n, type)
      BY <1>3, <2>1 DEF LookupSet
    <3> DEFINE p == DeleteField(x, n)
               z == AddField(p, n, type)
    <3>2. /\ Valid(p) /\ DOMAIN p.fields = DOMAIN x.fields \ {n}
          /\ Keeps(x, p, DOMAIN x.fields \ {n})
      BY <1>3, DeletedIs
    <3> HIDE DEF p
    <3>3. /\ Valid(z) /\ DOMAIN z.fields = DOMAIN p.fields \cup {n}
          /\ z.fields[n].type = type /\ Keeps(p, z, DOMAIN p.fields)
      <4>1. n \notin DOMAIN p.fields
        BY <3>2
      <4> QED
        BY <3>2, <4>1, AddFieldIs
    <3> HIDE DEF z
    <3>4. Keeps(x, z, DOMAIN x.fields \ {n})
      BY <3>2, <3>3, Zenon DEF Keeps
    <3>5. DOMAIN z.fields = DOMAIN x.fields \cup {n}
      BY <1>3, <3>2, <3>3
    <3>6. Good(z)
      BY <3>3, <3>4, <3>5
    <3> HIDE DEF Good, y
    <3> QED
      BY <3>1, <3>6 DEF z, p
  <2>2. CASE Array(x.fields[n].type) = Array(type) /\ Size(x.fields[n].type) = Size(type)
    <3>1. y = RetypedObj(x, n, type)
      BY <1>3, <2>2, Zenon DEF LookupSet, RetypedObj
    <3> DEFINE z == RetypedObj(x, n, type)
    <3>2. /\ Valid(z) /\ DOMAIN z.fields = DOMAIN x.fields
          /\ z.fields[n].type = type /\ Keeps(x, z, DOMAIN x.fields \ {n})
      BY <1>3, <2>2, RetypedValid
    <3> HIDE DEF z
    <3>3. Good(z)
      BY <1>3, <3>2
    <3> HIDE DEF Good, y
    <3> QED
      BY <3>1, <3>3 DEF z
  <2> QED
    BY <2>1, <2>2
<1> QED
  BY <1>1, <1>2, <1>3
-----------------------------------------------------------------------------
(* A value stored, and read. *)
AtPlace(V, i, d) == [V EXCEPT ![i] = d]

InCells(R, f, d) == [i \in DOMAIN R |-> IF i \in Cells(f) THEN d ELSE R[i]]

(* The object with a value stored, part by part. *)
LEMMA StoreFields ==
  ASSUME NEW F, NEW V, NEW R, NEW W, NEW n, NEW d
  PROVE  /\ F[n].type \in Pointer =>
              Store(ObjOf(F, V, R, W), n, d) = ObjOf(F, AtPlace(V, F[n].index + 1, d), R, W)
         /\ F[n].type \notin Pointer =>
              Store(ObjOf(F, V, R, W), n, d) = ObjOf(F, V, InCells(R, F[n], d), W)
<1> DEFINE x == ObjOf(F, V, R, W)
<1>1. x.fields = F /\ x.values = V /\ x.raw = R /\ x.virtuals = W
  BY ObjIs
<1>2. CASE F[n].type \in Pointer
  <2> DEFINE U == AtPlace(V, F[n].index + 1, d)
  <2>1. Store(x, n, d) = [x EXCEPT !.values = U]
    BY <1>1, <1>2, Zenon DEF Store, AtPlace
  <2> HIDE DEF U
  <2>2. Store(x, n, d) = ObjOf(F, U, R, W)
    BY <2>1 DEF ObjOf
  <2> QED
    BY <1>2, <2>2, Zenon DEF U
<1>3. CASE F[n].type \notin Pointer
  <2> DEFINE U == InCells(R, F[n], d)
  <2>1. Store(x, n, d) = [x EXCEPT !.raw = U]
    BY <1>1, <1>3, Zenon DEF Store, InCells
  <2> HIDE DEF U
  <2>2. Store(x, n, d) = ObjOf(F, V, U, W)
    BY <2>1 DEF ObjOf
  <2> QED
    BY <1>3, <2>2, Zenon DEF U
<1> QED
  BY <1>2, <1>3, Zenon

(* A pointer stored changes no other field, *)
LEMMA StoredPointer ==
  ASSUME ObjectAssumption, NEW F, NEW V, NEW R, V \in Seq(Data), R \in Seq(Data),
         IsFields(F), LaidOut(F, V, R), NEW n, n \in DOMAIN F, F[n].type \in Pointer,
         NEW d, d \in Data
  PROVE  LET U == AtPlace(V, F[n].index + 1, d) IN
         /\ U \in Seq(Data) /\ LaidOut(F, U, R) /\ HoldsIn(F, U, R, n, d)
         /\ \A l \in DOMAIN F \ {n}, w \in Datum :
              HoldsIn(F, V, R, l, w) => HoldsIn(F, U, R, l, w)
<1> DEFINE U == AtPlace(V, F[n].index + 1, d)
<1>1. PICK k : k = F[n].index + 1 /\ k \in 1 .. Len(V)
  BY PlaceOfField DEF Ptrs
<1>2. /\ U \in Seq(Data) /\ Len(U) = Len(V) /\ U[k] = d
      /\ \A i \in 1 .. Len(V) : i # k => U[i] = V[i]
  <2>1. V \in [1 .. Len(V) -> Data] /\ Len(V) \in Nat
    BY Elements
  <2>2. U = [V EXCEPT ![k] = d]
    BY <1>1 DEF AtPlace
  <2>3. U \in [1 .. Len(V) -> Data]
    BY <1>1, <2>1, <2>2
  <2>4. U \in Seq(Data) /\ Len(U) = Len(V)
    <3> HIDE DEF U
    <3> QED
      BY <2>1, <2>3
  <2> QED
    BY <1>1, <2>1, <2>2, <2>4
<1> HIDE DEF U
<1>3. LaidOut(F, U, R)
  BY <1>2 DEF LaidOut
<1>4. HoldsIn(F, U, R, n, d)
  BY <1>1, <1>2 DEF HoldsIn
<1>5. ASSUME NEW l \in DOMAIN F \ {n}, NEW w \in Datum, HoldsIn(F, V, R, l, w)
      PROVE  HoldsIn(F, U, R, l, w)
  <2>1. CASE F[l].type \in Pointer
    <3>1. PICK i : i = F[l].index + 1 /\ i \in 1 .. Len(V)
      BY <2>1, PlaceOfField DEF Ptrs
    <3>2. F[l].index # F[n].index
      <4>1. l \in Ptrs(F) /\ n \in Ptrs(F) /\ l # n
        BY <2>1 DEF Ptrs
      <4>2. IndexOf(F)[l] = F[l].index /\ IndexOf(F)[n] = F[n].index
        BY DEF IndexOf
      <4>3. IndexOf(F)[l] # IndexOf(F)[n]
        BY <4>1 DEF LaidOut, Numbered
      <4> QED
        BY <4>2, <4>3
    <3>3. F[l].index \in Nat /\ F[n].index \in Nat
      BY FieldIs
    <3>4. i # k
      BY <1>1, <3>1, <3>2, <3>3
    <3>5. V[i] = w
      BY <1>5, <2>1, <3>1 DEF HoldsIn
    <3>6. U[i] = w
      BY <1>2, <3>1, <3>4, <3>5
    <3> QED
      BY <2>1, <3>1, <3>6 DEF HoldsIn
  <2> QED
    BY <1>5, <2>1 DEF HoldsIn
<1> QED
  BY <1>2, <1>3, <1>4, <1>5 DEF U

(* nor does raw data. *)
LEMMA StoredRaw ==
  ASSUME ObjectAssumption, NEW F, NEW V, NEW R, R \in Seq(Data),
         IsFields(F), LaidOut(F, V, R), NEW n, n \in DOMAIN F, F[n].type \notin Pointer,
         NEW d, d \in Data
  PROVE  LET U == InCells(R, F[n], d) IN
         /\ U \in Seq(Data) /\ LaidOut(F, V, U) /\ HoldsIn(F, V, U, n, d)
         /\ \A l \in DOMAIN F \ {n}, w \in Datum :
              HoldsIn(F, V, R, l, w) => HoldsIn(F, V, U, l, w)
<1> DEFINE U == InCells(R, F[n], d)
<1>1. n \in Raws(F) /\ Cells(F[n]) \subseteq 1 .. Len(R)
  <2>1. n \in Raws(F)
    BY FieldIs DEF Raws
  <2> QED
    BY <2>1, PlaceOfField
<1>2. /\ U \in Seq(Data) /\ Len(U) = Len(R)
      /\ \A i \in 1 .. Len(R) : U[i] = IF i \in Cells(F[n]) THEN d ELSE R[i]
  <2>1. R \in [1 .. Len(R) -> Data] /\ Len(R) \in Nat
    BY Elements
  <2>2. U = [i \in 1 .. Len(R) |-> IF i \in Cells(F[n]) THEN d ELSE R[i]]
    BY <2>1 DEF InCells
  <2>3. U \in [1 .. Len(R) -> Data]
    BY <2>1, <2>2
  <2>4. U \in Seq(Data) /\ Len(U) = Len(R)
    <3> HIDE DEF U
    <3> QED
      BY <2>1, <2>3
  <2> QED
    BY <2>2, <2>4
<1> HIDE DEF U
<1>3. LaidOut(F, V, U)
  BY <1>2 DEF LaidOut
<1>4. HoldsIn(F, V, U, n, d)
  BY <1>1, <1>2 DEF HoldsIn
<1>5. ASSUME NEW l \in DOMAIN F \ {n}, NEW w \in Datum, HoldsIn(F, V, R, l, w)
      PROVE  HoldsIn(F, V, U, l, w)
  <2>1. CASE F[l].type \notin Pointer
    <3>1. l \in Raws(F) /\ Cells(F[l]) \subseteq 1 .. Len(R)
      <4>1. l \in Raws(F)
        BY <2>1, FieldIs DEF Raws
      <4> QED
        BY <4>1, PlaceOfField
    <3>2. Cells(F[l]) \cap Cells(F[n]) = {}
      <4>1. \/ F[n].index + Size(F[n].type) <= F[l].index
            \/ F[l].index + Size(F[l].type) <= F[n].index
        BY <1>1, <3>1 DEF LaidOut, Placed
      <4>2. /\ F[l].index \in Nat /\ F[n].index \in Nat
            /\ Size(F[l].type) \in Nat /\ Size(F[n].type) \in Nat
        BY FieldIs, SizeIs
      <4> QED
        BY <4>1, <4>2 DEF Cells
    <3>3. \A i \in Cells(F[l]) : R[i] = w
      BY <1>5, <2>1 DEF HoldsIn
    <3>4. \A i \in Cells(F[l]) : U[i] = w
      BY <1>2, <3>1, <3>2, <3>3
    <3> QED
      BY <2>1, <3>4 DEF HoldsIn
  <2> QED
    BY <1>5, <2>1 DEF HoldsIn
<1> QED
  BY <1>2, <1>3, <1>4, <1>5 DEF U

(* A value stored: the field holds it, the others are as before. *)
LEMMA StoreIs ==
  ASSUME ObjectAssumption, NEW x, Valid(x), NEW n, n \in DOMAIN x.fields,
         NEW d, d \in Data
  PROVE  LET y == Store(x, n, d) IN
         /\ Valid(y) /\ y.fields = x.fields /\ y.virtuals = x.virtuals
         /\ Holds(y, n, d) /\ Keeps(x, y, DOMAIN x.fields \ {n})
<1>1. PICK F, V, R, W : /\ x = ObjOf(F, V, R, W)
                        /\ x.fields = F /\ x.values = V /\ x.raw = R /\ x.virtuals = W
  BY Zenon DEF Valid, Typed
<1>2. IsFields(F) /\ V \in Seq(Data) /\ R \in Seq(Data) /\ LaidOut(F, V, R) /\ Follows(F, W)
  BY <1>1, Zenon DEF Valid, Typed
<1>3. n \in DOMAIN F
  BY <1>1
<1> DEFINE y == Store(x, n, d)
           Done(U, S) ==
             /\ U \in Seq(Data) /\ S \in Seq(Data) /\ LaidOut(F, U, S) /\ HoldsIn(F, U, S, n, d)
             /\ \A l \in DOMAIN F \ {n}, w \in Datum :
                  HoldsIn(F, V, R, l, w) => HoldsIn(F, U, S, l, w)
<1>4. \E U, S : Done(U, S) /\ y = ObjOf(F, U, S, W)
  <2>1. CASE F[n].type \in Pointer
    <3> DEFINE U == AtPlace(V, F[n].index + 1, d)
    <3>1. /\ U \in Seq(Data) /\ LaidOut(F, U, R) /\ HoldsIn(F, U, R, n, d)
          /\ \A l \in DOMAIN F \ {n}, w \in Datum :
               HoldsIn(F, V, R, l, w) => HoldsIn(F, U, R, l, w)
      BY <1>2, <1>3, <2>1, StoredPointer
    <3>2. Store(ObjOf(F, V, R, W), n, d) = ObjOf(F, U, R, W)
      BY <2>1, StoreFields
    <3> HIDE DEF U
    <3>3. Done(U, R)
      BY <1>2, <3>1
    <3> HIDE DEF Done
    <3> QED
      BY <1>1, <3>2, <3>3
  <2>2. CASE F[n].type \notin Pointer
    <3> DEFINE S == InCells(R, F[n], d)
    <3>1. /\ S \in Seq(Data) /\ LaidOut(F, V, S) /\ HoldsIn(F, V, S, n, d)
          /\ \A l \in DOMAIN F \ {n}, w \in Datum :
               HoldsIn(F, V, R, l, w) => HoldsIn(F, V, S, l, w)
      BY <1>2, <1>3, <2>2, StoredRaw
    <3>2. Store(ObjOf(F, V, R, W), n, d) = ObjOf(F, V, S, W)
      BY <2>2, StoreFields
    <3> HIDE DEF S
    <3>3. Done(V, S)
      BY <1>2, <3>1
    <3> HIDE DEF Done
    <3> QED
      BY <1>1, <3>2, <3>3
  <2> QED
    BY <2>1, <2>2
<1>5. PICK U, S : Done(U, S) /\ y = ObjOf(F, U, S, W)
  BY <1>4
<1> HIDE DEF y
<1>6. y.fields = F /\ y.values = U /\ y.raw = S /\ y.virtuals = W
  BY <1>5, ObjIs
<1>7. Valid(y)
  <2>1. Typed(y)
    BY <1>2, <1>5, <1>6, Zenon DEF Typed
  <2> QED
    BY <1>2, <1>5, <1>6, <2>1, Zenon DEF Valid
<1>8. Holds(y, n, d) /\ Keeps(x, y, DOMAIN F \ {n})
  <2>1. Holds(y, n, d)
    BY <1>5, <1>6, Zenon DEF Holds
  <2>2. ASSUME NEW l \in DOMAIN F \ {n}, NEW w \in Datum, Holds(x, l, w) PROVE Holds(y, l, w)
    BY <1>1, <1>5, <1>6, <2>2, Zenon DEF Holds
  <2>3. y.virtuals = x.virtuals /\ \A l \in DOMAIN F \ {n} : y.fields[l].type = x.fields[l].type
    BY <1>1, <1>6
  <2> QED
    BY <2>1, <2>2, <2>3, Zenon DEF Keeps
<1> HIDE DEF Done
<1>9. y.fields = x.fields /\ y.virtuals = x.virtuals
  BY <1>1, <1>6
<1> QED
  BY <1>1, <1>7, <1>8, <1>9 DEF y

Assigned(x, n, type, d, y) ==
  /\ Valid(y) /\ DOMAIN y.fields = DOMAIN x.fields \cup {n}
  /\ y.fields[n].type = type
  /\ Holds(y, n, d) /\ Keeps(x, y, DOMAIN x.fields \ {n})

(* hl_dyn_setp, hl_dyn_seti, hl_dyn_setd, ... *)
LEMMA AssignIs ==
  ASSUME ObjectAssumption, NEW x, Valid(x), NEW n \in Name, NEW type \in Pointer \cup Raw,
         NEW d \in Datum
  PROVE  Assigned(x, n, type, d, Assign(x, n, type, d))
<1> DEFINE p == LookupSet(x, n, type)
           y == Store(p, n, d)
<1>1. /\ Valid(p) /\ DOMAIN p.fields = DOMAIN x.fields \cup {n}
      /\ p.fields[n].type = type /\ Keeps(x, p, DOMAIN x.fields \ {n})
  BY LookupSetIs
<1> HIDE DEF p
<1>2. n \in DOMAIN p.fields /\ d \in Data
  BY <1>1 DEF Data
<1>3. /\ Valid(y) /\ y.fields = p.fields
      /\ Holds(y, n, d) /\ Keeps(p, y, DOMAIN p.fields \ {n})
  BY <1>1, <1>2, StoreIs
<1> HIDE DEF y
<1>4. Keeps(x, y, DOMAIN x.fields \ {n})
  <2>1. DOMAIN x.fields \ {n} \subseteq DOMAIN p.fields \ {n}
    BY <1>1
  <2> QED
    BY <1>1, <1>3, <2>1, Zenon DEF Keeps
<1>5. Assign(x, n, type, d) = y
  BY DEF Assign, p, y
<1> QED
  BY <1>1, <1>3, <1>4, <1>5 DEF Assigned

(* What a field holds is what is read of it. *)
LEMMA ReadIs ==
  ASSUME ObjectAssumption, NEW x, Valid(x), NEW n, n \in DOMAIN x.fields,
         NEW w, Holds(x, n, w)
  PROVE  Read(x, n) = w
<1> DEFINE f == x.fields[n]
<1>1. CASE f.type \in Pointer
  BY <1>1 DEF Read, Holds, HoldsIn
<1>2. CASE f.type \notin Pointer
  <2>1. f.index \in Nat
    BY FieldIs DEF Valid, Typed
  <2>2. Size(f.type) \in {1, 2, 4, 8}
    BY SizeIs
  <2>3. f.index + 1 \in Cells(f)
    BY <2>1, <2>2 DEF Cells
  <2>4. \A i \in Cells(f) : x.raw[i] = w
    BY <1>2 DEF Holds, HoldsIn
  <2> DEFINE read == {x.raw[i] : i \in Cells(f)}
  <2>5. read = {w}
    BY <2>3, <2>4
  <2>6. Read(x, n) = IF Cardinality(read) = 1 THEN CHOOSE v \in read : TRUE ELSE Torn
    BY <1>2 DEF Read
  <2> HIDE DEF read, f
  <2>7. Cardinality(read) = 1
    BY <2>5, FS_Singleton
  <2> QED
    BY <2>5, <2>6, <2>7
<1> QED
  BY <1>1, <1>2
-----------------------------------------------------------------------------
(* Every field holds a value. *)
Full(x) == \A n \in DOMAIN x.fields : \E w \in Datum : Holds(x, n, w)

(* The typed fields that the object is to the program. *)
Field(type, d) == [type |-> type, value |-> d]

FieldsOf(x) == [n \in DOMAIN x.fields |-> Field(x.fields[n].type, Read(x, n))]

(* Each has a type, and a value. *)
LEMMA FieldsAre ==
  ASSUME ObjectAssumption, NEW x, Valid(x), Full(x)
  PROVE  /\ FieldsOf(x) \in [DOMAIN x.fields -> [type : Type, value : Datum]]
         /\ DOMAIN FieldsOf(x) = DOMAIN x.fields
         /\ \A n \in DOMAIN x.fields : /\ FieldsOf(x)[n].type = x.fields[n].type
                                       /\ FieldsOf(x)[n].value = Read(x, n)
<1>1. ASSUME NEW n \in DOMAIN x.fields
      PROVE  x.fields[n].type \in Type /\ Read(x, n) \in Datum
  <2>1. PICK w \in Datum : Holds(x, n, w)
    BY DEF Full
  <2>2. Read(x, n) = w
    BY <2>1, ReadIs
  <2>3. x.fields[n].type \in Type
    BY FieldIs DEF Valid, Typed, Type
  <2> QED
    BY <2>2, <2>3
<1>2. \A n \in DOMAIN x.fields :
        Field(x.fields[n].type, Read(x, n)) \in [type : Type, value : Datum]
  BY <1>1 DEF Field
<1>3. \A t, d : Field(t, d).type = t /\ Field(t, d).value = d
  BY DEF Field
<1> QED
  BY <1>2, <1>3 DEF FieldsOf

(* What is kept is as before. *)
LEMMA KeptIs ==
  ASSUME ObjectAssumption, NEW x, NEW y, Valid(x), Full(x), Valid(y), NEW S, Keeps(x, y, S),
         S \subseteq DOMAIN x.fields, S \subseteq DOMAIN y.fields, NEW n, n \in S
  PROVE  FieldsOf(y)[n] = FieldsOf(x)[n] /\ \E w \in Datum : Holds(y, n, w)
<1>1. PICK w \in Datum : Holds(x, n, w)
  BY DEF Full
<1>2. Holds(y, n, w) /\ y.fields[n].type = x.fields[n].type
  BY <1>1 DEF Keeps
<1>3. n \in DOMAIN x.fields /\ n \in DOMAIN y.fields
  OBVIOUS
<1>4. Read(x, n) = w
  BY <1>1, <1>3, ReadIs
<1>5. Read(y, n) = w
  BY <1>2, <1>3, ReadIs
<1> QED
  BY <1>2, <1>3, <1>4, <1>5 DEF FieldsOf

PutIn(f, n, d) == [l \in DOMAIN f \cup {n} |-> IF l = n THEN d ELSE f[l]]

(* DynSet. *)
LEMMA AssignDoes ==
  ASSUME ObjectAssumption, NEW x, Valid(x), Full(x), NEW n \in Name,
         NEW type \in Pointer \cup Raw, NEW d \in Datum
  PROVE  LET y == Assign(x, n, type, d) IN
         /\ Valid(y) /\ Full(y) /\ Seen(y.virtuals) = Seen(x.virtuals)
         /\ FieldsOf(y) = PutIn(FieldsOf(x), n, Field(type, d))
<1> DEFINE y == Assign(x, n, type, d)
<1>1. /\ Valid(y) /\ DOMAIN y.fields = DOMAIN x.fields \cup {n} /\ y.fields[n].type = type
      /\ Holds(y, n, d) /\ Keeps(x, y, DOMAIN x.fields \ {n})
  <2>1. Assigned(x, n, type, d, Assign(x, n, type, d))
    BY AssignIs
  <2> QED
    BY <2>1 DEF Assigned
<1> HIDE DEF y
<1>2. Read(y, n) = d
  <2>1. n \in DOMAIN y.fields
    BY <1>1
  <2> QED
    BY <1>1, <2>1, ReadIs
<1>3. ASSUME NEW l \in DOMAIN x.fields, l # n
      PROVE  FieldsOf(y)[l] = FieldsOf(x)[l] /\ \E w \in Datum : Holds(y, l, w)
  <2>1. PICK S : S = DOMAIN x.fields \ {n}
    OBVIOUS
  <2>2. Keeps(x, y, S) /\ S \subseteq DOMAIN x.fields /\ S \subseteq DOMAIN y.fields /\ l \in S
    BY <1>1, <1>3, <2>1
  <2> QED
    BY <1>1, <2>2, KeptIs
<1>4. Full(y)
  BY <1>1, <1>3 DEF Full
<1>5. FieldsOf(y) = PutIn(FieldsOf(x), n, Field(type, d))
  <2> DEFINE f == FieldsOf(x)
             g == FieldsOf(y)
  <2>1. DOMAIN f = DOMAIN x.fields
    BY DEF FieldsOf
  <2>2. DOMAIN g = DOMAIN y.fields /\ g = [l \in DOMAIN y.fields |-> g[l]]
    BY DEF FieldsOf
  <2>3. g[n] = Field(type, d)
    BY <1>1, <1>2 DEF FieldsOf
  <2> HIDE DEF f, g
  <2>4. \A l \in DOMAIN y.fields : g[l] = IF l = n THEN Field(type, d) ELSE f[l]
    BY <1>1, <1>3, <2>3 DEF f, g
  <2>5. g = PutIn(f, n, Field(type, d))
    BY <1>1, <2>1, <2>2, <2>4 DEF PutIn
  <2> QED
    BY <2>5 DEF f, g
<1>6. Seen(y.virtuals) = Seen(x.virtuals)
  BY <1>1 DEF Keeps
<1> QED
  BY <1>1, <1>4, <1>5, <1>6 DEF y

LeftOut(f, n) == [l \in DOMAIN f \ {n} |-> f[l]]

(* ObjDeleteField. *)
LEMMA RemoveDoes ==
  ASSUME ObjectAssumption, NEW x, Valid(x), Full(x), NEW n, n \in DOMAIN x.fields
  PROVE  LET y == DeleteField(x, n) IN
         /\ Valid(y) /\ Full(y) /\ Seen(y.virtuals) = Seen(x.virtuals)
         /\ FieldsOf(y) = LeftOut(FieldsOf(x), n)
<1> DEFINE y == DeleteField(x, n)
<1>1. /\ Valid(y) /\ DOMAIN y.fields = DOMAIN x.fields \ {n}
      /\ Keeps(x, y, DOMAIN x.fields \ {n})
  BY DeletedIs
<1> HIDE DEF y
<1>3. ASSUME NEW l \in DOMAIN x.fields, l # n
      PROVE  FieldsOf(y)[l] = FieldsOf(x)[l] /\ \E w \in Datum : Holds(y, l, w)
  <2>1. PICK S : S = DOMAIN x.fields \ {n}
    OBVIOUS
  <2>2. Keeps(x, y, S) /\ S \subseteq DOMAIN x.fields /\ S \subseteq DOMAIN y.fields /\ l \in S
    BY <1>1, <1>3, <2>1
  <2> QED
    BY <1>1, <2>2, KeptIs
<1>4. Full(y)
  BY <1>1, <1>3 DEF Full
<1>5. FieldsOf(y) = LeftOut(FieldsOf(x), n)
  <2> DEFINE f == FieldsOf(x)
             g == FieldsOf(y)
  <2>1. DOMAIN f = DOMAIN x.fields
    BY DEF FieldsOf
  <2>2. DOMAIN g = DOMAIN y.fields /\ g = [l \in DOMAIN y.fields |-> g[l]]
    BY DEF FieldsOf
  <2> HIDE DEF f, g
  <2>4. \A l \in DOMAIN y.fields : g[l] = f[l]
    BY <1>1, <1>3 DEF f, g
  <2>5. g = LeftOut(f, n)
    BY <1>1, <2>1, <2>2, <2>4 DEF LeftOut
  <2> QED
    BY <2>5 DEF f, g
<1>6. Seen(y.virtuals) = Seen(x.virtuals)
  BY <1>1 DEF Keeps
<1> QED
  BY <1>1, <1>4, <1>5, <1>6 DEF y

(* A new view. *)
Viewed(x, v) == [x EXCEPT !.virtuals = @ \cup {View(x.fields, v)}]

(* A view is made of the fields as they are. *)
LEMMA ViewedIs ==
  ASSUME NEW x, Valid(x), Full(x), NEW v, v \in Virtual
  PROVE  LET y == Viewed(x, v) IN
         /\ Valid(y) /\ Full(y) /\ FieldsOf(y) = FieldsOf(x)
         /\ Seen(y.virtuals) = Seen(x.virtuals) \cup {v}
<1>1. PICK F, V, R, W : /\ x = ObjOf(F, V, R, W)
                        /\ x.fields = F /\ x.values = V /\ x.raw = R /\ x.virtuals = W
  BY Zenon DEF Valid, Typed
<1>2. IsFields(F) /\ V \in Seq(Data) /\ R \in Seq(Data) /\ LaidOut(F, V, R) /\ Follows(F, W)
  BY <1>1, Zenon DEF Valid, Typed
<1> DEFINE new == W \cup {View(F, v)}
           y == Viewed(x, v)
<1>3. Follows(F, new) /\ Seen(new) = Seen(W) \cup {v}
  <2>1. View(F, v).type = v
    BY ViewIs
  <2> QED
    BY <1>2, <2>1 DEF Follows, Seen
<1>4. y = ObjOf(F, V, R, new)
  <2>1. y = [x EXCEPT !.virtuals = new]
    BY <1>1, Zenon DEF Viewed
  <2> HIDE DEF new, y
  <2> QED
    BY <1>1, <2>1 DEF ObjOf
<1> HIDE DEF new, y
<1>5. y.fields = F /\ y.values = V /\ y.raw = R /\ y.virtuals = new
  BY <1>4, ObjIs
<1>6. Valid(y)
  BY <1>2, <1>3, <1>4, <1>5, Zenon DEF Valid, Typed
<1>7. Full(y)
  BY <1>1, <1>5, Zenon DEF Full, Holds
<1>8. ASSUME NEW n PROVE Read(y, n) = Read(x, n)
  <2>1. y.fields = x.fields /\ y.values = x.values /\ y.raw = x.raw
    BY <1>1, <1>5
  <2> QED
    BY <2>1 DEF Read
<1>9. FieldsOf(y) = FieldsOf(x)
  BY <1>1, <1>5, <1>8 DEF FieldsOf
<1> QED
  BY <1>1, <1>3, <1>5, <1>6, <1>7, <1>9 DEF y

CastOf(f, v, n) ==
  Field(Declares[v][n], Cast[f[n].type, Declares[v][n], f[n].value])

(* The fields of S cast to what v declares. *)
CastIn(f, v, S) == [n \in DOMAIN f |-> IF n \in S THEN CastOf(f, v, n) ELSE f[n]]

(* One more is cast. *)
LEMMA RecastOne ==
  ASSUME ObjectAssumption, NEW x, Valid(x), Full(x), NEW v \in Virtual, NEW f, NEW S,
         FieldsOf(x) = CastIn(f, v, S), NEW n \in DOMAIN f, n \notin S,
         n \in DOMAIN Declares[v], CastOf(f, v, n).value \in Datum
  PROVE  LET y == Assign(x, n, Declares[v][n], Converted(x, v, n)) IN
         /\ Valid(y) /\ Full(y) /\ Seen(y.virtuals) = Seen(x.virtuals)
         /\ FieldsOf(y) = CastIn(f, v, S \cup {n})
<1> DEFINE c == CastIn(f, v, S)
<1>1. /\ DOMAIN c = DOMAIN f /\ c[n] = f[n]
      /\ \A l \in DOMAIN f : c[l] = IF l \in S THEN CastOf(f, v, l) ELSE f[l]
  BY DEF CastIn
<1> HIDE DEF c
<1>2. /\ DOMAIN c = DOMAIN x.fields
      /\ c[n].type = x.fields[n].type /\ c[n].value = Read(x, n)
  <2>1. FieldsOf(x) = c
    BY DEF c
  <2>2. DOMAIN c = DOMAIN x.fields
    BY <2>1, FieldsAre
  <2> QED
    BY <1>1, <2>1, <2>2, FieldsAre
<1>3. PICK type, d : type = Declares[v][n] /\ d = Converted(x, v, n)
  OBVIOUS
<1>4. d = Cast[f[n].type, type, f[n].value]
  BY <1>1, <1>2, <1>3 DEF Converted
<1>5. CastOf(f, v, n) = Field(type, d)
  BY <1>3, <1>4 DEF CastOf
<1>6. d \in Datum /\ type \in Pointer \cup Raw /\ n \in Name
  <2>1. CastOf(f, v, n).value = d
    BY <1>5 DEF Field
  <2>2. type \in Pointer \cup Raw /\ n \in Name
    BY <1>3 DEF ObjectAssumption, Type
  <2> QED
    BY <2>1, <2>2
<1> DEFINE y == Assign(x, n, type, d)
<1>7. /\ Valid(y) /\ Full(y) /\ Seen(y.virtuals) = Seen(x.virtuals)
      /\ FieldsOf(y) = PutIn(FieldsOf(x), n, Field(type, d))
  BY <1>6, AssignDoes
<1> HIDE DEF y
<1>8. PutIn(c, n, Field(type, d)) = CastIn(f, v, S \cup {n})
  <2>1. DOMAIN c \cup {n} = DOMAIN f
    BY <1>1
  <2>2. \A l \in DOMAIN f : (IF l = n THEN Field(type, d) ELSE c[l])
                            = (IF l \in S \cup {n} THEN CastOf(f, v, l) ELSE f[l])
    BY <1>1, <1>5
  <2> QED
    BY <2>1, <2>2 DEF PutIn, CastIn
<1>9. FieldsOf(y) = CastIn(f, v, S \cup {n})
  BY <1>7, <1>8 DEF c
<1> QED
  BY <1>3, <1>7, <1>9 DEF y

(* Fields of f, each once, that v declares and whose cast does not throw. *)
CanCast(f, v, s) ==
  /\ Len(s) \in Nat /\ \A i, j \in 1 .. Len(s) : i # j => s[i] # s[j]
  /\ \A i \in 1 .. Len(s) : /\ s[i] \in DOMAIN f /\ s[i] \in DOMAIN Declares[v]
                             /\ CastOf(f, v, s[i]).value \in Datum

AllCast(q, f, v, s, y) ==
  /\ Valid(y) /\ Full(y) /\ Seen(y.virtuals) = Seen(q.virtuals)
  /\ FieldsOf(y) = CastIn(f, v, {s[i] : i \in 1 .. Len(s)})

(* The loop over the fields that are cast. *)
LEMMA RecastIs ==
  ASSUME ObjectAssumption, NEW q, Valid(q), Full(q), NEW v \in Virtual,
         NEW f, FieldsOf(q) = f, NEW s, CanCast(f, v, s)
  PROVE  AllCast(q, f, v, s, Recast(q, v, s))
<1> DEFINE Upon(i) == {s[j] : j \in 1 .. i}
           Same(y, i) == /\ Valid(y) /\ Full(y) /\ Seen(y.virtuals) = Seen(q.virtuals)
                         /\ FieldsOf(y) = CastIn(f, v, Upon(i))
           Next1(i, p) == Assign(p, s[i], Declares[v][s[i]], Converted(p, v, s[i]))
           Upto(k, g) == g = [i \in 0 .. k |-> IF i = 0 THEN q ELSE Next1(i, g[i - 1])]
           K == Len(s)
<1>1. ASSUME NEW i \in Nat, i + 1 \in 1 .. K, NEW p, Same(p, i)
      PROVE  Same(Next1(i + 1, p), i + 1)
  <2>1. PICK n : n = s[i + 1]
    OBVIOUS
  <2>2. /\ n \in DOMAIN f /\ n \in DOMAIN Declares[v] /\ CastOf(f, v, n).value \in Datum
    BY <1>1, <2>1 DEF CanCast
  <2>3. Upon(i + 1) = Upon(i) \cup {n}
    <3>1. 1 .. i + 1 = (1 .. i) \cup {i + 1}
      BY <1>1
    <3> QED
      BY <2>1, <3>1
  <2>4. n \notin Upon(i)
    <3>1. \A j \in 1 .. i : j \in 1 .. K /\ j # i + 1
      BY <1>1
    <3> QED
      BY <1>1, <2>1, <3>1 DEF CanCast
  <2> HIDE DEF Upon
  <2> DEFINE y == Assign(p, n, Declares[v][n], Converted(p, v, n))
  <2>5. /\ Valid(y) /\ Full(y) /\ Seen(y.virtuals) = Seen(p.virtuals)
        /\ FieldsOf(y) = CastIn(f, v, Upon(i) \cup {n})
    BY <1>1, <2>2, <2>4, RecastOne
  <2> HIDE DEF y
  <2>6. Next1(i + 1, p) = y
    BY <2>1 DEF y
  <2> HIDE DEF Next1
  <2>7. Same(y, i + 1)
    BY <1>1, <2>3, <2>5
  <2> QED
    BY <2>6, <2>7
<1>2. Same(q, 0)
  <2>1. Upon(0) = {}
    OBVIOUS
  <2> HIDE DEF Upon
  <2>2. f = CastIn(f, v, {})
    BY DEF CastIn, FieldsOf
  <2> QED
    BY <2>1, <2>2
<1> HIDE DEF Next1, Same
<1>3. K \in Nat
  BY DEF CanCast
<1>4. \A k \in Nat : \E g : Upto(k, g)
  <2> DEFINE T == {k \in Nat : \E g : Upto(k, g)}
  <2>1. 0 \in T
    <3> DEFINE g == [i \in 0 .. 0 |-> q]
    <3>1. Upto(0, g)
      OBVIOUS
    <3> HIDE DEF Upto
    <3> QED
      BY <3>1
  <2>2. ASSUME NEW k \in Nat, k \in T PROVE k + 1 \in T
    <3>1. PICK g : Upto(k, g)
      BY <2>2
    <3> DEFINE h == [i \in 0 .. k + 1 |-> IF i = k + 1 THEN Next1(k + 1, g[k]) ELSE g[i]]
    <3>2. ASSUME NEW i \in 0 .. k + 1
          PROVE  h[i] = IF i = 0 THEN q ELSE Next1(i, h[i - 1])
      <4>1. CASE i = 0
        BY <3>1, <4>1
      <4>2. CASE i = k + 1
        <5>1. h[i] = Next1(k + 1, g[k]) /\ h[i - 1] = g[k] /\ i # 0
          BY <4>2
        <5> QED
          BY <4>2, <5>1
      <4>3. CASE i # 0 /\ i # k + 1
        <5>1. i \in 0 .. k /\ i - 1 \in 0 .. k /\ i - 1 # k + 1 /\ i - 1 \in 0 .. k + 1
          BY <4>3
        <5>2. h[i] = g[i] /\ h[i - 1] = g[i - 1]
          BY <4>3, <5>1
        <5>3. g[i] = Next1(i, g[i - 1])
          BY <3>1, <4>3, <5>1
        <5> QED
          BY <4>3, <5>2, <5>3
      <4> QED
        BY <4>1, <4>2, <4>3
    <3>3. Upto(k + 1, h)
      <4>1. h = [i \in 0 .. k + 1 |-> h[i]]
        OBVIOUS
      <4> HIDE DEF h
      <4> QED
        BY <3>2, <4>1
    <3> HIDE DEF h, Upto
    <3> QED
      BY <3>3
  <2> HIDE DEF T
  <2>3. \A k \in Nat : k \in T
    BY <2>1, <2>2, Induction
  <2> QED
    BY <2>3 DEF T
<1> DEFINE filled == CHOOSE h : Upto(K, h)
<1>5. Recast(q, v, s) = filled[K]
  BY DEF Recast, Next1
<1>6. Upto(K, filled)
  <2>1. \E h : Upto(K, h)
    <3> HIDE DEF Upto, K
    <3> QED
      BY <1>3, <1>4
  <2> HIDE DEF Upto
  <2> QED
    BY <2>1, Zenon
<1> HIDE DEF filled
<1> DEFINE S == {i \in Nat : i <= K => Same(filled[i], i)}
<1>7. \A i \in Nat : i \in S
  <2>1. 0 \in S
    <3>1. filled[0] = q
      BY <1>3, <1>6
    <3> QED
      BY <1>2, <3>1
  <2>2. ASSUME NEW i \in Nat, i \in S PROVE i + 1 \in S
    <3>1. SUFFICES ASSUME i + 1 <= K PROVE Same(filled[i + 1], i + 1)
      OBVIOUS
    <3>2. /\ i + 1 \in 0 .. K /\ i + 1 \in 1 .. K /\ (i + 1) - 1 = i
          /\ Same(filled[i], i) /\ i + 1 # 0
      BY <1>3, <2>2, <3>1
    <3>3. filled[i + 1] = Next1(i + 1, filled[i])
      BY <1>6, <3>2
    <3>4. Same(Next1(i + 1, filled[i]), i + 1)
      BY <1>1, <3>2
    <3> QED
      BY <3>3, <3>4
  <2> HIDE DEF S
  <2> QED
    BY <2>1, <2>2, Induction
<1>8. Same(filled[K], K)
  <2>1. K \in S /\ K <= K
    BY <1>3, <1>7
  <2> QED
    BY <2>1
<1>9. Same(Recast(q, v, s), K)
  BY <1>5, <1>8
<1> HIDE DEF Upto
<1> QED
  BY <1>9, Zenon DEF Same, AllCast

(* What may happen to the fields when v becomes a view: the first view casts some. *)
Casts(f, seen, v, g) ==
  LET may == {n \in DOMAIN Declares[v] \cap DOMAIN f :
                /\ f[n].type # Declares[v][n]
                /\ ShouldRecast(f[n].type, Declares[v][n])}
      need == IF seen = {} THEN may ELSE {}
      throws(n) == CastOf(f, v, n).value = NoCast
  IN \E done \in SUBSET need :
       /\ \A n \in done : ~ throws(n)
       /\ done = need \/ \E n \in need \ done : throws(n)
       /\ g = CastIn(f, v, done)

(* ToVirtual. *)
LEMMA ViewDoes ==
  ASSUME ObjectAssumption, Valid(o), Full(o), NEW v \in Virtual, ToVirtual(v)
  PROVE  /\ Valid(o') /\ Full(o')
         /\ v \notin Seen(o.virtuals) /\ Seen(o'.virtuals) = Seen(o.virtuals) \cup {v}
         /\ Casts(FieldsOf(o), Seen(o.virtuals), v, FieldsOf(o'))
<1> DEFINE f == FieldsOf(o)
           q == Viewed(o, v)
           need == IF o.virtuals = {} THEN NeedRecast(o, v) ELSE {}
           throws(n) == Converted(o, v, n) = NoCast
<1>1. /\ Valid(q) /\ Full(q) /\ FieldsOf(q) = f
      /\ Seen(q.virtuals) = Seen(o.virtuals) \cup {v}
  BY ViewedIs
<1>2. /\ f \in [DOMAIN o.fields -> [type : Type, value : Datum]] /\ DOMAIN f = DOMAIN o.fields
      /\ \A n \in DOMAIN f : f[n].type = o.fields[n].type /\ f[n].value = Read(o, n)
  <2>1. PICK x : x = o
    OBVIOUS
  <2>2. Valid(x) /\ Full(x)
    BY <2>1
  <2> DEFINE e == FieldsOf(x)
  <2>3. /\ e \in [DOMAIN x.fields -> [type : Type, value : Datum]] /\ DOMAIN e = DOMAIN x.fields
        /\ \A n \in DOMAIN x.fields : e[n].type = x.fields[n].type /\ e[n].value = Read(x, n)
    BY <2>2, FieldsAre
  <2>4. e = f
    BY <2>1
  <2> HIDE DEF e, f
  <2> QED
    BY <2>1, <2>3, <2>4
<1>3. PICK done \in SUBSET need :
        /\ \A n \in done : ~ throws(n)
        /\ done = need \/ \E n \in need \ done : throws(n)
        /\ \E s \in SetToSeqs(done) : o' = Recast(q, v, s)
  BY Zenon DEF ToVirtual, Viewed
<1> HIDE DEF q, f
<1>4. \A n \in DOMAIN f : Converted(o, v, n) = CastOf(f, v, n).value
  BY <1>2 DEF Converted, CastOf, Field
<1>5. need \subseteq DOMAIN f /\ need \subseteq DOMAIN Declares[v]
  BY <1>2 DEF NeedRecast
<1>6. \A n \in done : CastOf(f, v, n).value \in Datum
  <2> TAKE n \in done
  <2>1. n \in DOMAIN f /\ n \in DOMAIN Declares[v] /\ ~ throws(n)
    BY <1>3, <1>5
  <2>2. f[n].type \in Type /\ f[n].value \in Datum
    BY <1>2, <2>1
  <2>3. Declares[v][n] \in Type
    BY <2>1 DEF ObjectAssumption
  <2>4. PICK a, b, c : a = f[n].type /\ b = Declares[v][n] /\ c = f[n].value
    OBVIOUS
  <2>5. Cast[a, b, c] \in Datum \cup {NoCast}
    BY <2>2, <2>3, <2>4 DEF ObjectAssumption
  <2>6. CastOf(f, v, n).value = Cast[a, b, c]
    BY <2>4 DEF CastOf, Field
  <2> QED
    BY <1>4, <2>1, <2>5, <2>6
<1>7. PICK s \in SetToSeqs(done) : o' = Recast(q, v, s)
  BY <1>3
<1>8. /\ Len(s) \in Nat /\ \A i, j \in 1 .. Len(s) : i # j => s[i] # s[j]
      /\ {s[i] : i \in 1 .. Len(s)} = done
  <2>1. IsFiniteSet(done)
    <3>1. IsFiniteSet(DOMAIN o.fields)
      BY DEF Valid, LaidOut, Numbered
    <3>2. done \in SUBSET (DOMAIN o.fields)
      BY <1>2, <1>3, <1>5
    <3> QED
      BY <3>1, <3>2, FS_Subset
  <2>2. PICK k \in Nat : k = Cardinality(done)
    BY <2>1, FS_CardinalityType
  <2>3. s \in [1 .. k -> done] /\ \A i, j \in 1 .. k : i # j => s[i] # s[j]
    BY <1>7, <2>2 DEF SetToSeqs
  <2>4. Len(s) = k
    BY <2>3
  <2>5. s \in Injection(1 .. k, done)
    BY <2>3 DEF Injection, IsInjective
  <2>6. IsFiniteSet(1 .. k) /\ Cardinality(1 .. k) = k
    BY FS_Interval
  <2>7. s \in Surjection(1 .. k, done)
    BY <2>1, <2>2, <2>5, <2>6, FS_Injection
  <2>8. \A n \in done : \E i \in 1 .. k : s[i] = n
    BY <2>7 DEF Surjection
  <2> QED
    BY <2>3, <2>4, <2>8
<1> DEFINE y == Recast(q, v, s)
<1>9. /\ Valid(y) /\ Full(y) /\ Seen(y.virtuals) = Seen(q.virtuals)
      /\ FieldsOf(y) = CastIn(f, v, {s[i] : i \in 1 .. Len(s)})
  <2>1. \A i \in 1 .. Len(s) : s[i] \in done
    BY <1>8
  <2>2. \A i \in 1 .. Len(s) : /\ s[i] \in DOMAIN f /\ s[i] \in DOMAIN Declares[v]
                               /\ CastOf(f, v, s[i]).value \in Datum
    BY <1>3, <1>5, <1>6, <2>1
  <2>3. PICK e : e = f
    OBVIOUS
  <2>4. /\ FieldsOf(q) = e
        /\ \A i \in 1 .. Len(s) : /\ s[i] \in DOMAIN e /\ s[i] \in DOMAIN Declares[v]
                                 /\ CastOf(e, v, s[i]).value \in Datum
    BY <1>1, <2>2, <2>3
  <2>5. FieldsOf(q) = e /\ CanCast(e, v, s)
    BY <1>8, <2>4 DEF CanCast
  <2>6. AllCast(q, e, v, s, y)
    BY <1>1, <2>5, RecastIs
  <2>7. /\ Valid(y) /\ Full(y) /\ Seen(y.virtuals) = Seen(q.virtuals)
        /\ FieldsOf(y) = CastIn(e, v, {s[i] : i \in 1 .. Len(s)})
    BY <2>6, Zenon DEF AllCast
  <2> HIDE DEF y
  <2> QED
    BY <2>3, <2>7
<1> HIDE DEF y
<1>10. o' = y
  BY <1>7 DEF y
<1>11. v \notin Seen(o.virtuals) /\ (o.virtuals = {} <=> Seen(o.virtuals) = {})
  BY DEF ToVirtual, Seen
<1>12. Casts(f, Seen(o.virtuals), v, FieldsOf(y))
  <2> DEFINE may == {n \in DOMAIN Declares[v] \cap DOMAIN f :
                       /\ f[n].type # Declares[v][n]
                       /\ ShouldRecast(f[n].type, Declares[v][n])}
             want == IF Seen(o.virtuals) = {} THEN may ELSE {}
             fails(n) == CastOf(f, v, n).value = NoCast
  <2>1. may = NeedRecast(o, v)
    BY <1>2 DEF NeedRecast
  <2>2. want = need
    <3> HIDE DEF may
    <3> QED
      BY <1>11, <2>1
  <2>3. \A n \in need : throws(n) <=> fails(n)
    BY <1>4, <1>5
  <2>4. /\ done \in SUBSET need /\ \A n \in done : ~ fails(n)
        /\ done = need \/ \E n \in need \ done : fails(n)
    <3> HIDE DEF need, fails, throws
    <3> QED
      BY <1>3, <2>3
  <2>5. FieldsOf(y) = CastIn(f, v, done)
    BY <1>8, <1>9
  <2> HIDE DEF may, need
  <2> QED
    BY <2>2, <2>4, <2>5, Zenon DEF Casts, may
<1> QED
  BY <1>1, <1>9, <1>10, <1>11, <1>12 DEF f
-----------------------------------------------------------------------------
(* The object that a virtual needs: made from its fields before i. *)
IsMade(y, v, had, i) ==
  /\ Typed(y) /\ LaidOut(y.fields, y.values, y.raw) /\ y.virtuals = {}
  /\ DOMAIN y.fields = {l \in DOMAIN Declares[v] : l < i}
  /\ \A l \in DOMAIN y.fields : y.fields[l].type = Declares[v][l] /\ Holds(y, l, had[l])

(* What a virtual declares are names. *)
LEMMA DeclaredIs ==
  ASSUME ObjectAssumption, NEW v, v \in Virtual
  PROVE  \A l \in DOMAIN Declares[v] : l \in Nat /\ l \in Name
<1>1. DOMAIN Declares[v] \subseteq Name
  BY DEF ObjectAssumption, Type
<1>2. Name \subseteq 0 .. LastName /\ LastName \in Nat
  BY DEF ObjectAssumption, Type
<1>3. \A l \in 0 .. LastName : l \in Nat
  BY <1>2
<1> QED
  BY <1>1, <1>2, <1>3

(* The object without a field. *)
LEMMA EmptyIs ==
  /\ Valid(EmptyObject) /\ DOMAIN EmptyObject.fields = {} /\ EmptyObject.virtuals = {}
<1> DEFINE F == [n \in {} |-> 0]
           y == EmptyObject
<1>1. y = ObjOf(F, <<>>, <<>>, {})
  BY DEF EmptyObject, ObjOf
<1> HIDE DEF y
<1>2. y.fields = F /\ y.values = <<>> /\ y.raw = <<>> /\ y.virtuals = {}
  BY <1>1 DEF ObjOf
<1>3. DOMAIN F = {} /\ IsFields(F)
  BY DEF IsFields
<1> HIDE DEF F
<1>4. Typed(y)
  <2>1. <<>> \in Seq(Data)
    OBVIOUS
  <2> QED
    BY <1>1, <1>2, <1>3, <2>1, Zenon DEF Typed
<1>5. LaidOut(F, <<>>, <<>>)
  <2>1. Ptrs(F) = {} /\ Raws(F) = {}
    BY <1>3 DEF Ptrs, Raws
  <2>2. IsFiniteSet({}) /\ Cardinality({}) = 0 /\ Len(<<>>) = 0
    BY FS_EmptySet
  <2>3. \A f : Numbered({}, 0, f)
    BY <2>2 DEF Numbered
  <2>4. Placed(F, {}, Len(<<>>))
    BY DEF Placed
  <2> QED
    BY <1>3, <2>1, <2>2, <2>3, <2>4 DEF LaidOut
<1>6. Valid(y)
  BY <1>2, <1>4, <1>5 DEF Valid, Follows
<1> QED
  BY <1>2, <1>3, <1>6 DEF y

(* The loop begins with the empty object, *)
LEMMA NothingMade ==
  ASSUME ObjectAssumption, NEW v, v \in Virtual, NEW had
  PROVE  IsMade(EmptyObject, v, had, 0)
<1>1. {l \in DOMAIN Declares[v] : l < 0} = {}
  <2>1. \A l \in DOMAIN Declares[v] : l \in Nat
    BY DeclaredIs
  <2> QED
    BY <2>1
<1> QED
  BY <1>1, EmptyIs DEF IsMade, Valid

(* and adds one field after the other. *)
LEMMA OneMade ==
  ASSUME ObjectAssumption, NEW v, v \in Virtual, NEW had,
         \A n \in DOMAIN Declares[v] : had[n] \in Datum,
         NEW i, i \in Nat, NEW x, IsMade(x, v, had, i)
  PROVE  /\ i \in DOMAIN Declares[v] =>
              IsMade(Added(x, i, Declares[v][i], had[i]), v, had, i + 1)
         /\ i \notin DOMAIN Declares[v] => IsMade(x, v, had, i + 1)
<1> DEFINE Below(j) == {l \in DOMAIN Declares[v] : l < j}
<1>1. /\ Typed(x) /\ LaidOut(x.fields, x.values, x.raw) /\ x.virtuals = {}
      /\ DOMAIN x.fields = Below(i)
      /\ \A l \in DOMAIN x.fields : x.fields[l].type = Declares[v][l] /\ Holds(x, l, had[l])
  BY DEF IsMade
<1>2. \A l \in DOMAIN Declares[v] : l \in Nat
  BY DeclaredIs
<1>3. \A l \in DOMAIN Declares[v] : l < i + 1 <=> l < i \/ l = i
  BY <1>2
<1>4. ASSUME i \notin DOMAIN Declares[v] PROVE IsMade(x, v, had, i + 1)
  <2>1. Below(i + 1) = Below(i)
    BY <1>3, <1>4
  <2> HIDE DEF Below
  <2>2. DOMAIN x.fields = Below(i + 1)
    BY <1>1, <2>1
  <2> QED
    BY <1>1, <2>2, Zenon DEF IsMade, Below
<1>5. ASSUME i \in DOMAIN Declares[v]
      PROVE  IsMade(Added(x, i, Declares[v][i], had[i]), v, had, i + 1)
  <2>1. PICK type, d : type = Declares[v][i] /\ d = had[i]
    OBVIOUS
  <2>2. type \in Pointer \cup Raw /\ d \in Datum /\ d \in Data /\ i \in Name
    BY <1>5, <2>1 DEF ObjectAssumption, Type, Data
  <2>3. i \notin DOMAIN x.fields
    BY <1>1, <1>2
  <2> DEFINE y == Added(x, i, type, d)
  <2>4. /\ Typed(y) /\ LaidOut(y.fields, y.values, y.raw) /\ y.virtuals = x.virtuals
        /\ DOMAIN y.fields = DOMAIN x.fields \cup {i} /\ y.fields[i].type = type
        /\ \A l \in DOMAIN x.fields : y.fields[l] = x.fields[l]
        /\ Holds(y, i, d) /\ Keeps(x, y, DOMAIN x.fields)
    BY <1>1, <2>2, <2>3, AddedIs
  <2> HIDE DEF y
  <2>5. Below(i + 1) = Below(i) \cup {i}
    BY <1>3, <1>5
  <2>6. \A l \in Below(i) : l \in DOMAIN Declares[v]
    OBVIOUS
  <2> HIDE DEF Below
  <2>7. DOMAIN y.fields = Below(i + 1)
    BY <1>1, <2>4, <2>5
  <2>8. \A l \in DOMAIN y.fields : y.fields[l].type = Declares[v][l] /\ Holds(y, l, had[l])
    BY <1>1, <2>1, <2>4, <2>6 DEF Keeps
  <2>9. IsMade(y, v, had, i + 1)
    BY <1>1, <2>4, <2>7, <2>8, Zenon DEF IsMade, Below
  <2> QED
    BY <2>1, <2>9 DEF y
<1> QED
  BY <1>4, <1>5

(* MadeFrom before it has its view. *)
MadeOf(v, had) ==
  LET upto[n \in 0 .. LastName + 1] ==
        IF n = 0 THEN EmptyObject
        ELSE IF n - 1 \in DOMAIN Declares[v]
        THEN Added(upto[n - 1], n - 1, Declares[v][n - 1], had[n - 1])
        ELSE upto[n - 1]
  IN upto[LastName + 1]

(* The loop over the names: the object has the fields that the virtual declares. *)
LEMMA MadeIs ==
  ASSUME ObjectAssumption, NEW v, v \in Virtual, NEW had,
         \A n \in DOMAIN Declares[v] : had[n] \in Datum
  PROVE  IsMade(MadeOf(v, had), v, had, LastName + 1)
<1> DEFINE Next1(i, p) == IF i - 1 \in DOMAIN Declares[v]
                          THEN Added(p, i - 1, Declares[v][i - 1], had[i - 1]) ELSE p
           Upto(k, g) == g = [i \in 0 .. k |-> IF i = 0 THEN EmptyObject ELSE Next1(i, g[i - 1])]
           K == LastName + 1
           Made(p, i) == IsMade(p, v, had, i)
<1>0. K \in Nat
  BY DEF ObjectAssumption, Type
<1>1. ASSUME NEW i \in Nat, NEW p, Made(p, i) PROVE Made(Next1(i + 1, p), i + 1)
  <2>1. (i + 1) - 1 = i
    OBVIOUS
  <2>2. /\ i \in DOMAIN Declares[v] =>
             IsMade(Added(p, i, Declares[v][i], had[i]), v, had, i + 1)
        /\ i \notin DOMAIN Declares[v] => IsMade(p, v, had, i + 1)
    BY <1>1, OneMade
  <2>3. Next1(i + 1, p) = IF i \in DOMAIN Declares[v]
                          THEN Added(p, i, Declares[v][i], had[i]) ELSE p
    BY <2>1
  <2> HIDE DEF Next1
  <2> QED
    BY <2>2, <2>3
<1>2. Made(EmptyObject, 0)
  BY NothingMade
<1> HIDE DEF Next1, Made
<1>4. \A k \in Nat : \E g : Upto(k, g)
  <2> DEFINE T == {k \in Nat : \E g : Upto(k, g)}
  <2>1. 0 \in T
    <3> DEFINE g == [i \in 0 .. 0 |-> EmptyObject]
    <3>1. Upto(0, g)
      OBVIOUS
    <3> HIDE DEF Upto
    <3> QED
      BY <3>1
  <2>2. ASSUME NEW k \in Nat, k \in T PROVE k + 1 \in T
    <3>1. PICK g : Upto(k, g)
      BY <2>2
    <3> DEFINE h == [i \in 0 .. k + 1 |-> IF i = k + 1 THEN Next1(k + 1, g[k]) ELSE g[i]]
    <3>2. ASSUME NEW i \in 0 .. k + 1
          PROVE  h[i] = IF i = 0 THEN EmptyObject ELSE Next1(i, h[i - 1])
      <4>1. CASE i = 0
        BY <3>1, <4>1
      <4>2. CASE i = k + 1
        <5>1. h[i] = Next1(k + 1, g[k]) /\ h[i - 1] = g[k] /\ i # 0
          BY <4>2
        <5> QED
          BY <4>2, <5>1
      <4>3. CASE i # 0 /\ i # k + 1
        <5>1. i \in 0 .. k /\ i - 1 \in 0 .. k /\ i - 1 # k + 1 /\ i - 1 \in 0 .. k + 1
          BY <4>3
        <5>2. h[i] = g[i] /\ h[i - 1] = g[i - 1]
          BY <4>3, <5>1
        <5>3. g[i] = Next1(i, g[i - 1])
          BY <3>1, <4>3, <5>1
        <5> QED
          BY <4>3, <5>2, <5>3
      <4> QED
        BY <4>1, <4>2, <4>3
    <3>3. Upto(k + 1, h)
      <4>1. h = [i \in 0 .. k + 1 |-> h[i]]
        OBVIOUS
      <4> HIDE DEF h
      <4> QED
        BY <3>2, <4>1
    <3> HIDE DEF h, Upto
    <3> QED
      BY <3>3
  <2> HIDE DEF T
  <2>3. \A k \in Nat : k \in T
    BY <2>1, <2>2, Induction
  <2> QED
    BY <2>3 DEF T
<1> DEFINE filled == CHOOSE h : Upto(K, h)
<1>5. MadeOf(v, had) = filled[K]
  BY DEF MadeOf, Next1
<1>6. Upto(K, filled)
  <2>1. \E h : Upto(K, h)
    <3> HIDE DEF Upto, K
    <3> QED
      BY <1>0, <1>4
  <2> HIDE DEF Upto
  <2> QED
    BY <2>1, Zenon
<1> HIDE DEF filled
<1> DEFINE S == {i \in Nat : i <= K => Made(filled[i], i)}
<1>7. \A i \in Nat : i \in S
  <2>1. 0 \in S
    <3>1. filled[0] = EmptyObject
      BY <1>0, <1>6
    <3> QED
      BY <1>2, <3>1
  <2>2. ASSUME NEW i \in Nat, i \in S PROVE i + 1 \in S
    <3>1. SUFFICES ASSUME i + 1 <= K PROVE Made(filled[i + 1], i + 1)
      OBVIOUS
    <3>2. i + 1 \in 0 .. K /\ (i + 1) - 1 = i /\ Made(filled[i], i) /\ i + 1 # 0
      BY <1>0, <2>2, <3>1
    <3>3. filled[i + 1] = Next1(i + 1, filled[i])
      BY <1>6, <3>2
    <3> QED
      BY <1>1, <3>2, <3>3
  <2> HIDE DEF S
  <2> QED
    BY <2>1, <2>2, Induction
<1>8. Made(filled[K], K)
  <2>1. K \in S /\ K <= K
    BY <1>0, <1>7
  <2> QED
    BY <2>1
<1>9. Made(MadeOf(v, had), K)
  BY <1>5, <1>8
<1> HIDE DEF Upto
<1> QED
  BY <1>9, Zenon DEF Made

(* hl_virtual_make_value: the object holds what the virtual held. *)
LEMMA MadeFromIs ==
  ASSUME ObjectAssumption, NEW v, v \in Virtual, NEW had,
         \A n \in DOMAIN Declares[v] : had[n] \in Datum
  PROVE  LET y == MadeFrom(v, had) IN
         /\ Valid(y) /\ Full(y) /\ Seen(y.virtuals) = {v}
         /\ DOMAIN y.fields = DOMAIN Declares[v]
         /\ \A n \in DOMAIN Declares[v] : y.fields[n].type = Declares[v][n]
<1> DEFINE x == MadeOf(v, had)
           view == [type |-> v, slot |-> [n \in DOMAIN Declares[v] |-> Address(x.fields[n])]]
           y == MadeFrom(v, had)
<1>1. y = [x EXCEPT !.virtuals = {view}]
  BY DEF MadeFrom, MadeOf
<1>2. IsMade(x, v, had, LastName + 1)
  BY MadeIs
<1> HIDE DEF x, y
<1>3. PICK F, V, R : /\ x = ObjOf(F, V, R, {})
                     /\ x.fields = F /\ x.values = V /\ x.raw = R
  BY <1>2, Zenon DEF IsMade, Typed
<1>4. /\ IsFields(F) /\ V \in Seq(Data) /\ R \in Seq(Data) /\ LaidOut(F, V, R)
  BY <1>2, <1>3, Zenon DEF IsMade, Typed
<1>5. DOMAIN F = DOMAIN Declares[v]
  <2>1. DOMAIN Declares[v] \subseteq Name /\ Name \subseteq 0 .. LastName /\ LastName \in Nat
    BY DEF ObjectAssumption, Type
  <2>2. \A l \in 0 .. LastName : l < LastName + 1
    BY <2>1
  <2>3. DOMAIN F = {l \in DOMAIN Declares[v] : l < LastName + 1}
    BY <1>2, <1>3 DEF IsMade
  <2> QED
    BY <2>1, <2>2, <2>3
<1>6. \A l \in DOMAIN F : F[l].type = Declares[v][l] /\ HoldsIn(F, V, R, l, had[l])
  BY <1>2, <1>3, Zenon DEF IsMade, Holds
<1>7. view = View(F, v) /\ view.type = v
  <2>1. \A n \in DOMAIN Declares[v] : Slot(F, v, n) = Address(F[n])
    BY <1>5, <1>6 DEF Slot
  <2>2. View(F, v) = [type |-> v, slot |-> [i \in DOMAIN Declares[v] |-> Slot(F, v, i)]]
    BY DEF View, Slot
  <2>3. /\ view = [type |-> v, slot |-> [n \in DOMAIN Declares[v] |-> Address(F[n])]]
        /\ view.type = v
    BY <1>3
  <2> HIDE DEF view
  <2> QED
    BY <2>1, <2>2, <2>3
<1> HIDE DEF view
<1>8. Follows(F, {view})
  <2>1. View(F, v).type = v
    BY ViewIs
  <2> QED
    BY <1>7, <2>1 DEF Follows
<1>9. y = ObjOf(F, V, R, {view})
  BY <1>1, <1>3 DEF ObjOf
<1>10. y.fields = F /\ y.values = V /\ y.raw = R /\ y.virtuals = {view}
  BY <1>9 DEF ObjOf
<1>11. Valid(y)
  BY <1>4, <1>8, <1>9, <1>10, Zenon DEF Valid, Typed
<1>12. Full(y)
  BY <1>5, <1>6, <1>10 DEF Full, Holds
<1>13. Seen(y.virtuals) = {v}
  BY <1>7, <1>10 DEF Seen
<1> QED
  BY <1>5, <1>6, <1>10, <1>11, <1>12, <1>13 DEF y
-----------------------------------------------------------------------------
(* The inductive invariant: the layout, the views, and a value in every field. *)
ObjectInv == Valid(o) /\ Full(o)

(* The invariant holds initially, *)
LEMMA InitMakes ==
  ASSUME ObjectAssumption, ObjInit
  PROVE  /\ ObjectInv
         /\ \/ DOMAIN o.fields = {} /\ Seen(o.virtuals) = {}
            \/ \E v \in Virtual :
                 /\ Seen(o.virtuals) = {v} /\ DOMAIN o.fields = DOMAIN Declares[v]
                 /\ \A n \in DOMAIN Declares[v] : o.fields[n].type = Declares[v][n]
<1>1. CASE o = EmptyObject
  <2>1. Seen({}) = {}
    BY DEF Seen
  <2> QED
    BY <1>1, <2>1, EmptyIs DEF ObjectInv, Full
<1>2. CASE \E v \in Virtual : \E had \in Had[v] : o = MadeFrom(v, had)
  <2>1. PICK v \in Virtual : \E had \in Had[v] : o = MadeFrom(v, had)
    BY <1>2
  <2>2. PICK had \in Had[v] : o = MadeFrom(v, had)
    BY <2>1
  <2>3. \A n \in DOMAIN Declares[v] : had[n] \in Datum
    BY DEF ObjectAssumption
  <2> DEFINE y == MadeFrom(v, had)
  <2>4. /\ Valid(y) /\ Full(y) /\ Seen(y.virtuals) = {v}
        /\ DOMAIN y.fields = DOMAIN Declares[v]
        /\ \A n \in DOMAIN Declares[v] : y.fields[n].type = Declares[v][n]
    BY <2>3, MadeFromIs
  <2> HIDE DEF y
  <2>5. o = y
    BY <2>2 DEF y
  <2> QED
    BY <2>4, <2>5 DEF ObjectInv
<1> QED
  BY <1>1, <1>2, Zenon DEF ObjInit

(* and after each step, which sets a field, removes one, or makes a view. *)
LEMMA StepDoes ==
  ASSUME ObjectAssumption, ObjectInv, [ObjNext]_o
  PROVE  /\ ObjectInv'
         /\ LET f == FieldsOf(o)
                g == FieldsOf(o')
                S == Seen(o.virtuals)
                T == Seen(o'.virtuals)
            IN
            \/ \E n \in Name, t \in Type, d \in Datum : g = PutIn(f, n, Field(t, d)) /\ T = S
            \/ \E n \in DOMAIN f : g = LeftOut(f, n) /\ T = S
            \/ \E v \in Virtual : v \notin S /\ T = S \cup {v} /\ Casts(f, S, v, g)
            \/ g = f /\ T = S
<1>1. Valid(o) /\ Full(o)
  BY DEF ObjectInv
<1>2. ASSUME NEW n \in Name, NEW type, NEW d, [type |-> type, value |-> d] \in Stores[n],
             DynSet(n, type, d)
      PROVE  /\ Valid(o') /\ Full(o') /\ type \in Type /\ d \in Datum
             /\ FieldsOf(o') = PutIn(FieldsOf(o), n, Field(type, d))
             /\ Seen(o'.virtuals) = Seen(o.virtuals)
  <2>1. d \in Datum /\ type \in Type /\ type \in Pointer \cup Raw
    BY <1>2 DEF ObjectAssumption, Type
  <2>2. PICK x : x = o /\ o' = Assign(x, n, type, d)
    BY <1>2 DEF DynSet
  <2> DEFINE z == Assign(x, n, type, d)
  <2>3. /\ Valid(z) /\ Full(z) /\ Seen(z.virtuals) = Seen(x.virtuals)
        /\ FieldsOf(z) = PutIn(FieldsOf(x), n, Field(type, d))
    BY <1>1, <2>1, <2>2, AssignDoes
  <2> HIDE DEF z
  <2>4. z = o'
    BY <2>2 DEF z
  <2> QED
    BY <2>1, <2>2, <2>3, <2>4
<1>3. ASSUME NEW n \in Name, ObjDeleteField(n)
      PROVE  /\ Valid(o') /\ Full(o') /\ n \in DOMAIN FieldsOf(o)
             /\ FieldsOf(o') = LeftOut(FieldsOf(o), n)
             /\ Seen(o'.virtuals) = Seen(o.virtuals)
  <2>1. n \in DOMAIN o.fields
    BY <1>3 DEF ObjDeleteField
  <2>2. PICK x : x = o /\ o' = DeleteField(x, n)
    BY <1>3 DEF ObjDeleteField
  <2> DEFINE z == DeleteField(x, n)
  <2>3. /\ Valid(z) /\ Full(z) /\ Seen(z.virtuals) = Seen(x.virtuals)
        /\ FieldsOf(z) = LeftOut(FieldsOf(x), n)
    BY <1>1, <2>1, <2>2, RemoveDoes
  <2> HIDE DEF z
  <2>4. z = o'
    BY <2>2 DEF z
  <2>5. n \in DOMAIN FieldsOf(o)
    BY <2>1 DEF FieldsOf
  <2> QED
    BY <2>2, <2>3, <2>4, <2>5
<1>5. CASE UNCHANGED o
  <2>1. PICK x : x = o /\ o' = x
    BY <1>5
  <2> QED
    BY <1>1, <2>1 DEF ObjectInv
<1>6. CASE \E n \in Name : ObjDeleteField(n)
  <2>1. PICK n \in Name : ObjDeleteField(n)
    BY <1>6
  <2> QED
    BY <1>3, <2>1 DEF ObjectInv
<1>7. CASE \E n \in Name : \E store \in Stores[n] : DynSet(n, store.type, store.value)
  <2>1. PICK n \in Name : \E store \in Stores[n] : DynSet(n, store.type, store.value)
    BY <1>7
  <2>2. PICK store \in Stores[n] : DynSet(n, store.type, store.value)
    BY <2>1
  <2>3. PICK type, d : type = store.type /\ d = store.value
    OBVIOUS
  <2>4. store \in [type : Type, value : Datum]
    BY DEF ObjectAssumption
  <2>5. store = [type |-> type, value |-> d]
    BY <2>3, <2>4
  <2>6. DynSet(n, type, d)
    BY <2>2, <2>3
  <2> QED
    BY <1>2, <2>5, <2>6 DEF ObjectInv
<1>8. CASE \E v \in Virtual : ToVirtual(v)
  <2>1. PICK v \in Virtual : ToVirtual(v)
    BY <1>8
  <2>2. /\ Valid(o') /\ Full(o')
        /\ v \notin Seen(o.virtuals) /\ Seen(o'.virtuals) = Seen(o.virtuals) \cup {v}
        /\ Casts(FieldsOf(o), Seen(o.virtuals), v, FieldsOf(o'))
    BY <1>1, <2>1, ViewDoes
  <2> QED
    BY <2>2 DEF ObjectInv
<1> QED
  BY <1>5, <1>6, <1>7, <1>8, Zenon DEF ObjNext

(* The invariant holds in every state, for any names, types and virtuals. *)
THEOREM ObjectHolds == ObjectAssumption => (ObjSpec => []ObjectInv)
<1>1. SUFFICES ASSUME ObjectAssumption PROVE ObjSpec => []ObjectInv
  OBVIOUS
<1>2. ObjInit => ObjectInv
  BY <1>1, InitMakes
<1>3. ObjectInv /\ [ObjNext]_o => ObjectInv'
  BY <1>1, StepDoes
<1> QED
  BY <1>2, <1>3, PTL DEF ObjSpec

(* A virtual holds the address of each field it has in common with the object. *)
THEOREM VirtualsDoFollow == ObjectAssumption => (ObjSpec => []VirtualsFollow)
<1>1. SUFFICES ASSUME ObjectAssumption PROVE ObjSpec => []VirtualsFollow
  OBVIOUS
<1>2. ObjSpec => []ObjectInv
  BY <1>1, ObjectHolds
<1>3. ObjectInv => VirtualsFollow
  BY DEF ObjectInv, Valid, Follows, VirtualsFollow
<1> QED
  BY <1>2, <1>3, PTL

(* The numbers of a numbered set are those below its size. *)
LEMMA NumbersAre ==
  ASSUME NEW S, NEW k, NEW f, Numbered(S, k, f)
  PROVE  {f[a] : a \in S} = 0 .. k - 1 /\ Cardinality(S) = k /\ k \in Nat
<1>1. k \in Nat /\ Cardinality(S) = k
  BY DEF Numbered
<1>2. ASSUME NEW a \in S PROVE f[a] \in 0 .. k - 1
  <2>1. f[a] \in Nat /\ f[a] < k
    BY DEF Numbered
  <2> QED
    BY <1>1, <2>1
<1>3. ASSUME NEW i \in 0 .. k - 1 PROVE \E a \in S : f[a] = i
  <2>1. i \in Nat /\ i < k
    BY <1>1
  <2> QED
    BY <2>1 DEF Numbered
<1> QED
  BY <1>1, <1>2, <1>3

(* The layout of the fields is part of the invariant. *)
LEMMA LayoutOf ==
  ASSUME ObjectAssumption, ObjectInv
  PROVE  LayoutIntact
<1>1. PICK F, V, R : F = o.fields /\ V = o.values /\ R = o.raw
  OBVIOUS
<1>2. IsFields(F) /\ R \in Seq(Data) /\ LaidOut(F, V, R)
  BY <1>1 DEF ObjectInv, Valid, Typed
<1>3. Ptrs(F) = DOMAIN F \ RawFields(o) /\ Raws(F) = RawFields(o)
  <2>1. \A n \in DOMAIN F : F[n].type \in Pointer <=> F[n].type \notin Raw
    <3>1. \A n \in DOMAIN F : F[n].type \in Pointer \cup Raw
      BY <1>2, FieldIs
    <3> QED
      BY <3>1 DEF ObjectAssumption, Type
  <2> QED
    BY <1>1, <2>1 DEF Ptrs, Raws, RawFields
<1>4. /\ {F[n].index : n \in Ptrs(F)} = 0 .. Len(V) - 1
      /\ Cardinality(Ptrs(F)) = Len(V)
  <2>1. {IndexOf(F)[n] : n \in Ptrs(F)} = 0 .. Len(V) - 1 /\ Cardinality(Ptrs(F)) = Len(V)
    <3>1. PICK f, k : f = IndexOf(F) /\ k = Len(V)
      OBVIOUS
    <3>2. Numbered(Ptrs(F), k, f)
      BY <1>2, <3>1 DEF LaidOut
    <3>3. {f[a] : a \in Ptrs(F)} = 0 .. k - 1 /\ Cardinality(Ptrs(F)) = k
      BY <3>2, NumbersAre
    <3> QED
      BY <3>1, <3>3
  <2>2. \A n \in Ptrs(F) : IndexOf(F)[n] = F[n].index
    BY DEF IndexOf, Ptrs
  <2>3. {IndexOf(F)[n] : n \in Ptrs(F)} = {F[n].index : n \in Ptrs(F)}
    BY <2>2
  <2> QED
    BY <2>1, <2>3
<1>5. {F[n].order : n \in DOMAIN F} = 0 .. Cardinality(DOMAIN F) - 1
  <2>1. {OrderOf(F)[n] : n \in DOMAIN F} = 0 .. Cardinality(DOMAIN F) - 1
    <3>1. PICK f, k : f = OrderOf(F) /\ k = Cardinality(DOMAIN F)
      OBVIOUS
    <3>2. Numbered(DOMAIN F, k, f)
      BY <1>2, <3>1 DEF LaidOut
    <3>3. {f[a] : a \in DOMAIN F} = 0 .. k - 1
      BY <3>2, NumbersAre
    <3> QED
      BY <3>1, <3>3
  <2>2. \A n \in DOMAIN F : OrderOf(F)[n] = F[n].order
    BY DEF OrderOf
  <2>3. {OrderOf(F)[n] : n \in DOMAIN F} = {F[n].order : n \in DOMAIN F}
    BY <2>2
  <2> QED
    BY <2>1, <2>3
<1>6. \A n \in Raws(F) : Cells(F[n]) \subseteq 1 .. Len(R)
  BY <1>2, PlaceOfField
<1>7. \A n \in Raws(F) : F[n].index % Size(F[n].type) = 0
  BY <1>2 DEF LaidOut, Placed
<1>8. ASSUME NEW n \in Raws(F), NEW l \in Raws(F), l # n
      PROVE  Cells(F[n]) \cap Cells(F[l]) = {}
  <2>1. \/ F[n].index + Size(F[n].type) <= F[l].index
        \/ F[l].index + Size(F[l].type) <= F[n].index
    BY <1>2, <1>8 DEF LaidOut, Placed
  <2>2. /\ F[l].index \in Nat /\ F[n].index \in Nat
        /\ Size(F[l].type) \in Nat /\ Size(F[n].type) \in Nat
    BY <1>2, FieldIs, SizeIs DEF Raws
  <2> QED
    BY <2>1, <2>2 DEF Cells
<1>9. \A n \in Raws(F) : \A l \in Raws(F) \ {n} : Cells(F[n]) \cap Cells(F[l]) = {}
  BY <1>8
<1> QED
  BY <1>1, <1>3, <1>4, <1>5, <1>6, <1>7, <1>9, ZenonT(60) DEF LayoutIntact

(* The fields share no place, and the orders are those of an array. *)
THEOREM LayoutStaysIntact == ObjectAssumption => (ObjSpec => []LayoutIntact)
<1>1. SUFFICES ASSUME ObjectAssumption PROVE ObjSpec => []LayoutIntact
  OBVIOUS
<1>2. ObjSpec => []ObjectInv
  BY <1>1, ObjectHolds
<1>3. ObjectInv => LayoutIntact
  BY <1>1, LayoutOf
<1> QED
  BY <1>2, <1>3, PTL

(* Initially the object is empty, or has what its first virtual declares. *)
LEMMA InitIsObject ==
  ASSUME ObjectAssumption, ObjInit
  PROVE  Object!OInit
<1> DEFINE f == FieldsOf(o)
           S == Seen(o.virtuals)
<1>1. /\ ObjectInv
      /\ \/ DOMAIN o.fields = {} /\ S = {}
         \/ \E v \in Virtual :
              /\ S = {v} /\ DOMAIN o.fields = DOMAIN Declares[v]
              /\ \A n \in DOMAIN Declares[v] : o.fields[n].type = Declares[v][n]
  BY InitMakes
<1>2. /\ f \in [DOMAIN o.fields -> [type : Type, value : Datum]]
      /\ \A n \in DOMAIN o.fields : f[n].type = o.fields[n].type
  <2>1. PICK x : x = o /\ Valid(x) /\ Full(x)
    BY <1>1 DEF ObjectInv
  <2> QED
    BY <2>1, FieldsAre
<1> HIDE DEF f, S
<1>3. \/ f \in [{} -> [type : Type, value : Datum]] /\ S = {}
      \/ \E v \in Virtual :
           /\ f \in [DOMAIN Declares[v] -> [type : Type, value : Datum]]
           /\ \A n \in DOMAIN f : f[n].type = Declares[v][n]
           /\ S = {v}
  BY <1>1, <1>2
<1>4. f = Fields /\ S = Views
  BY DEF f, S, FieldsOf, Field, Seen, Fields, Views
<1> QED
  BY <1>3, <1>4, Zenon DEF Object!OInit

(* Each step is one of a set of typed fields with views. *)
LEMMA StepIsOfObject ==
  ASSUME ObjectAssumption, ObjectInv, [ObjNext]_o
  PROVE  [Object!OSet \/ Object!ORemove \/ Object!OFirstView \/ Object!OLaterView]_<<Fields, Views>>
<1> DEFINE f == Fields
           g == Fields'
           S == Views
           T == Views'
<1>1. \/ \E n \in Name, t \in Type, d \in Datum : g = PutIn(f, n, Field(t, d)) /\ T = S
      \/ \E n \in DOMAIN f : g = LeftOut(f, n) /\ T = S
      \/ \E v \in Virtual : v \notin S /\ T = S \cup {v} /\ Casts(f, S, v, g)
      \/ g = f /\ T = S
  <2>1. f = FieldsOf(o) /\ g = FieldsOf(o') /\ S = Seen(o.virtuals) /\ T = Seen(o'.virtuals)
    BY DEF FieldsOf, Field, Seen, Fields, Views
  <2> HIDE DEF f, g, S, T
  <2> QED
    BY <2>1, StepDoes
<1>2. f \in [DOMAIN o.fields -> [type : Type, value : Datum]]
  <2>1. PICK x : x = o /\ Valid(x) /\ Full(x)
    BY DEF ObjectInv
  <2>2. FieldsOf(x) \in [DOMAIN x.fields -> [type : Type, value : Datum]]
    BY <2>1, FieldsAre
  <2>3. f = FieldsOf(x)
    BY <2>1 DEF Fields, FieldsOf, Field
  <2> QED
    BY <2>1, <2>2, <2>3
<1> HIDE DEF f, g, S, T
<1>4. ASSUME NEW n \in Name, NEW t \in Type, NEW d \in Datum,
             g = PutIn(f, n, Field(t, d)), T = S
      PROVE  Object!OSet
  <2>1. /\ n \in Name \cap DOMAIN g /\ g[n] \in [type : Type, value : Datum]
        /\ g = [l \in DOMAIN f \cup {n} |-> IF l = n THEN g[n] ELSE f[l]]
    BY <1>4 DEF PutIn, Field
  <2> QED
    BY <1>4, <2>1, Zenon DEF Object!OSet, f, g, S, T
<1>5. ASSUME NEW n \in DOMAIN f, g = LeftOut(f, n), T = S PROVE Object!ORemove
  BY <1>5, Zenon DEF Object!ORemove, LeftOut, f, g, S, T
<1>6. ASSUME NEW v \in Virtual, v \notin S, T = S \cup {v}, Casts(f, S, v, g)
      PROVE  Object!OFirstView \/ Object!OLaterView
  <2>1. Object!Changes(v) = {n \in DOMAIN Declares[v] \cap DOMAIN f :
                               /\ f[n].type # Declares[v][n]
                               /\ ShouldRecast(f[n].type, Declares[v][n])}
    <3> DEFINE recastable == {t \in Type \X Type : ShouldRecast(t[1], t[2])}
    <3>1. Object!Changes(v) = {n \in DOMAIN Declares[v] \cap DOMAIN f :
                                 /\ f[n].type # Declares[v][n]
                                 /\ <<f[n].type, Declares[v][n]>> \in recastable}
      BY Zenon DEF Object!Changes, f
    <3>2. \A n \in DOMAIN Declares[v] \cap DOMAIN f : f[n].type \in Type /\ Declares[v][n] \in Type
      BY <1>2 DEF ObjectAssumption
    <3>3. ASSUME NEW a \in Type, NEW b \in Type
          PROVE  <<a, b>> \in recastable <=> ShouldRecast(a, b)
      OBVIOUS
    <3> HIDE DEF recastable
    <3> QED
      BY <3>1, <3>2, <3>3
  <2>2. \A n : CastOf(f, v, n) = Object!As(v, n)
    BY Zenon DEF CastOf, Field, Object!As, f
  <2> DEFINE may == Object!Changes(v)
             as(n) == Object!As(v, n)
             need == IF S = {} THEN may ELSE {}
  <2>3. \E done \in SUBSET need :
          /\ \A n \in done : ~ (CastOf(f, v, n).value = NoCast)
          /\ done = need \/ \E n \in need \ done : CastOf(f, v, n).value = NoCast
          /\ g = CastIn(f, v, done)
    BY <1>6, <2>1, Zenon DEF Casts
  <2>4. \A n : CastOf(f, v, n) = as(n)
    BY <2>2
  <2> HIDE DEF may, as
  <2>5. PICK done \in SUBSET need :
          /\ \A n \in done : as(n).value # NoCast
          /\ done = need \/ \E n \in need \ done : as(n).value = NoCast
          /\ g = [n \in DOMAIN f |-> IF n \in done THEN as(n) ELSE f[n]]
    BY <2>3, <2>4 DEF CastIn
  <2>6. CASE S = {}
    <3>1. T = {v} /\ need = may
      BY <1>6, <2>6
    <3>2. /\ done \in SUBSET may
          /\ \A n \in done : as(n).value # NoCast
          /\ done = may \/ \E n \in may \ done : as(n).value = NoCast
      BY <2>5, <3>1
    <3>3. Object!OFirstView
      BY <2>5, <2>6, <3>1, <3>2, Zenon DEF Object!OFirstView, f, g, S, T, may, as
    <3> QED
      BY <3>3
  <2>7. CASE S # {}
    <3>1. need = {}
      BY <2>7
    <3>2. g = f
      BY <1>2, <2>5, <3>1
    <3>3. v \in Virtual \ S
      BY <1>6
    <3>4. Object!OLaterView
      BY <1>6, <2>7, <3>2, <3>3, Zenon DEF Object!OLaterView, f, g, S, T
    <3> QED
      BY <3>4
  <2> QED
    BY <2>6, <2>7
<1>7. CASE g = f /\ T = S
  BY <1>7 DEF f, g, S, T
<1> QED
  BY <1>1, <1>4, <1>5, <1>6, <1>7

(* To the program the object is a set of typed fields, as it moves its data and its  *)
(* virtuals: one field is set or deleted, the first view casts those it wants as      *)
(* another type (some of them if a cast throws), and a later view changes none.       *)
THEOREM ObjectIsTypedFields == ObjectAssumption => (ObjSpec => ObjectSpec)
<1>1. SUFFICES ASSUME ObjectAssumption PROVE ObjSpec => ObjectSpec
  OBVIOUS
<1>2. ObjSpec => []ObjectInv
  BY <1>1, ObjectHolds
<1>3. ObjInit => Object!OInit
  BY <1>1, InitIsObject
<1>4. ObjectInv /\ [ObjNext]_o
        => [Object!OSet \/ Object!ORemove \/ Object!OFirstView \/ Object!OLaterView]_<<Fields, Views>>
  BY <1>1, StepIsOfObject
<1> QED
  BY <1>2, <1>3, <1>4, PTL DEF ObjSpec, ObjectSpec, Object!OSpec
=============================================================================
