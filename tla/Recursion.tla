----------------------------- MODULE Recursion ------------------------------
(***************************************************************************)
(* Induction over the naturals, for proofs about recursive functions: what *)
(* is carried from n to n + 1 holds of all, since a set of naturals has a  *)
(* first member, and the rounds of a recursion define a function.          *)
(***************************************************************************)
EXTENDS Integers, WellFoundedInduction, TLAPS

\* A set of naturals that is not empty has a first member.
LEMMA First ==
  ASSUME NEW S, S \subseteq Nat, S # {}
  PROVE  \E i \in S : \A j \in S : i <= j
<1> DEFINE Less == {x \in Nat \X Nat : x[1] < x[2]}
<1>1. IsWellFoundedOn(Less, Nat)
  BY NatLessThanWellFounded DEF OpToRel
<1>2. \A x, y \in Nat : <<x, y>> \in Less <=> x < y
  OBVIOUS
<1> HIDE DEF Less
<1>3. PICK k \in S : \A j \in S : ~ (<<j, k>> \in Less)
  BY <1>1, WFMin
<1>4. \A j \in S : j \in Nat /\ k \in Nat
  OBVIOUS
<1>5. \A j \in S : ~ (j < k)
  BY <1>2, <1>3, <1>4, Zenon
<1> QED
  BY <1>4, <1>5

\* What holds at 0 and is carried from n to n + 1 holds of every natural, as a set.
LEMMA Induction ==
  ASSUME NEW T, 0 \in T, \A n \in Nat : n \in T => n + 1 \in T
  PROVE  \A n \in Nat : n \in T
<1>1. SUFFICES ASSUME Nat \ T # {} PROVE FALSE
  OBVIOUS
<1>2. PICK n \in Nat \ T : \A j \in Nat \ T : n <= j
  BY <1>1, First
<1>3. n - 1 \in Nat /\ n - 1 \in T
  BY <1>2
<1> QED
  BY <1>2, <1>3

\* f is what step makes of start, round after round.
Iterates(f, S, start, step) ==
  /\ f \in [Nat -> S]
  /\ f[0] = start /\ \A n \in Nat : f[n + 1] = step[n + 1][f[n]]

\* There is such a function, whatever start and step are.
LEMMA Iteration ==
  ASSUME NEW S, NEW start \in S, NEW step \in [Nat -> [S -> S]]
  PROVE  \E f : Iterates(f, S, start, step)
<1> DEFINE Run(g, n) == /\ g \in [0 .. n -> S] /\ g[0] = start
                        /\ \A i \in 0 .. n - 1 : g[i + 1] = step[i + 1][g[i]]
           T == {n \in Nat : \E g : Run(g, n)}
<1>1. 0 \in T
  <2>1. Run([i \in 0 .. 0 |-> start], 0)
    OBVIOUS
  <2> QED
    BY <2>1
<1>2. ASSUME NEW n \in Nat, n \in T PROVE n + 1 \in T
  <2>1. PICK g : Run(g, n)
    BY <1>2
  <2> DEFINE h == [i \in 0 .. n + 1 |-> IF i = n + 1 THEN step[n + 1][g[n]] ELSE g[i]]
  <2>2. n + 1 \in Nat /\ g[n] \in S /\ step[n + 1] \in [S -> S]
    BY <2>1
  <2>3. step[n + 1][g[n]] \in S
    BY <2>2
  <2>4. h \in [0 .. n + 1 -> S] /\ h[0] = start
    BY <2>1, <2>3
  <2>5. ASSUME NEW i \in 0 .. n PROVE h[i + 1] = step[i + 1][h[i]]
    <3>1. i \in Nat /\ i + 1 \in 0 .. n + 1 /\ i # n + 1 /\ i \in 0 .. n + 1
      OBVIOUS
    <3>2. h[i] = g[i]
      BY <3>1
    <3>3. CASE i = n
      BY <3>1, <3>2, <3>3
    <3>4. CASE i # n
      <4>1. h[i + 1] = g[i + 1] /\ i \in 0 .. n - 1
        BY <3>1, <3>4
      <4> QED
        BY <2>1, <3>2, <4>1
    <3> QED
      BY <3>3, <3>4
  <2>6. Run(h, n + 1)
    <3>1. (n + 1) - 1 = n
      OBVIOUS
    <3> HIDE DEF h
    <3> QED
      BY <2>4, <2>5, <3>1
  <2> QED
    BY <2>2, <2>6
<1>3. \A n \in Nat : n \in T
  <2> HIDE DEF T
  <2> QED
    BY <1>1, <1>2, Induction
<1>4. ASSUME NEW m \in Nat, NEW n \in Nat, NEW g, NEW h, Run(g, m), Run(h, n)
      PROVE  \A i \in Nat : i <= m /\ i <= n => g[i] = h[i]
  <2> DEFINE U == {i \in Nat : i <= m /\ i <= n => g[i] = h[i]}
  <2>1. 0 \in U
    BY <1>4
  <2>2. ASSUME NEW i \in Nat, i \in U PROVE i + 1 \in U
    BY <1>4, <2>2
  <2>3. \A i \in Nat : i \in U
    <3> HIDE DEF U
    <3> QED
      BY <2>1, <2>2, Induction
  <2> QED
    BY <2>3
<1> DEFINE of(n) == CHOOSE g : Run(g, n)
           f == [n \in Nat |-> of(n)[n]]
<1>5. \A n \in Nat : Run(of(n), n)
  BY <1>3
<1> HIDE DEF of
<1>6. f \in [Nat -> S] /\ f[0] = start
  BY <1>5
<1>7. ASSUME NEW n \in Nat PROVE f[n + 1] = step[n + 1][f[n]]
  <2>1. Run(of(n), n) /\ Run(of(n + 1), n + 1)
    BY <1>5
  <2>2. of(n + 1)[n] = of(n)[n]
    <3> HIDE DEF Run
    <3> QED
      BY <1>4, <2>1
  <2>3. of(n + 1)[n + 1] = step[n + 1][of(n + 1)[n]]
    BY <2>1
  <2> QED
    BY <2>2, <2>3
<1> HIDE DEF f
<1>8. Iterates(f, S, start, step)
  BY <1>6, <1>7 DEF Iterates
<1> QED
  BY <1>8
=============================================================================
