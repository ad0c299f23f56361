--------------------------- MODULE AllocatorProofs ---------------------------
(***************************************************************************)
(* Proofs about the block allocator, for pages and blocks of any number.   *)
(*                                                                         *)
(* The flush is a loop, modelled as a recursive function: the loop has an  *)
(* invariant (Valid) and something that falls in every round (Rest), and   *)
(* both are carried through the rounds by induction (Recursion).  What the *)
(* flush gives (FlushSound) is a page whose list is sound; then every      *)
(* action keeps every page sound (IInv), and what the runs check follows.  *)
(***************************************************************************)
EXTENDS Allocator, Recursion, SequenceTheorems, TLAPS

\* FirstOf a set of naturals that is not empty is its first member.
LEMMA Least ==
  ASSUME NEW S, S \subseteq Nat, S # {}
  PROVE  FirstOf(S) \in S /\ \A j \in S : FirstOf(S) <= j
<1>1. \E i \in S : \A j \in S : i <= j
  BY First
<1> QED
  BY <1>1, Zenon DEF FirstOf

\* Sequences by their positions.
LEMMA Positions ==
  ASSUME NEW S, NEW s \in Seq(S)
  PROVE  /\ Len(s) \in Nat /\ (s # <<>> <=> Len(s) > 0)
         /\ DOMAIN s = 1..Len(s) /\ \A k \in 1..Len(s) : s[k] \in S
<1> QED
  BY EmptySeq, LenProperties

\* Front drops the last element.
LEMMA Fronts ==
  ASSUME NEW S, NEW s \in Seq(S), Len(s) > 0
  PROVE  /\ Front(s) \in Seq(S) /\ Len(Front(s)) = Len(s) - 1
         /\ \A k \in 1..Len(s) - 1 : Front(s)[k] = s[k]
<1>1. Len(s) \in Nat /\ \A k \in 1..Len(s) - 1 : s[k] \in S
  BY Positions
<1>2. Front(s) = SubSeq(s, 1, Len(s) - 1)
  BY DEF Front
<1>3. /\ SubSeq(s, 1, Len(s) - 1) \in Seq(S)
      /\ Len(SubSeq(s, 1, Len(s) - 1)) = IF 1 <= Len(s) - 1 THEN Len(s) - 1 - 1 + 1 ELSE 0
      /\ \A k \in 1..Len(s) - 1 - 1 + 1 : SubSeq(s, 1, Len(s) - 1)[k] = s[1 + k - 1]
  <2>1. Len(s) - 1 \in Int
    BY <1>1
  <2> QED
    BY <1>1, <2>1, SubSeqProperties
<1> HIDE DEF Front
<1>4. ASSUME NEW k \in 1..Len(s) - 1 PROVE Front(s)[k] = s[k]
  <2>1. k \in 1..Len(s) - 1 - 1 + 1 /\ 1 + k - 1 = k
    BY <1>1
  <2> QED
    BY <1>2, <1>3, <2>1
<1>5. Len(Front(s)) = Len(s) - 1
  <2>1. \A n \in Nat : n > 0 => (IF 1 <= n - 1 THEN n - 1 - 1 + 1 ELSE 0) = n - 1
    OBVIOUS
  <2> QED
    BY <1>1, <1>2, <1>3, <2>1, Zenon
<1>6. Front(s) \in Seq(S)
  BY <1>2, <1>3, Zenon
<1> QED
  BY <1>4, <1>5, <1>6, Zenon
-----------------------------------------------------------------------------
\* A run of a free list.
Run == [pos : 0..CursorMod-1, count : 0..CursorMod-1]

\* What the fields of a page of the partition are: its block numbers fit a cursor.
Setting ==
  /\ CursorMod \in Nat /\ max_blocks \in Nat /\ FirstBlock \in Nat
  /\ max_blocks <= CursorMod /\ FirstBlock + 1 < max_blocks
  /\ HasSizes \in BOOLEAN
  /\ ~ HasSizes => FirstBlock = 0
  /\ HasSizes /\ max_blocks = CursorMod => FirstBlock > 0
  /\ BlockId = 0..max_blocks-1
  /\ Blocks = FirstBlock..max_blocks-1

\* The pages of a list of pages.
LEMMA PagesOf ==
  ASSUME NEW s \in Seq(Page)
  PROVE  /\ ToSet(s) \subseteq Page
         /\ \A p : p \in ToSet(s) <=> \E i \in 1..Len(s) : p = s[i]
         /\ s # <<>> => s[1] \in ToSet(s)
<1>1. DOMAIN s = 1..Len(s) /\ Len(s) \in Nat /\ \A i \in 1..Len(s) : s[i] \in Page
  BY Positions
<1>2. s # <<>> => 1 \in 1..Len(s)
  BY Positions
<1> QED
  BY <1>1, <1>2 DEF ToSet

\* The assumptions on the constants give the setting.
LEMMA Numbers ==
  ASSUME TypeOK, FirstBlock + 1 < max_blocks
  PROVE  Setting
<1>2. max_blocks \in PageSizes
  BY DEF TypeOK
<1>3. max_blocks \in 1..CursorMod
  BY <1>2, CursorAssumption
<1>4. FirstBlock \in Nat /\ (~ HasSizes => FirstBlock = 0)
      /\ (HasSizes => FirstBlock = HeaderBlocks)
  BY HeaderAssumption DEF FirstBlock
<1>5. HasSizes /\ max_blocks = CursorMod => FirstBlock > 0
  BY <1>2, <1>4, HeaderAssumption
<1> QED
  BY <1>3, <1>4, <1>5, CountAssumption DEF Setting, BlockId, Blocks, HasSizes

\* The fields of a run are naturals.
LEMMA Fields ==
  ASSUME CursorMod \in Nat, NEW fl \in Seq(Run)
  PROVE  Len(fl) \in Nat /\ \A k \in 1..Len(fl) : fl[k].pos \in Nat /\ fl[k].count \in Nat
<1>1. Len(fl) \in Nat /\ \A k \in 1..Len(fl) : fl[k] \in Run
  BY Positions
<1> QED
  BY <1>1 DEF Run

\* What Join does: it lengthens the last run, or appends one.
LEMMA Joins ==
  ASSUME Setting, NEW fl \in Seq(Run), NEW pos \in Blocks, NEW n \in Nat
  PROVE  LET j == Join(fl, pos, n) IN
         /\ j \in Seq(Run) /\ Len(j) > 0 /\ Last(j) = j[Len(j)]
         /\ \/ /\ Len(fl) > 0 /\ fl[Len(fl)].pos + fl[Len(fl)].count = pos
               /\ Len(j) = Len(fl)
               /\ \A k \in 1..Len(fl) - 1 : j[k] = fl[k]
               /\ j[Len(j)].pos = fl[Len(fl)].pos
               /\ j[Len(j)].count = (fl[Len(fl)].count + n) % CursorMod
            \/ /\ Len(fl) > 0 => fl[Len(fl)].pos + fl[Len(fl)].count # pos
               /\ Len(j) = Len(fl) + 1
               /\ \A k \in 1..Len(fl) : j[k] = fl[k]
               /\ j[Len(j)] = [pos |-> pos, count |-> n % CursorMod]
<1> DEFINE last == fl[Len(fl)]
           j == Join(fl, pos, n)
<1>1. CursorMod \in Nat \ {0} /\ pos \in 0..CursorMod-1
  BY DEF Setting
<1>2. \A a \in Nat : a % CursorMod \in 0..CursorMod-1
  BY <1>1
<1>3. CASE Len(fl) > 0 /\ last.pos + last.count = pos
  <2> DEFINE new == [last EXCEPT !.count = (@ + n) % CursorMod]
             front == Front(fl)
  <2>1. Len(fl) \in Nat /\ Len(fl) \in 1..Len(fl) /\ fl # <<>> /\ last \in Run
    BY <1>3, Positions
  <2>2. (last.count + n) \in Nat
    BY <1>1, <2>1 DEF Run
  <2>3. new = [pos |-> last.pos, count |-> (last.count + n) % CursorMod] /\ new \in Run
    BY <1>2, <2>1, <2>2 DEF Run
  <2>4. front \in Seq(Run) /\ Len(front) = Len(fl) - 1 /\ \A k \in 1..Len(fl) - 1 : front[k] = fl[k]
    BY <1>3, Fronts
  <2>5. j = Append(front, new)
    BY <1>3, <2>1 DEF Join, Last
  <2> HIDE DEF front, new, j
  <2>6. j \in Seq(Run) /\ Len(j) = Len(fl) /\ j[Len(fl)] = new /\ \A k \in 1..Len(fl) - 1 : j[k] = front[k]
    BY <2>1, <2>3, <2>4, <2>5, AppendProperties
  <2> QED
    BY <1>3, <2>1, <2>3, <2>4, <2>6 DEF Last, j
<1>4. CASE ~ (Len(fl) > 0 /\ last.pos + last.count = pos)
  <2> DEFINE new == [pos |-> pos, count |-> n % CursorMod]
  <2>1. Len(fl) \in Nat /\ (fl # <<>> <=> Len(fl) > 0) /\ new \in Run
    <3>1. new \in Run
      BY <1>1, <1>2 DEF Run
    <3> QED
      BY <3>1, Positions
  <2>2. j = Append(fl, new)
    BY <1>4, <2>1 DEF Join, Last
  <2> HIDE DEF new, j
  <2>3. j \in Seq(Run) /\ Len(j) = Len(fl) + 1 /\ j[Len(fl) + 1] = new /\ \A k \in 1..Len(fl) : j[k] = fl[k]
    BY <2>1, <2>2, AppendProperties
  <2> QED
    BY <1>4, <2>1, <2>3 DEF Last, j, new
<1> QED
  BY <1>3, <1>4
-----------------------------------------------------------------------------
\* Where a run ends, by its count.
End(run) == run.pos + run.count

\* Block b is in a run of fl.
Within(fl, b) == \E k \in 1..Len(fl) : fl[k].pos <= b /\ b < End(fl[k])

\* No marked allocation, and no used block, is in a..e-1.
Apart(p, a, e) ==
  /\ HasSizes => \A c \in bmp[p] : c + sizes[p][c] <= a \/ e <= c
  /\ ~ HasSizes => \A u \in used : u.page = p => u.bid < a \/ e <= u.bid

\* The list made so far: in order, before block end, and without marked blocks.
Shape(p, fl, end) ==
  \A k \in 1..Len(fl) :
    /\ fl[k].pos \in Blocks /\ End(fl[k]) <= end
    /\ ~ HasSizes => fl[k].count > 0
    /\ \A j \in 1..k-1 : End(fl[j]) <= fl[k].pos
    /\ Apart(p, fl[k].pos, End(fl[k]))

\* No allocation that has its size is in a..e-1.
Clear(p, a, e) ==
  /\ \A b \in BlockId : sizes[p][b] > 0 => b + sizes[p][b] <= a \/ e <= b
  /\ ~ HasSizes => \A u \in used : u.page = p => u.bid < a \/ e <= u.bid

\* The old runs that the flush has not passed at bid.
Todo(p, left, bid) ==
  \A k \in 1..Len(left) :
    IF left[k].pos \in Blocks
    THEN /\ bid <= left[k].pos /\ End(left[k]) <= max_blocks
         /\ ~ HasSizes => left[k].count > 0 /\ (max_blocks = CursorMod => left[k].pos > 0)
         /\ \A j \in 1..k-1 : left[j].pos \in Blocks /\ End(left[j]) <= left[k].pos
         /\ Clear(p, left[k].pos, End(left[k]))
         /\ \A b \in left[k].pos..End(left[k])-1 : Within(Left(p), b)
    ELSE HasSizes /\ left[k].count = 0

\* What the flush of a page finds.
Given(p) ==
  /\ Setting
  /\ sizes[p] \in [BlockId -> 0..CursorMod-1]
  /\ bmp[p] \subseteq Blocks
  /\ HasSizes => \A c \in bmp[p] : sizes[p][c] > 0
  /\ ObjectsApart(sizes[p])
  /\ \A u \in used : u.page = p => u.bid \in bmp[p]
  /\ Left(p) \in Seq(Run) /\ Len(free[p]) \in Nat /\ Len(Left(p)) <= Len(free[p])
  /\ Todo(p, Left(p), FirstBlock)

\* Two stretches that meet.
LEMMA ApartJoins ==
  ASSUME NEW p, Given(p), NEW a \in Nat, NEW b \in Nat, NEW e \in Nat,
         Apart(p, a, b), Apart(p, b, e)
  PROVE  Apart(p, a, e)
<1>1. \A c \in bmp[p] : c \in Nat /\ (HasSizes => sizes[p][c] \in Nat /\ sizes[p][c] > 0)
  BY DEF Given, Setting
<1>2. ASSUME HasSizes, NEW c \in bmp[p] PROVE c + sizes[p][c] <= a \/ e <= c
  BY <1>1, <1>2 DEF Apart
<1>3. ASSUME ~ HasSizes, NEW u \in used, u.page = p PROVE u.bid < a \/ e <= u.bid
  <2>1. u.bid \in Nat
    BY <1>1, <1>3 DEF Given
  <2> QED
    BY <1>3, <2>1 DEF Apart
<1> QED
  BY <1>2, <1>3 DEF Apart

\* A run that continues the last one, or one behind it, keeps the shape of the list.
LEMMA Extends ==
  ASSUME NEW p, Given(p), NEW fl \in Seq(Run), NEW bid \in Blocks, NEW n \in Nat,
         bid + n <= max_blocks, ~ HasSizes => n > 0,
         Shape(p, fl, bid), Apart(p, bid, bid + n),
         bid = 0 => n < CursorMod,
         Len(fl) > 0 /\ End(fl[Len(fl)]) = bid /\ fl[Len(fl)].pos = 0 => bid + n < CursorMod
  PROVE  LET j == Join(fl, bid, n) IN
         /\ j \in Seq(Run) /\ Len(j) > 0 /\ Last(j).pos + Last(j).count = bid + n
         /\ Shape(p, j, bid + n)
         /\ \A b \in Nat : Within(j, b) <=> Within(fl, b) \/ b \in bid..bid + n - 1
<1> DEFINE j == Join(fl, bid, n)
           last == fl[Len(fl)]
<1>1. /\ j \in Seq(Run) /\ Len(j) > 0 /\ Last(j) = j[Len(j)]
      /\ \/ /\ Len(fl) > 0 /\ last.pos + last.count = bid
            /\ Len(j) = Len(fl)
            /\ \A k \in 1..Len(fl) - 1 : j[k] = fl[k]
            /\ j[Len(j)].pos = last.pos
            /\ j[Len(j)].count = (last.count + n) % CursorMod
         \/ /\ Len(fl) > 0 => last.pos + last.count # bid
            /\ Len(j) = Len(fl) + 1
            /\ \A k \in 1..Len(fl) : j[k] = fl[k]
            /\ j[Len(j)] = [pos |-> bid, count |-> n % CursorMod]
  BY Joins, Zenon DEF Given
<1> HIDE DEF j
<1>2. /\ bid \in Nat /\ max_blocks \in Nat /\ CursorMod \in Nat
      /\ max_blocks <= CursorMod /\ bid < max_blocks
  BY DEF Given, Setting
<1>3. Len(fl) \in Nat /\ \A k \in 1..Len(fl) : fl[k].pos \in Nat /\ fl[k].count \in Nat
  BY <1>2, Fields
<1>4. \A a \in Nat : a < CursorMod => a % CursorMod = a
  BY <1>2
<1>5. CASE Len(fl) > 0 /\ last.pos + last.count = bid
  <2> DEFINE L == Len(fl)
  <2>1. /\ L \in Nat /\ L \in 1..L /\ last.pos \in Nat /\ last.count \in Nat /\ last.pos \in Blocks
        /\ last.pos <= bid /\ Len(j) = L
    BY <1>1, <1>2, <1>3, <1>5 DEF Shape
  <2>2. last.count + n < CursorMod
    BY <1>2, <1>5, <2>1 DEF End
  <2>3. j[L].pos = last.pos /\ j[L].count = last.count + n
        /\ \A k \in 1..L - 1 : j[k] = fl[k]
    BY <1>1, <1>4, <1>5, <2>1, <2>2
  <2>4. Last(j).pos + Last(j).count = bid + n /\ End(j[L]) = bid + n
    <3>1. Last(j) = j[L]
      BY <1>1, <2>1, Zenon
    <3>2. last.pos + (last.count + n) = bid + n
      BY <1>2, <1>5, <2>1
    <3> HIDE DEF L, last
    <3> QED
      BY <2>3, <3>1, <3>2, Zenon DEF End
  <2>5. Apart(p, j[L].pos, End(j[L]))
    <3>1. Apart(p, last.pos, bid)
      BY <1>5, <2>1 DEF Shape, End
    <3>2. bid + n \in Nat
      BY <1>2
    <3> QED
      BY <1>2, <2>1, <2>3, <2>4, <3>1, <3>2, ApartJoins
  <2>6. Shape(p, j, bid + n)
    <3> SUFFICES ASSUME NEW k \in 1..L
                 PROVE  /\ j[k].pos \in Blocks /\ End(j[k]) <= bid + n
                        /\ ~ HasSizes => j[k].count > 0
                        /\ \A i \in 1..k-1 : End(j[i]) <= j[k].pos
                        /\ Apart(p, j[k].pos, End(j[k]))
      BY <2>1 DEF Shape
    <3>1. CASE k = L
      <4>1. ASSUME NEW i \in 1..k-1 PROVE End(j[i]) <= j[k].pos
        BY <2>1, <2>3, <3>1 DEF Shape
      <4> QED
        BY <1>2, <2>1, <2>3, <2>4, <2>5, <3>1, <4>1
    <3>2. CASE k # L
      <4>1. k \in 1..L-1 /\ j[k] = fl[k] /\ \A i \in 1..k-1 : i \in 1..L-1 /\ j[i] = fl[i]
        BY <2>1, <2>3, <3>2
      <4>2. End(fl[k]) \in Nat
        BY <1>3, <4>1 DEF End
      <4> QED
        BY <1>2, <4>1, <4>2 DEF Shape
    <3> QED
      BY <3>1, <3>2
  <2>7. ASSUME NEW b \in Nat PROVE Within(j, b) <=> Within(fl, b) \/ b \in bid..bid + n - 1
    <3>1. (\E k \in 1..L : j[k].pos <= b /\ b < End(j[k]))
          <=> (\E k \in 1..L - 1 : fl[k].pos <= b /\ b < End(fl[k]))
              \/ (last.pos <= b /\ b < bid + n)
      <4>1. \A k \in 1..L : k = L \/ k \in 1..L - 1
        BY <2>1
      <4>2. 1..L - 1 \subseteq 1..L
        BY <2>1
      <4> HIDE DEF L, last
      <4> QED
        BY <2>1, <2>3, <2>4, <4>1, <4>2, Zenon
    <3>2. (\E k \in 1..L : fl[k].pos <= b /\ b < End(fl[k]))
          <=> (\E k \in 1..L - 1 : fl[k].pos <= b /\ b < End(fl[k]))
              \/ (last.pos <= b /\ b < bid)
      BY <1>5, <2>1 DEF End
    <3>3. last.pos <= b /\ b < bid + n <=> (last.pos <= b /\ b < bid) \/ b \in bid..bid + n - 1
      BY <1>2, <2>1
    <3> QED
      BY <2>1, <3>1, <3>2, <3>3 DEF Within
  <2> QED
    BY <1>1, <2>4, <2>6, <2>7 DEF j
<1>6. CASE ~ (Len(fl) > 0 /\ last.pos + last.count = bid)
  <2> DEFINE L == Len(fl) + 1
  <2>1. L \in Nat /\ L \in 1..L /\ Len(j) = L /\ L - 1 = Len(fl)
    BY <1>1, <1>3, <1>6
  <2>2. n < CursorMod
    BY <1>2
  <2>3. j[L].pos = bid /\ j[L].count = n /\ \A k \in 1..L - 1 : j[k] = fl[k]
    <3>1. j[L] = [pos |-> bid, count |-> n % CursorMod] /\ \A k \in 1..L - 1 : j[k] = fl[k]
      BY <1>1, <1>6, <2>1, Zenon
    <3>2. n % CursorMod = n
      BY <1>4, <2>2
    <3>3. j[L].pos = bid /\ j[L].count = n % CursorMod
      <4> HIDE DEF L
      <4> QED
        BY <3>1
    <3> QED
      BY <3>1, <3>2, <3>3, Zenon
  <2>4. Last(j).pos + Last(j).count = bid + n /\ End(j[L]) = bid + n
    BY <1>1, <2>1, <2>3 DEF End
  <2>6. Shape(p, j, bid + n)
    <3> SUFFICES ASSUME NEW k \in 1..L
                 PROVE  /\ j[k].pos \in Blocks /\ End(j[k]) <= bid + n
                        /\ ~ HasSizes => j[k].count > 0
                        /\ \A i \in 1..k-1 : End(j[i]) <= j[k].pos
                        /\ Apart(p, j[k].pos, End(j[k]))
      BY <2>1 DEF Shape
    <3>1. CASE k = L
      <4>1. ASSUME NEW i \in 1..k-1 PROVE End(j[i]) <= j[k].pos
        BY <2>1, <2>3, <3>1 DEF Shape
      <4> QED
        BY <1>2, <2>1, <2>3, <2>4, <3>1, <4>1
    <3>2. CASE k # L
      <4>1. k \in 1..L-1 /\ j[k] = fl[k] /\ \A i \in 1..k-1 : i \in 1..L-1 /\ j[i] = fl[i]
        BY <2>1, <2>3, <3>2
      <4>2. End(fl[k]) \in Nat
        BY <1>3, <2>1, <4>1 DEF End
      <4> QED
        BY <1>2, <2>1, <4>1, <4>2 DEF Shape
    <3> QED
      BY <3>1, <3>2
  <2>7. ASSUME NEW b \in Nat PROVE Within(j, b) <=> Within(fl, b) \/ b \in bid..bid + n - 1
    <3>1. (\E k \in 1..L : j[k].pos <= b /\ b < End(j[k]))
          <=> (\E k \in 1..L - 1 : fl[k].pos <= b /\ b < End(fl[k]))
              \/ (bid <= b /\ b < bid + n)
      BY <2>1, <2>3, <2>4
    <3>2. bid <= b /\ b < bid + n <=> b \in bid..bid + n - 1
      BY <1>2
    <3> QED
      BY <2>1, <3>1, <3>2 DEF Within
  <2> QED
    BY <1>1, <2>4, <2>6, <2>7 DEF j
<1> QED
  BY <1>5, <1>6
-----------------------------------------------------------------------------
\* The states of the loop of the flush.
State == [bid : 0..max_blocks, left : Seq(Run), free : Seq(Run),
          sizes : [BlockId -> 0..CursorMod-1]]

\* The sizes when the loop is at bid.
Cleared(p, bid) ==
  [b \in BlockId |-> IF b < bid /\ b \notin bmp[p] THEN 0 ELSE sizes[p][b]]

\* Of the blocks before bid, those on the list were not marked or were free; any other
\* is part of a marked allocation.
Covered(p, fl, bid) ==
  \A b \in Blocks : b < bid =>
    IF Within(fl, b) THEN b \notin bmp[p] \/ Within(Left(p), b)
    ELSE \E m \in bmp[p] : m <= b /\ b < m + Span(sizes[p], m) /\ ~ Within(fl, m)

\* The loop on its way.
Normal(p, s) ==
  /\ FirstBlock <= s.bid
  /\ Todo(p, s.left, s.bid)
  /\ Shape(p, s.free, s.bid)
  /\ Covered(p, s.free, s.bid)
  /\ s.sizes = Cleared(p, s.bid)
  /\ HasSizes => \A c \in bmp[p] : c < s.bid => c + sizes[p][c] <= s.bid

\* The one run of a page that has as many blocks as a cursor counts, its count 0 again.
Whole == <<[pos |-> 0, count |-> 0]>>

\* ... and the loop that goes back to the start of it,
AtStart(p, s) ==
  /\ ~ HasSizes /\ max_blocks = CursorMod
  /\ s.bid = 0 /\ s.left = <<>> /\ s.free = Whole /\ s.sizes = NoSizes
  /\ 0 \notin bmp[p]

\* ... or has ended with it.
Full(p, s) ==
  /\ ~ HasSizes /\ max_blocks = CursorMod
  /\ s.bid = max_blocks /\ s.left = <<>> /\ s.free = Whole /\ s.sizes = NoSizes
  /\ \A u \in used : u.page # p
  /\ \A b \in Blocks : b \notin bmp[p] \/ Within(Left(p), b)

\* The invariant of the loop.
Valid(p, s) == Normal(p, s) \/ AtStart(p, s) \/ Full(p, s)

\* What is left to do: it falls in every round.
Rest(s) == (max_blocks - s.bid) + Len(s.left) + IF s.left = <<>> THEN 0 ELSE max_blocks

\* The numbers of a page that is to be flushed.
LEMMA Numerals ==
  ASSUME NEW p, Given(p)
  PROVE  /\ CursorMod \in Nat /\ max_blocks \in Nat /\ FirstBlock \in Nat
         /\ max_blocks <= CursorMod /\ FirstBlock + 1 < max_blocks
         /\ BlockId = 0..max_blocks-1 /\ Blocks = FirstBlock..max_blocks-1
         /\ sizes[p] \in [BlockId -> 0..CursorMod-1]
         /\ \A b \in BlockId : b \in Nat /\ sizes[p][b] \in Nat /\ Span(sizes[p], b) \in Nat \ {0}
                            /\ (sizes[p][b] > 0 => Span(sizes[p], b) = sizes[p][b])
                            /\ (sizes[p][b] = 0 => Span(sizes[p], b) = 1)
         /\ \A b \in bmp[p] : b \in Blocks
         /\ \A b \in Blocks : b \in BlockId
         /\ ~ HasSizes => sizes[p] = NoSizes /\ FirstBlock = 0
                          /\ \A b \in BlockId : sizes[p][b] = 0
<1>1. /\ CursorMod \in Nat /\ max_blocks \in Nat /\ FirstBlock \in Nat
      /\ max_blocks <= CursorMod /\ FirstBlock + 1 < max_blocks
      /\ BlockId = 0..max_blocks-1 /\ Blocks = FirstBlock..max_blocks-1
      /\ sizes[p] \in [BlockId -> 0..CursorMod-1]
      /\ (~ HasSizes => FirstBlock = 0)
  BY DEF Given, Setting
<1>2. \A b \in BlockId : b \in Nat /\ sizes[p][b] \in Nat
  BY <1>1
<1>3. \A b \in BlockId : Span(sizes[p], b) \in Nat \ {0}
                            /\ (sizes[p][b] > 0 => Span(sizes[p], b) = sizes[p][b])
                            /\ (sizes[p][b] = 0 => Span(sizes[p], b) = 1)
  BY <1>2 DEF Span
<1>4. ~ HasSizes => sizes[p] = NoSizes /\ \A b \in BlockId : sizes[p][b] = 0
  BY DEF Given, ObjectsApart, NoSizes
<1> QED
  BY <1>1, <1>2, <1>3, <1>4 DEF Given

\* A stretch that is put on the list keeps the loop on its way, or makes the list whole.
LEMMA Grows ==
  ASSUME NEW p, Given(p), NEW fl \in Seq(Run), NEW bid \in Blocks, NEW n \in Nat,
         NEW left \in Seq(Run),
         bid + n <= max_blocks, ~ HasSizes => n > 0, bid = 0 => n < CursorMod,
         Shape(p, fl, bid), Covered(p, fl, bid), Apart(p, bid, bid + n),
         HasSizes => \A c \in bmp[p] : c < bid => c + sizes[p][c] <= bid,
         \A b \in bid..bid + n - 1 : b \notin bmp[p] \/ Within(Left(p), b),
         Todo(p, left, bid + n)
  PROVE  LET j == Join(fl, bid, n)
             s == [bid |-> bid + n, left |-> left, free |-> j, sizes |-> Cleared(p, bid + n)]
         IN
         /\ j \in Seq(Run)
         /\ \/ Normal(p, s) /\ Last(j).pos + Last(j).count = bid + n
            \/ /\ bid + n = max_blocks /\ Last(j).pos + Last(j).count = 0
               /\ ~ HasSizes /\ max_blocks = CursorMod
               /\ left = <<>> /\ j = Whole
               /\ \A u \in used : u.page # p
               /\ \A b \in Blocks : b \notin bmp[p] \/ Within(Left(p), b)
<1> DEFINE j == Join(fl, bid, n)
           last == fl[Len(fl)]
           s == [bid |-> bid + n, left |-> left, free |-> j, sizes |-> Cleared(p, bid + n)]
<1>1. /\ CursorMod \in Nat /\ max_blocks \in Nat /\ FirstBlock \in Nat
      /\ max_blocks <= CursorMod /\ Blocks = FirstBlock..max_blocks-1
      /\ bid \in Nat /\ bid < max_blocks /\ FirstBlock <= bid
      /\ \A b \in bmp[p] : b \in Nat /\ b \in Blocks /\ sizes[p][b] \in Nat
      /\ ~ HasSizes => FirstBlock = 0
  BY Numerals
<1>2. Len(fl) \in Nat /\ \A k \in 1..Len(fl) : fl[k].pos \in Nat /\ fl[k].count \in Nat
  BY <1>1, Fields
<1>5. /\ j \in Seq(Run) /\ Len(j) > 0 /\ Last(j) = j[Len(j)]
      /\ Len(fl) > 0 /\ last.pos + last.count = bid =>
            /\ Len(j) = Len(fl)
            /\ j[Len(j)].pos = last.pos
            /\ j[Len(j)].count = (last.count + n) % CursorMod
  <2>1. Setting
    BY DEF Given
  <2>2. /\ j \in Seq(Run) /\ Len(j) > 0 /\ Last(j) = j[Len(j)]
        /\ \/ /\ Len(fl) > 0 /\ last.pos + last.count = bid
              /\ Len(j) = Len(fl)
              /\ \A k \in 1..Len(fl) - 1 : j[k] = fl[k]
              /\ j[Len(j)].pos = last.pos
              /\ j[Len(j)].count = (last.count + n) % CursorMod
           \/ /\ Len(fl) > 0 => last.pos + last.count # bid
              /\ Len(j) = Len(fl) + 1
              /\ \A k \in 1..Len(fl) : j[k] = fl[k]
              /\ j[Len(j)] = [pos |-> bid, count |-> n % CursorMod]
    BY <2>1, Joins, Zenon
  <2> HIDE DEF j, last
  <2> QED
    BY <2>2, Zenon
<1> HIDE DEF j
<1>3. CASE ~ (Len(fl) > 0 /\ End(last) = bid /\ last.pos = 0 /\ bid + n = CursorMod)
  <2>1. Len(fl) > 0 /\ End(last) = bid /\ last.pos = 0 => bid + n < CursorMod
    BY <1>1, <1>3
  <2>2. /\ j \in Seq(Run) /\ Len(j) > 0 /\ Last(j).pos + Last(j).count = bid + n
        /\ Shape(p, j, bid + n)
        /\ \A b \in Nat : Within(j, b) <=> Within(fl, b) \/ b \in bid..bid + n - 1
    BY <2>1, Extends DEF j
  <2>3. Covered(p, j, bid + n)
    <3> SUFFICES ASSUME NEW b \in Blocks, b < bid + n
                 PROVE  IF Within(j, b) THEN b \notin bmp[p] \/ Within(Left(p), b)
                        ELSE \E m \in bmp[p] : m <= b /\ b < m + Span(sizes[p], m)
                                               /\ ~ Within(j, m)
      BY DEF Covered
    <3>0. b \in Nat
      BY <1>1
    <3>1. CASE b < bid
      <4>1. b \notin bid..bid + n - 1
        BY <1>1, <3>1
      <4>2. CASE Within(fl, b)
        BY <2>2, <3>0, <3>1, <4>2 DEF Covered
      <4>3. CASE ~ Within(fl, b)
        <5>1. PICK m \in bmp[p] : m <= b /\ b < m + Span(sizes[p], m) /\ ~ Within(fl, m)
          BY <3>1, <4>3 DEF Covered
        <5>2. m \in Nat /\ m \notin bid..bid + n - 1
          BY <1>1, <3>0, <3>1, <5>1
        <5>3. ~ Within(j, m) /\ ~ Within(j, b)
          BY <2>2, <3>0, <4>1, <4>3, <5>1, <5>2
        <5> QED
          BY <5>1, <5>3
      <4> QED
        BY <4>2, <4>3
    <3>2. CASE ~ (b < bid)
      <4>1. b \in bid..bid + n - 1
        BY <1>1, <3>0, <3>2
      <4> QED
        BY <2>2, <3>0, <4>1
    <3> QED
      BY <3>1, <3>2
  <2>4. HasSizes => \A c \in bmp[p] : c < bid + n => c + sizes[p][c] <= bid + n
    <3> SUFFICES ASSUME HasSizes, NEW c \in bmp[p], c < bid + n PROVE c + sizes[p][c] <= bid + n
      OBVIOUS
    <3>1. c \in Nat /\ sizes[p][c] \in Nat /\ (c + sizes[p][c] <= bid \/ bid + n <= c)
      BY <1>1 DEF Apart
    <3> QED
      BY <1>1, <3>1
  <2>5. FirstBlock <= bid + n
    BY <1>1
  <2>6. Normal(p, s)
    BY <2>2, <2>3, <2>4, <2>5 DEF Normal
  <2> QED
    BY <2>2, <2>6 DEF j
<1>4. CASE Len(fl) > 0 /\ End(last) = bid /\ last.pos = 0 /\ bid + n = CursorMod
  <2> DEFINE L == Len(fl)
  <2>1. L \in 1..L /\ last.pos \in Blocks
    BY <1>2, <1>4 DEF Shape
  <2>2. bid + n = max_blocks /\ max_blocks = CursorMod /\ ~ HasSizes /\ FirstBlock = 0
    <3>1. bid + n = max_blocks /\ max_blocks = CursorMod /\ FirstBlock = 0
      BY <1>1, <1>4, <2>1
    <3> QED
      BY <3>1 DEF Given, Setting
  <2>3. L = 1
    <3> SUFFICES ASSUME L # 1 PROVE FALSE
      OBVIOUS
    <3>1. L \in Nat /\ 1 \in 1..L /\ 1 \in 1..L-1
      <4>1. \A m \in Nat : m # 1 /\ m \in 1..m => 1 \in 1..m /\ 1 \in 1..m-1
        OBVIOUS
      <4> QED
        BY <1>2, <2>1, <4>1, Zenon
    <3>2. End(fl[1]) <= last.pos /\ fl[1].count > 0
      BY <2>1, <2>2, <3>1 DEF Shape
    <3> QED
      BY <1>2, <1>4, <3>1, <3>2 DEF End
  <2>4. j = Whole
    <3>1. /\ j \in Seq(Run) /\ Len(j) = 1 /\ j[1].pos = 0
          /\ j[1].count = (last.count + n) % CursorMod
      <4>1. last.pos + last.count = bid
        BY <1>4 DEF End
      <4> QED
        BY <1>4, <1>5, <2>3, <4>1, Zenon
    <3>2. last.count + n = CursorMod /\ CursorMod \in Nat \ {0}
      BY <1>1, <1>2, <1>4, <2>1 DEF End
    <3>3. (last.count + n) % CursorMod = 0
      BY <3>2
    <3>4. j[1] \in Run /\ [pos |-> 0, count |-> 0] \in Run /\ j[1] = [pos |-> 0, count |-> 0]
      <4>1. j[1] \in Run
        <5>1. 1 \in 1..Len(j)
          BY <3>1
        <5> QED
          BY <3>1, <5>1, ElementOfSeq
      <4>2. 0 \in 0..CursorMod-1
        BY <3>2
      <4> QED
        BY <3>1, <3>3, <4>1, <4>2 DEF Run
    <3>5. Whole \in Seq(Run) /\ Len(Whole) = 1 /\ Whole[1] = [pos |-> 0, count |-> 0]
      BY <3>4 DEF Whole
    <3> HIDE DEF j
    <3> QED
      BY <3>1, <3>4, <3>5, SeqEqual
  <2>5. left = <<>>
    <3> SUFFICES ASSUME left # <<>> PROVE FALSE
      OBVIOUS
    <3>1. 1 \in 1..Len(left) /\ left[1] \in Run
      BY Positions
    <3>2. left[1].pos \in Blocks /\ max_blocks <= left[1].pos
      BY <2>2, <3>1 DEF Todo
    <3> QED
      BY <1>1, <3>2
  <2>6. ASSUME NEW u \in used, u.page = p PROVE FALSE
    <3>1. Apart(p, 0, bid)
      BY <1>4, <2>1 DEF Shape
    <3>2. Apart(p, 0, bid + n)
      BY <1>1, <3>1, ApartJoins
    <3>3. u.bid \in Nat /\ u.bid < max_blocks
      BY <1>1, <2>6 DEF Given
    <3> QED
      BY <1>1, <2>2, <2>6, <3>2, <3>3 DEF Apart
  <2>7. ASSUME NEW b \in Blocks PROVE b \notin bmp[p] \/ Within(Left(p), b)
    <3>1. b \in Nat /\ b < max_blocks
      BY <1>1
    <3>2. CASE b < bid
      <4>1. Within(fl, b)
        BY <1>4, <2>1, <3>1, <3>2 DEF Within
      <4> QED
        BY <3>2, <4>1 DEF Covered
    <3>3. CASE ~ (b < bid)
      <4>1. b \in bid..bid + n - 1
        BY <1>1, <2>2, <3>1, <3>3
      <4> QED
        BY <4>1
    <3> QED
      BY <3>2, <3>3
  <2>8. j \in Seq(Run) /\ Last(j).pos + Last(j).count = 0
    <3>1. 0 \in 0..CursorMod-1
      BY <1>1
    <3>2. Whole \in Seq(Run) /\ Last(Whole) = [pos |-> 0, count |-> 0]
      BY <3>1 DEF Whole, Run, Last
    <3> HIDE DEF Whole, j
    <3> QED
      BY <2>4, <3>2
  <2> HIDE DEF j
  <2> QED
    BY <2>2, <2>4, <2>5, <2>6, <2>7, <2>8 DEF j
<1> QED
  BY <1>3, <1>4
-----------------------------------------------------------------------------
\* The loop is at a run that was free before.
StartsRun(s) == s.left # <<>> /\ Head(s.left).pos = s.bid

\* The three cases of the body of the loop.
LEMMA Rebuilds ==
  ASSUME NEW p, NEW s \in State, Setting
  PROVE  LET span == Span(s.sizes, s.bid)
             joined == Join(s.free, s.bid, Head(s.left).count)
             r == Rebuild(p, s)
         IN
         /\ s.bid >= max_blocks => r = s
         /\ s.bid < max_blocks /\ StartsRun(s) =>
              r = [bid |-> Last(joined).pos + Last(joined).count, left |-> Tail(s.left),
                   free |-> joined, sizes |-> s.sizes]
         /\ s.bid < max_blocks /\ ~ StartsRun(s) /\ s.bid \in bmp[p] =>
              r = [bid |-> s.bid + span, left |-> s.left, free |-> s.free, sizes |-> s.sizes]
         /\ s.bid < max_blocks /\ ~ StartsRun(s) /\ s.bid \notin bmp[p] =>
              r = [bid |-> s.bid + span, left |-> s.left,
                   free |-> Join(s.free, s.bid, span), sizes |-> [s.sizes EXCEPT ![s.bid] = 0]]
<1>1. s.bid \in Nat /\ max_blocks \in Nat
  BY DEF State, Setting
<1>2. ~ (s.bid >= max_blocks) <=> s.bid < max_blocks
  BY <1>1
<1> DEFINE span == Span(s.sizes, s.bid)
           joined == Join(s.free, s.bid, Head(s.left).count)
           other == Join(s.free, s.bid, span)
           zero == [s.sizes EXCEPT ![s.bid] = 0]
<1> HIDE DEF span, joined, other, zero
<1>3. CASE s.bid >= max_blocks
  BY <1>2, <1>3, Zenon DEF Rebuild
<1>4. CASE s.bid < max_blocks /\ StartsRun(s)
  <2>1. Rebuild(p, s) = [s EXCEPT !.bid = Last(joined).pos + Last(joined).count,
                                  !.left = Tail(@), !.free = joined]
    BY <1>2, <1>4, Zenon DEF Rebuild, StartsRun, joined
  <2>2. Rebuild(p, s) = [bid |-> Last(joined).pos + Last(joined).count, left |-> Tail(s.left),
                         free |-> joined, sizes |-> s.sizes]
    BY <2>1 DEF State
  <2> QED
    BY <1>2, <1>4, <2>2, Zenon DEF joined
<1>5. CASE s.bid < max_blocks /\ ~ StartsRun(s) /\ s.bid \in bmp[p]
  <2>1. Rebuild(p, s) = [s EXCEPT !.bid = @ + span]
    BY <1>2, <1>5, Zenon DEF Rebuild, StartsRun, span
  <2>2. Rebuild(p, s) = [bid |-> s.bid + span, left |-> s.left,
                         free |-> s.free, sizes |-> s.sizes]
    BY <2>1 DEF State
  <2> QED
    BY <1>2, <1>5, <2>2, Zenon DEF span
<1>6. CASE s.bid < max_blocks /\ ~ StartsRun(s) /\ s.bid \notin bmp[p]
  <2>1. Rebuild(p, s) = [s EXCEPT !.bid = @ + span, !.free = other, !.sizes = zero]
    BY <1>2, <1>6, Zenon DEF Rebuild, StartsRun, span, other, zero
  <2>2. Rebuild(p, s) = [bid |-> s.bid + span, left |-> s.left,
                         free |-> other, sizes |-> zero]
    BY <2>1 DEF State
  <2> QED
    BY <1>2, <1>6, <2>2, Zenon DEF span, other, zero
<1> QED
  BY <1>2, <1>3, <1>4, <1>5, <1>6, Zenon
-----------------------------------------------------------------------------
\* The loop passes a run that was free before.
LEMMA TodoTail ==
  ASSUME NEW p, Given(p), NEW left \in Seq(Run), NEW bid \in Blocks,
         left # <<>>, Head(left).pos = bid, Todo(p, left, bid)
  PROVE  LET n == Head(left).count IN
         /\ n \in Nat /\ bid + n <= max_blocks /\ Clear(p, bid, bid + n)
         /\ ~ HasSizes => n > 0 /\ (max_blocks = CursorMod => bid > 0)
         /\ \A b \in bid..bid + n - 1 : Within(Left(p), b)
         /\ Tail(left) \in Seq(Run) /\ Len(Tail(left)) = Len(left) - 1
         /\ Todo(p, Tail(left), bid + n)
<1> DEFINE n == Head(left).count
           tail == Tail(left)
<1>1. /\ CursorMod \in Nat /\ max_blocks \in Nat /\ bid \in Nat
  BY Numerals
<1>2. /\ Len(left) \in Nat /\ 1 \in 1..Len(left) /\ Head(left) = left[1]
  <2>1. Len(left) \in Nat /\ Len(left) > 0
    BY Positions
  <2>2. Head(left) = left[1]
    OBVIOUS
  <2> QED
    BY <2>1, <2>2
<1>3. \A k \in 1..Len(left) : left[k].pos \in Nat /\ left[k].count \in Nat
  BY <1>1, Fields
<1>4. tail \in Seq(Run) /\ Len(tail) = Len(left) - 1 /\ \A k \in 1..Len(tail) : tail[k] = left[k + 1]
  BY HeadTailProperties
<1>5. End(left[1]) = bid + n /\ n \in Nat
  BY <1>2, <1>3 DEF End
<1>6. /\ bid + n <= max_blocks /\ Clear(p, bid, bid + n)
      /\ ~ HasSizes => n > 0 /\ (max_blocks = CursorMod => bid > 0)
      /\ \A b \in bid..bid + n - 1 : Within(Left(p), b)
  <2>1. left[1].pos = bid /\ left[1].count = n
    BY <1>2, Zenon
  <2>2. /\ End(left[1]) <= max_blocks /\ Clear(p, left[1].pos, End(left[1]))
        /\ ~ HasSizes => left[1].count > 0 /\ (max_blocks = CursorMod => left[1].pos > 0)
        /\ \A b \in left[1].pos..End(left[1])-1 : Within(Left(p), b)
    BY <1>2, <2>1, Zenon DEF Todo
  <2>3. End(left[1]) = bid + n /\ n \in Nat
    BY <1>5
  <2> HIDE DEF n
  <2>4. bid + n <= max_blocks /\ Clear(p, bid, bid + n)
    BY <2>1, <2>2, <2>3, Zenon
  <2>5. \A b \in bid..bid + n - 1 : Within(Left(p), b)
    BY <1>1, <2>1, <2>2, <2>3
  <2> QED
    BY <2>1, <2>2, <2>4, <2>5, Zenon
<1>7. Todo(p, tail, bid + n)
  <2> HIDE DEF tail
  <2> SUFFICES ASSUME NEW k \in 1..Len(tail)
               PROVE  IF tail[k].pos \in Blocks
                      THEN /\ bid + n <= tail[k].pos /\ End(tail[k]) <= max_blocks
                           /\ ~ HasSizes => tail[k].count > 0
                                            /\ (max_blocks = CursorMod => tail[k].pos > 0)
                           /\ \A j \in 1..k-1 : tail[j].pos \in Blocks /\ End(tail[j]) <= tail[k].pos
                           /\ Clear(p, tail[k].pos, End(tail[k]))
                           /\ \A b \in tail[k].pos..End(tail[k])-1 : Within(Left(p), b)
                      ELSE HasSizes /\ tail[k].count = 0
    BY DEF Todo
  <2>1. k + 1 \in 1..Len(left) /\ tail[k] = left[k + 1] /\ 1 \in 1..(k + 1) - 1
    BY <1>2, <1>4
  <2>2. CASE tail[k].pos \in Blocks
    <3>1. /\ End(left[1]) <= left[k + 1].pos /\ End(left[k + 1]) <= max_blocks
          /\ ~ HasSizes => left[k + 1].count > 0
                                            /\ (max_blocks = CursorMod => left[k + 1].pos > 0)
          /\ Clear(p, left[k + 1].pos, End(left[k + 1]))
          /\ \A b \in left[k + 1].pos..End(left[k + 1])-1 : Within(Left(p), b)
          /\ \A i \in 1..(k + 1) - 1 : left[i].pos \in Blocks /\ End(left[i]) <= left[k + 1].pos
      BY <2>1, <2>2 DEF Todo
    <3>2. ASSUME NEW j \in 1..k-1 PROVE tail[j].pos \in Blocks /\ End(tail[j]) <= tail[k].pos
      <4>1. tail[j] = left[j + 1] /\ j + 1 \in 1..(k + 1) - 1
        BY <1>2, <1>4
      <4> QED
        BY <2>1, <3>1, <4>1
    <3> QED
      BY <1>5, <2>1, <2>2, <3>1, <3>2
  <2>3. CASE tail[k].pos \notin Blocks
    BY <2>1, <2>3 DEF Todo
  <2> QED
    BY <2>2, <2>3
<1> QED
  BY <1>4, <1>5, <1>6, <1>7

\* The loop passes an allocation or a block: no old run starts in it.
LEMMA TodoLater ==
  ASSUME NEW p, Given(p), NEW left \in Seq(Run), NEW bid \in Blocks,
         left # <<>> => Head(left).pos # bid, Todo(p, left, bid)
  PROVE  Todo(p, left, bid + Span(sizes[p], bid))
<1> DEFINE n == Span(sizes[p], bid)
<1>1. /\ CursorMod \in Nat /\ max_blocks \in Nat /\ bid \in Nat /\ bid \in BlockId
      /\ sizes[p][bid] \in Nat /\ n \in Nat \ {0}
      /\ sizes[p][bid] > 0 => n = sizes[p][bid]
      /\ sizes[p][bid] = 0 => n = 1
  BY Numerals
<1> HIDE DEF n
<1>2. Len(left) \in Nat /\ \A k \in 1..Len(left) : left[k].pos \in Nat /\ left[k].count \in Nat
  BY <1>1, Fields
<1>3. ASSUME NEW k \in 1..Len(left), left[k].pos \in Blocks PROVE bid + n <= left[k].pos
  <2>1. 1 \in 1..Len(left) /\ left[1].pos # bid
    <3>1. left # <<>> /\ 1 \in 1..Len(left)
      BY <1>2, Positions
    <3>2. Head(left) = left[1]
      OBVIOUS
    <3> QED
      BY <3>1, <3>2
  <2>2. bid <= left[k].pos /\ left[k].pos # bid
    <3>1. CASE k = 1
      BY <1>3, <2>1, <3>1 DEF Todo
    <3>2. CASE k # 1
      <4>1. 1 \in 1..k-1
        BY <1>2, <3>2
      <4>2. left[1].pos \in Blocks /\ End(left[1]) <= left[k].pos /\ bid <= left[k].pos
        BY <1>3, <4>1 DEF Todo
      <4>3. bid <= left[1].pos
        BY <2>1, <4>2 DEF Todo
      <4> QED
        BY <1>1, <1>2, <2>1, <4>2, <4>3 DEF End
    <3> QED
      BY <3>1, <3>2
  <2>3. left[k].pos \in Nat /\ End(left[k]) \in Nat /\ left[k].pos <= End(left[k])
    BY <1>2 DEF End
  <2>4. sizes[p][bid] > 0 => bid + sizes[p][bid] <= left[k].pos \/ End(left[k]) <= bid
    <3>1. Clear(p, left[k].pos, End(left[k]))
      BY <1>3 DEF Todo
    <3> QED
      BY <1>1, <3>1 DEF Clear
  <2> QED
    BY <1>1, <2>2, <2>3, <2>4
<1> QED
  BY <1>3 DEF Todo, n

\* An allocation at bid ends in the page, and no other begins in it.
LEMMA Objects ==
  ASSUME NEW p, Given(p), NEW bid \in Blocks
  PROVE  LET n == Span(sizes[p], bid) IN
         /\ n \in Nat \ {0} /\ bid + n <= max_blocks /\ (~ HasSizes => n = 1)
         /\ \A b \in bid + 1..bid + n - 1 : b \in BlockId /\ sizes[p][b] = 0 /\ b \notin bmp[p]
<1> DEFINE n == Span(sizes[p], bid)
<1>1. /\ CursorMod \in Nat /\ max_blocks \in Nat /\ bid \in Nat /\ bid \in BlockId
      /\ sizes[p][bid] \in Nat /\ n \in Nat \ {0} /\ bid < max_blocks
      /\ sizes[p][bid] > 0 => n = sizes[p][bid]
      /\ sizes[p][bid] = 0 => n = 1
      /\ ~ HasSizes => n = 1
      /\ BlockId = 0..max_blocks-1
  BY Numerals
<1> HIDE DEF n
<1>2. CASE n = 1
  BY <1>1, <1>2 DEF n
<1>3. CASE n # 1
  <2>1. HasSizes /\ sizes[p][bid] > 0 /\ n = sizes[p][bid]
    BY <1>1, <1>3
  <2>2. bid + n <= max_blocks /\ \A b \in bid + 1..bid + n - 1 : sizes[p][b] = 0
    BY <1>1, <2>1 DEF Given, ObjectsApart
  <2>3. ASSUME NEW b \in bid + 1..bid + n - 1 PROVE b \in BlockId /\ b \notin bmp[p]
    <3>1. sizes[p][b] = 0
      BY <2>2
    <3>2. b \in BlockId
      BY <1>1, <2>2
    <3> QED
      BY <2>1, <3>1, <3>2 DEF Given
  <2> QED
    BY <1>1, <2>1, <2>2, <2>3 DEF n
<1> QED
  BY <1>2, <1>3
-----------------------------------------------------------------------------
\* The body of the loop at a run that was free before.
LEMMA StepOnRun ==
  ASSUME NEW p, Given(p), NEW s \in State, Normal(p, s), s.bid < max_blocks, StartsRun(s)
  PROVE  LET r == Rebuild(p, s) IN r \in State /\ Valid(p, r) /\ Rest(r) < Rest(s)
<1> DEFINE bid == s.bid
           n == Head(s.left).count
           j == Join(s.free, bid, n)
           tail == Tail(s.left)
           r == Rebuild(p, s)
<1>1. /\ CursorMod \in Nat /\ max_blocks \in Nat /\ FirstBlock \in Nat
      /\ max_blocks <= CursorMod
      /\ BlockId = 0..max_blocks-1 /\ Blocks = FirstBlock..max_blocks-1
      /\ \A b \in BlockId : b \in Nat /\ sizes[p][b] \in Nat
      /\ \A b \in bmp[p] : b \in Blocks
      /\ \A b \in Blocks : b \in BlockId
      /\ ~ HasSizes => FirstBlock = 0
  BY Numerals
<1>2. bid \in Blocks /\ bid \in Nat /\ s.left \in Seq(Run) /\ s.free \in Seq(Run)
  BY <1>1 DEF Normal, State
<1>3. /\ n \in Nat /\ bid + n <= max_blocks /\ Clear(p, bid, bid + n)
      /\ ~ HasSizes => n > 0 /\ (max_blocks = CursorMod => bid > 0)
      /\ \A b \in bid..bid + n - 1 : Within(Left(p), b)
      /\ tail \in Seq(Run) /\ Len(tail) = Len(s.left) - 1
      /\ Todo(p, tail, bid + n)
  BY <1>2, TodoTail DEF StartsRun, Normal
<1>4. r = [bid |-> Last(j).pos + Last(j).count, left |-> tail, free |-> j, sizes |-> s.sizes]
  <2>1. Setting
    BY DEF Given
  <2> QED
    BY <2>1, Rebuilds
<1>5. Apart(p, bid, bid + n)
  <2>1. ASSUME HasSizes, NEW c \in bmp[p] PROVE c + sizes[p][c] <= bid \/ bid + n <= c
    BY <1>1, <1>3, <2>1 DEF Given, Clear
  <2> QED
    BY <1>3, <2>1 DEF Apart, Clear
<1>6. bid = 0 => n < CursorMod
  <2>1. HasSizes /\ bid = 0 => max_blocks # CursorMod
    BY <1>1, <1>2 DEF Given, Setting
  <2> QED
    BY <1>1, <1>2, <1>3, <2>1
<1>7. s.sizes = Cleared(p, bid + n)
  <2>1. ASSUME NEW b \in BlockId
        PROVE  (b < bid /\ b \notin bmp[p]) \/ sizes[p][b] = 0
               \/ ~ (b < bid + n /\ b \notin bmp[p])
    <3>1. b \in Nat /\ sizes[p][b] \in Nat
      BY <1>1
    <3>2. sizes[p][b] > 0 => b + sizes[p][b] <= bid \/ bid + n <= b
      BY <1>3 DEF Clear
    <3> HIDE DEF bid, n
    <3>3. sizes[p][b] = 0 \/ b < bid \/ ~ (b < bid + n)
      BY <1>2, <1>3, <3>1, <3>2
    <3> QED
      BY <3>3
  <2>2. ASSUME NEW b \in BlockId, b < bid PROVE b < bid + n
    BY <1>1, <1>2, <1>3, <2>2
  <2>3. s.sizes = Cleared(p, bid)
    BY DEF Normal
  <2> QED
    BY <2>1, <2>2, <2>3 DEF Cleared
<1> DEFINE new == [bid |-> bid + n, left |-> tail, free |-> j, sizes |-> Cleared(p, bid + n)]
<1>8. /\ j \in Seq(Run)
      /\ \/ Normal(p, new) /\ Last(j).pos + Last(j).count = bid + n
         \/ /\ bid + n = max_blocks /\ Last(j).pos + Last(j).count = 0
            /\ ~ HasSizes /\ max_blocks = CursorMod
            /\ tail = <<>> /\ j = Whole
            /\ \A u \in used : u.page # p
            /\ \A b \in Blocks : b \notin bmp[p] \/ Within(Left(p), b)
  <2> HIDE DEF j, n, tail
  <2> QED
    BY <1>2, <1>3, <1>5, <1>6, Grows DEF Normal, j
<1>9. s.sizes \in [BlockId -> 0..CursorMod-1]
  BY DEF State
<1>10. Len(s.left) \in Nat /\ Len(tail) \in Nat /\ s.left # <<>>
       /\ (tail = <<>> => Len(tail) = 0)
  <2>1. \A t \in Seq(Run) : Len(t) \in Nat /\ (t = <<>> => Len(t) = 0)
    BY Positions
  <2> HIDE DEF tail
  <2> QED
    BY <1>2, <1>3, <2>1, Zenon DEF StartsRun
<1> HIDE DEF j, n, tail, r
<1>11. CASE Normal(p, new) /\ Last(j).pos + Last(j).count = bid + n
  <2>1. r = new
    BY <1>4, <1>7, <1>11
  <2>2. bid + n \in 0..max_blocks
    BY <1>1, <1>2, <1>3
  <2>3. new \in State
    BY <1>3, <1>7, <1>8, <1>9, <2>2 DEF State
  <2>4. Rest(new) < Rest(s)
    BY <1>1, <1>2, <1>3, <1>10 DEF Rest
  <2> QED
    BY <1>11, <2>1, <2>3, <2>4 DEF Valid, r
<1>12. CASE /\ bid + n = max_blocks /\ Last(j).pos + Last(j).count = 0
            /\ ~ HasSizes /\ max_blocks = CursorMod
            /\ tail = <<>> /\ j = Whole
            /\ \A b \in Blocks : b \notin bmp[p] \/ Within(Left(p), b)
  <2>1. r = [bid |-> 0, left |-> tail, free |-> j, sizes |-> s.sizes]
    BY <1>4, <1>12
  <2>2. r \in State
    BY <1>1, <1>3, <1>8, <1>9, <2>1 DEF State
  <2>3. s.sizes = NoSizes
    BY <1>1, <1>7, <1>12, Numerals DEF Cleared, NoSizes
  <2>4. 0 \notin bmp[p]
    <3>1. 0 \in Blocks
      BY <1>1, <1>2, <1>12
    <3>2. ASSUME Within(Left(p), 0) PROVE FALSE
      <4>1. PICK k \in 1..Len(Left(p)) : Left(p)[k].pos <= 0
        BY <3>2 DEF Within
      <4>2. Left(p) \in Seq(Run) /\ Todo(p, Left(p), FirstBlock)
        BY DEF Given
      <4>3. Left(p)[k].pos \in Nat
        BY <1>1, <4>2, Fields
      <4>4. Left(p)[k].pos \in Blocks /\ Left(p)[k].pos > 0
        BY <1>12, <4>2 DEF Todo
      <4> QED
        BY <4>1, <4>3, <4>4
    <3> QED
      BY <1>12, <3>1, <3>2
  <2>5. AtStart(p, r)
    BY <1>12, <2>1, <2>3, <2>4 DEF AtStart
  <2>6. Rest(r) < Rest(s)
    BY <1>1, <1>2, <1>3, <1>10, <1>12, <2>1 DEF Rest
  <2> QED
    BY <2>2, <2>5, <2>6 DEF Valid, r
<1> QED
  BY <1>8, <1>11, <1>12

\* What is left falls with every block that is passed.
LEMMA Passes ==
  ASSUME max_blocks \in Nat, NEW s, NEW r, s.bid \in Nat, r.bid \in Nat, s.bid < r.bid,
         r.left = s.left, Len(s.left) \in Nat
  PROVE  Rest(r) < Rest(s)
<1>1. \A a, b, c, d, m \in Nat : b < c => (m - c) + a + d < (m - b) + a + d
  OBVIOUS
<1>2. (IF s.left = <<>> THEN 0 ELSE max_blocks) \in Nat
  OBVIOUS
<1> QED
  BY <1>1, <1>2, Zenon DEF Rest

\* The body of the loop at a marked block,
LEMMA StepOnMarked ==
  ASSUME NEW p, Given(p), NEW s \in State, Normal(p, s), s.bid < max_blocks, ~ StartsRun(s),
         s.bid \in bmp[p]
  PROVE  LET r == Rebuild(p, s) IN r \in State /\ Valid(p, r) /\ Rest(r) < Rest(s)
<1> DEFINE bid == s.bid
           n == Span(sizes[p], bid)
           r == Rebuild(p, s)
           new == [bid |-> bid + n, left |-> s.left, free |-> s.free, sizes |-> s.sizes]
<1>1. /\ CursorMod \in Nat /\ max_blocks \in Nat /\ FirstBlock \in Nat
      /\ max_blocks <= CursorMod
      /\ BlockId = 0..max_blocks-1 /\ Blocks = FirstBlock..max_blocks-1
      /\ \A b \in BlockId : b \in Nat /\ sizes[p][b] \in Nat
      /\ \A b \in bmp[p] : b \in Blocks
      /\ \A b \in Blocks : b \in BlockId
  BY Numerals
<1>2. bid \in Blocks /\ bid \in Nat /\ s.left \in Seq(Run) /\ s.free \in Seq(Run) /\ bid \in BlockId
  BY <1>1 DEF Normal, State
<1>3. /\ n \in Nat \ {0} /\ bid + n <= max_blocks
      /\ \A b \in bid + 1..bid + n - 1 : b \in BlockId /\ sizes[p][b] = 0 /\ b \notin bmp[p]
  BY <1>2, Objects
<1>4. Span(s.sizes, bid) = n
  <2>1. s.sizes[bid] = sizes[p][bid]
    BY <1>2 DEF Normal, Cleared
  <2> QED
    BY <2>1 DEF Span
<1>5. r = new
  <2>1. Setting
    BY DEF Given
  <2> QED
    BY <1>4, <2>1, Rebuilds
<1>6. Todo(p, s.left, bid + n)
  BY <1>2, TodoLater DEF StartsRun, Normal
<1>7. s.sizes = Cleared(p, bid + n)
  <2>1. ASSUME NEW b \in BlockId
        PROVE  (b < bid /\ b \notin bmp[p]) \/ sizes[p][b] = 0
               \/ ~ (b < bid + n /\ b \notin bmp[p])
    <3>1. b \in Nat /\ (b < bid \/ b = bid \/ b \in bid + 1..bid + n - 1 \/ ~ (b < bid + n))
      BY <1>1, <1>2, <1>3
    <3> QED
      BY <1>3, <3>1
  <2>2. ASSUME NEW b \in BlockId, b < bid PROVE b < bid + n
    BY <1>1, <1>2, <1>3, <2>2
  <2>3. s.sizes = Cleared(p, bid)
    BY DEF Normal
  <2> QED
    BY <2>1, <2>2, <2>3 DEF Cleared
<1> HIDE DEF n, r
<1>8. ASSUME NEW fl \in Seq(Run), Shape(p, fl, bid)
      PROVE  Shape(p, fl, bid + n) /\ \A b \in Nat : Within(fl, b) => b < bid
  <2>1. Len(fl) \in Nat /\ \A k \in 1..Len(fl) : fl[k].pos \in Nat /\ fl[k].count \in Nat
    BY <1>1, Fields
  <2>2. \A k \in 1..Len(fl) : End(fl[k]) \in Nat /\ End(fl[k]) <= bid /\ End(fl[k]) <= bid + n
    BY <1>2, <1>3, <1>8, <2>1 DEF End, Shape
  <2> QED
    BY <1>2, <1>8, <2>2 DEF Shape, Within
<1>9. Shape(p, s.free, bid + n) /\ \A b \in Nat : Within(s.free, b) => b < bid
  BY <1>2, <1>8 DEF Normal
<1>10. Covered(p, s.free, bid + n)
  <2> SUFFICES ASSUME NEW b \in Blocks, b < bid + n
               PROVE  IF Within(s.free, b) THEN b \notin bmp[p] \/ Within(Left(p), b)
                      ELSE \E m \in bmp[p] : m <= b /\ b < m + Span(sizes[p], m)
                                             /\ ~ Within(s.free, m)
    BY DEF Covered
  <2>1. b \in Nat
    BY <1>1
  <2>2. CASE b < bid
    BY <2>2 DEF Normal, Covered
  <2>3. CASE ~ (b < bid)
    <3>1. ~ Within(s.free, b) /\ ~ Within(s.free, bid)
      BY <1>2, <1>9, <2>1, <2>3
    <3>2. bid <= b /\ b < bid + Span(sizes[p], bid)
      BY <1>2, <2>1, <2>3 DEF n
    <3> QED
      BY <3>1, <3>2
  <2> QED
    BY <2>2, <2>3
<1>11. HasSizes => \A c \in bmp[p] : c < bid + n => c + sizes[p][c] <= bid + n
  <2> SUFFICES ASSUME HasSizes, NEW c \in bmp[p], c < bid + n PROVE c + sizes[p][c] <= bid + n
    OBVIOUS
  <2>1. c \in Nat /\ sizes[p][c] \in Nat /\ c \notin bid + 1..bid + n - 1
    BY <1>1, <1>3
  <2>2. CASE c < bid
    <3>1. c + sizes[p][c] <= bid
      BY <2>2 DEF Normal
    <3> QED
      BY <1>2, <1>3, <2>1, <3>1
  <2>3. CASE ~ (c < bid)
    <3>1. c = bid
      BY <1>2, <1>3, <2>1, <2>3
    <3>2. sizes[p][bid] > 0
      BY DEF Given
    <3>3. sizes[p][bid] = n
      BY <1>2, <3>2, Numerals DEF n
    <3> QED
      BY <1>2, <1>3, <3>1, <3>3
  <2> QED
    BY <2>2, <2>3
<1>12. Normal(p, new)
  <2>1. FirstBlock <= bid + n
    BY <1>1, <1>2, <1>3
  <2> QED
    BY <1>6, <1>7, <1>9, <1>10, <1>11, <2>1 DEF Normal
<1>13. new \in State
  <2>1. bid + n \in 0..max_blocks
    BY <1>1, <1>2, <1>3
  <2> QED
    BY <1>2, <2>1 DEF State
<1>14. Rest(new) < Rest(s)
  <2>1. Len(s.left) \in Nat
    BY <1>2, Positions
  <2>2. s.bid \in Nat /\ new.bid \in Nat /\ s.bid < new.bid /\ new.left = s.left
    BY <1>2, <1>3
  <2> QED
    BY <1>1, <2>1, <2>2, Passes
<1> QED
  BY <1>5, <1>12, <1>13, <1>14 DEF Valid, r

\* ... at a block that is not marked.
LEMMA StepOnFree ==
  ASSUME NEW p, Given(p), NEW s \in State, Normal(p, s), s.bid < max_blocks, ~ StartsRun(s),
         s.bid \notin bmp[p]
  PROVE  LET r == Rebuild(p, s) IN r \in State /\ Valid(p, r) /\ Rest(r) < Rest(s)
<1> DEFINE bid == s.bid
           n == Span(sizes[p], bid)
           j == Join(s.free, bid, n)
           r == Rebuild(p, s)
           new == [bid |-> bid + n, left |-> s.left, free |-> j, sizes |-> Cleared(p, bid + n)]
<1>1. /\ CursorMod \in Nat /\ max_blocks \in Nat /\ FirstBlock \in Nat
      /\ max_blocks <= CursorMod /\ FirstBlock + 1 < max_blocks
      /\ BlockId = 0..max_blocks-1 /\ Blocks = FirstBlock..max_blocks-1
      /\ \A b \in BlockId : b \in Nat /\ sizes[p][b] \in Nat
      /\ \A b \in bmp[p] : b \in Blocks
      /\ \A b \in Blocks : b \in BlockId
      /\ ~ HasSizes => FirstBlock = 0 /\ \A b \in BlockId : sizes[p][b] = 0
  BY Numerals
<1>2. bid \in Blocks /\ bid \in Nat /\ s.left \in Seq(Run) /\ s.free \in Seq(Run) /\ bid \in BlockId
  BY <1>1 DEF Normal, State
<1>3. /\ n \in Nat \ {0} /\ bid + n <= max_blocks /\ (~ HasSizes => n = 1)
      /\ \A b \in bid + 1..bid + n - 1 : b \in BlockId /\ sizes[p][b] = 0 /\ b \notin bmp[p]
  BY <1>2, Objects
<1>4. Span(s.sizes, bid) = n
  <2>1. s.sizes[bid] = sizes[p][bid]
    BY <1>2 DEF Normal, Cleared
  <2> QED
    BY <2>1 DEF Span
<1>5. r = [bid |-> bid + n, left |-> s.left, free |-> j, sizes |-> [s.sizes EXCEPT ![bid] = 0]]
  <2>1. Setting
    BY DEF Given
  <2> QED
    BY <1>4, <2>1, Rebuilds
<1>6. Todo(p, s.left, bid + n)
  BY <1>2, TodoLater DEF StartsRun, Normal
<1> HIDE DEF n, r
<1>7. [s.sizes EXCEPT ![bid] = 0] = Cleared(p, bid + n)
  <2>1. ASSUME NEW b \in BlockId, b # bid
        PROVE  (b < bid /\ b \notin bmp[p]) \/ sizes[p][b] = 0
               \/ ~ (b < bid + n /\ b \notin bmp[p])
    <3>1. b \in Nat /\ (b < bid \/ b \in bid + 1..bid + n - 1 \/ ~ (b < bid + n))
      BY <1>1, <1>2, <1>3, <2>1
    <3> QED
      BY <1>3, <3>1
  <2>2. ASSUME NEW b \in BlockId, b < bid PROVE b < bid + n
    BY <1>1, <1>2, <1>3, <2>2
  <2>3. s.sizes = Cleared(p, bid) /\ bid < bid + n
    BY <1>2, <1>3 DEF Normal
  <2> QED
    BY <1>2, <2>1, <2>2, <2>3 DEF Cleared
<1>8. \A b \in bid..bid + n - 1 : b \notin bmp[p]
  <2>1. \A b \in bid..bid + n - 1 : b = bid \/ b \in bid + 1..bid + n - 1
    BY <1>2, <1>3
  <2> QED
    BY <1>3, <2>1
<1>9. Apart(p, bid, bid + n)
  <2>1. ASSUME HasSizes, NEW c \in bmp[p] PROVE c + sizes[p][c] <= bid \/ bid + n <= c
    <3>1. c \in Nat /\ c \notin bid..bid + n - 1
      BY <1>1, <1>8
    <3>2. c < bid => c + sizes[p][c] <= bid
      BY <2>1 DEF Normal
    <3> QED
      BY <1>2, <1>3, <3>1, <3>2
  <2>2. ASSUME ~ HasSizes, NEW u \in used, u.page = p PROVE u.bid < bid \/ bid + n <= u.bid
    <3>1. u.bid \in bmp[p]
      BY <2>2 DEF Given
    <3>2. u.bid \in Nat /\ u.bid # bid
      BY <1>1, <3>1
    <3> QED
      BY <1>2, <1>3, <2>2, <3>2
  <2> QED
    BY <2>1, <2>2 DEF Apart
<1>10. bid = 0 => n < CursorMod
  <2>1. HasSizes /\ bid = 0 => max_blocks # CursorMod
    BY <1>1, <1>2 DEF Given, Setting
  <2> QED
    BY <1>1, <1>2, <1>3, <2>1
<1>11. /\ j \in Seq(Run)
       /\ \/ Normal(p, new) /\ Last(j).pos + Last(j).count = bid + n
          \/ /\ bid + n = max_blocks
             /\ ~ HasSizes /\ max_blocks = CursorMod
             /\ s.left = <<>> /\ j = Whole
             /\ \A u \in used : u.page # p
             /\ \A b \in Blocks : b \notin bmp[p] \/ Within(Left(p), b)
  <2>1. n \in Nat /\ n > 0
    BY <1>3
  <2> HIDE DEF j
  <2> QED
    BY <1>2, <1>3, <1>6, <1>8, <1>9, <1>10, <2>1, Grows DEF Normal, j
<1> HIDE DEF j
<1>12. r = new
  BY <1>5, <1>7
<1>13. new \in State
  <2>1. bid + n \in 0..max_blocks /\ 0 \in 0..CursorMod-1
    BY <1>1, <1>2, <1>3
  <2>2. [s.sizes EXCEPT ![bid] = 0] \in [BlockId -> 0..CursorMod-1]
    BY <2>1 DEF State
  <2> QED
    BY <1>2, <1>7, <1>11, <2>1, <2>2 DEF State
<1>14. Rest(new) < Rest(s)
  <2>1. Len(s.left) \in Nat
    BY <1>2, Positions
  <2>2. s.bid \in Nat /\ new.bid \in Nat /\ s.bid < new.bid /\ new.left = s.left
    BY <1>2, <1>3
  <2> QED
    BY <1>1, <2>1, <2>2, Passes
<1>15. CASE Normal(p, new)
  BY <1>12, <1>13, <1>14, <1>15 DEF Valid, r
<1>16. CASE /\ bid + n = max_blocks
            /\ ~ HasSizes /\ max_blocks = CursorMod
            /\ s.left = <<>> /\ j = Whole
            /\ \A u \in used : u.page # p
            /\ \A b \in Blocks : b \notin bmp[p] \/ Within(Left(p), b)
  <2>1. Cleared(p, bid + n) = NoSizes
    BY <1>1, <1>16 DEF Cleared, NoSizes
  <2>2. Full(p, new)
    BY <1>16, <2>1 DEF Full
  <2> QED
    BY <1>12, <1>13, <1>14, <2>2 DEF Valid, r
<1> QED
  BY <1>11, <1>15, <1>16

\* ... at the start again, after a list that was whole.
LEMMA StepAtStart ==
  ASSUME NEW p, Given(p), NEW s \in State, AtStart(p, s)
  PROVE  LET r == Rebuild(p, s) IN
         s.bid < max_blocks /\ r \in State /\ Valid(p, r) /\ Rest(r) < Rest(s)
<1> DEFINE j == Join(Whole, 0, 1)
           r == Rebuild(p, s)
<1>1. /\ CursorMod \in Nat /\ max_blocks \in Nat /\ FirstBlock = 0 /\ 1 < max_blocks
      /\ max_blocks = CursorMod /\ ~ HasSizes
      /\ BlockId = 0..max_blocks-1 /\ Blocks = 0..max_blocks-1
      /\ \A b \in bmp[p] : b \in Blocks
      /\ sizes[p] = NoSizes
      /\ \A b \in BlockId : b \in Nat
  BY Numerals DEF AtStart
<1>2. s.bid = 0 /\ s.left = <<>> /\ s.free = Whole /\ s.sizes = NoSizes /\ 0 \notin bmp[p]
      /\ s.free \in Seq(Run) /\ s.left \in Seq(Run)
  BY DEF AtStart, State
<1>3. Span(NoSizes, 0) = 1
  BY <1>1 DEF Span, NoSizes
<1>4. r = [bid |-> 1, left |-> <<>>, free |-> j, sizes |-> [NoSizes EXCEPT ![0] = 0]]
  <2>1. Setting
    BY DEF Given
  <2>2. s.bid < max_blocks /\ ~ StartsRun(s) /\ s.bid \notin bmp[p]
    BY <1>1, <1>2 DEF StartsRun
  <2>3. r = [bid |-> s.bid + Span(s.sizes, s.bid), left |-> s.left,
             free |-> Join(s.free, s.bid, Span(s.sizes, s.bid)),
             sizes |-> [s.sizes EXCEPT ![s.bid] = 0]]
    BY <2>1, <2>2, Rebuilds
  <2>4. s.bid + Span(s.sizes, s.bid) = 1
    BY <1>2, <1>3
  <2> HIDE DEF r
  <2> QED
    BY <1>2, <1>3, <2>3, <2>4, Zenon
<1>5. [NoSizes EXCEPT ![0] = 0] = NoSizes /\ Cleared(p, 1) = NoSizes
      /\ NoSizes \in [BlockId -> 0..CursorMod-1]
  BY <1>1 DEF NoSizes, Cleared
<1>6. Len(Whole) = 1 /\ Whole[1].pos = 0 /\ Whole[1].count = 0
  BY DEF Whole
<1>7. j \in Seq(Run) /\ Len(j) = 1 /\ j[1].pos = 0 /\ j[1].count = 1
  <2>1. Setting /\ 0 \in Blocks /\ 1 \in Nat
    BY <1>1 DEF Given
  <2>2. Len(Whole) > 0 /\ Whole[Len(Whole)].pos + Whole[Len(Whole)].count = 0
    BY <1>6
  <2>3. j \in Seq(Run) /\ Len(j) = Len(Whole)
        /\ j[Len(j)].pos = Whole[Len(Whole)].pos
        /\ j[Len(j)].count = (Whole[Len(Whole)].count + 1) % CursorMod
    <3>1. Whole \in Seq(Run)
      BY <1>2
    <3> HIDE DEF Whole, j
    <3>2. /\ j \in Seq(Run) /\ Len(j) > 0 /\ Last(j) = j[Len(j)]
          /\ \/ /\ Len(Whole) > 0 /\ Whole[Len(Whole)].pos + Whole[Len(Whole)].count = 0
                /\ Len(j) = Len(Whole)
                /\ \A k \in 1..Len(Whole) - 1 : j[k] = Whole[k]
                /\ j[Len(j)].pos = Whole[Len(Whole)].pos
                /\ j[Len(j)].count = (Whole[Len(Whole)].count + 1) % CursorMod
             \/ /\ Len(Whole) > 0 => Whole[Len(Whole)].pos + Whole[Len(Whole)].count # 0
                /\ Len(j) = Len(Whole) + 1
                /\ \A k \in 1..Len(Whole) : j[k] = Whole[k]
                /\ j[Len(j)] = [pos |-> 0, count |-> 1 % CursorMod]
      BY <2>1, <3>1, Joins, Zenon DEF j
    <3> QED
      BY <2>2, <3>2, Zenon
  <2>4. (0 + 1) % CursorMod = 1
    BY <1>1
  <2> HIDE DEF j, Whole
  <2> QED
    BY <1>6, <2>3, <2>4
<1> HIDE DEF j
<1>8. \A b \in Nat : Within(j, b) <=> b = 0
  <2>1. \A b \in Nat : b = 0 <=> 0 <= b /\ b < 0 + 1
    OBVIOUS
  <2>2. \A k \in 1..1 : k = 1
    OBVIOUS
  <2>3. 1 \in 1..1
    OBVIOUS
  <2> QED
    BY <1>7, <2>1, <2>2, <2>3, Zenon DEF Within, End
<1>9. Normal(p, r)
  <2>1. Todo(p, <<>>, 1)
    BY DEF Todo
  <2>2. Shape(p, j, 1)
    <3>1. ASSUME NEW u \in used, u.page = p PROVE 1 <= u.bid
      <4>1. u.bid \in bmp[p]
        BY <3>1 DEF Given
      <4> QED
        BY <1>1, <1>2, <4>1
    <3>2. Apart(p, 0, 1)
      BY <1>1, <3>1 DEF Apart
    <3> QED
      BY <1>1, <1>7, <3>2 DEF Shape, End
  <2>3. Covered(p, j, 1)
    <3> SUFFICES ASSUME NEW b \in Blocks, b < 1 PROVE b = 0
      BY <1>2, <1>8 DEF Covered
    <3> QED
      BY <1>1
  <2> QED
    BY <1>1, <1>4, <1>5, <2>1, <2>2, <2>3 DEF Normal
<1>10. r \in State
  <2>1. 1 \in 0..max_blocks /\ <<>> \in Seq(Run)
    BY <1>1, <1>2
  <2>2. r = [bid |-> 1, left |-> <<>>, free |-> j, sizes |-> NoSizes]
    BY <1>4, <1>5, Zenon
  <2> HIDE DEF r
  <2> QED
    BY <1>5, <1>7, <2>1, <2>2 DEF State
<1>11. Rest(r) < Rest(s)
  <2>1. Len(<<>>) = 0
    OBVIOUS
  <2> QED
    BY <1>1, <1>2, <1>4, <2>1 DEF Rest
<1> QED
  BY <1>1, <1>2, <1>9, <1>10, <1>11 DEF Valid

\* The invariant of the loop holds after its body, and less is left.
LEMMA Steps ==
  ASSUME NEW p, Given(p), NEW s \in State, Valid(p, s)
  PROVE  LET r == Rebuild(p, s) IN
         r \in State /\ Valid(p, r) /\ (s.bid < max_blocks => Rest(r) < Rest(s))
<1>1. s.bid \in Nat /\ max_blocks \in Nat /\ Setting
  <2>1. max_blocks \in Nat
    BY Numerals
  <2> QED
    BY <2>1 DEF State, Given
<1>2. CASE s.bid < max_blocks
  <2>1. ~ Full(p, s)
    BY <1>1, <1>2 DEF Full
  <2> QED
    BY <1>2, <2>1, StepOnRun, StepOnMarked, StepOnFree, StepAtStart DEF Valid
<1>3. CASE ~ (s.bid < max_blocks)
  <2>1. s.bid >= max_blocks
    BY <1>1, <1>3
  <2> QED
    BY <1>1, <1>3, <2>1, Rebuilds
<1> QED
  BY <1>2, <1>3
-----------------------------------------------------------------------------
\* The recursive function Walk is what the loop does, and its values keep the invariant.
LEMMA Walks ==
  ASSUME NEW p, Given(p)
  PROVE  LET S == {s \in State : Valid(p, s)} IN
         /\ Walk(p) \in [Nat -> S]
         /\ Rest(Walk(p)[0]) <= Rounds(p)
         /\ \A n \in Nat : Walk(p)[n + 1] = Rebuild(p, Walk(p)[n])
<1> DEFINE S == {s \in State : Valid(p, s)}
           start == [bid |-> FirstBlock, left |-> Left(p), free |-> <<>>, sizes |-> sizes[p]]
           step == [n \in Nat |-> [s \in S |-> Rebuild(p, s)]]
<1>1. /\ CursorMod \in Nat /\ max_blocks \in Nat /\ FirstBlock \in Nat
      /\ FirstBlock + 1 < max_blocks
      /\ BlockId = 0..max_blocks-1 /\ Blocks = FirstBlock..max_blocks-1
      /\ sizes[p] \in [BlockId -> 0..CursorMod-1]
      /\ \A b \in BlockId : b \in Nat /\ sizes[p][b] \in Nat
      /\ ~ HasSizes => \A b \in BlockId : sizes[p][b] = 0
  BY Numerals
<1>2. start \in State
  <2>1. FirstBlock \in 0..max_blocks /\ <<>> \in Seq(Run)
    BY <1>1, EmptySeq
  <2> QED
    BY <1>1, <2>1 DEF State, Given
<1>3. Normal(p, start)
  <2>1. ASSUME NEW b \in BlockId, b < FirstBlock PROVE sizes[p][b] = 0
    <3>1. ObjectsApart(sizes[p])
      BY DEF Given
    <3>2. b \notin Blocks
      BY <1>1, <2>1
    <3>3. ~ (sizes[p][b] > 0)
      BY <1>1, <3>1, <3>2 DEF ObjectsApart
    <3> QED
      BY <1>1, <3>3
  <2>2. sizes[p] = Cleared(p, FirstBlock)
    BY <1>1, <2>1 DEF Cleared
  <2>3. \A b \in Blocks : b \in Nat /\ ~ (b < FirstBlock)
    BY <1>1
  <2>4. Shape(p, <<>>, FirstBlock)
    BY DEF Shape
  <2>5. Covered(p, <<>>, FirstBlock)
    BY <2>3 DEF Covered
  <2>6. HasSizes => \A c \in bmp[p] : c < FirstBlock => c + sizes[p][c] <= FirstBlock
    BY <2>3 DEF Given
  <2> QED
    BY <1>1, <2>2, <2>4, <2>5, <2>6 DEF Normal, Given
<1>4. start \in S
  BY <1>2, <1>3 DEF Valid
<1>5. step \in [Nat -> [S -> S]]
  BY Steps
<1>6. Rest(start) <= Rounds(p)
  <2>1. Len(Left(p)) \in Nat
    BY Positions DEF Given
  <2>2. Len(free[p]) \in Nat /\ Len(Left(p)) <= Len(free[p])
    BY DEF Given
  <2>3. start.bid = FirstBlock /\ start.left = Left(p)
    OBVIOUS
  <2> HIDE DEF start
  <2>4. Rest(start) = (max_blocks - FirstBlock) + Len(Left(p))
                      + IF Left(p) = <<>> THEN 0 ELSE max_blocks
    BY <2>3, Zenon DEF Rest
  <2>5. \A a, b, c, d \in Nat : b < a /\ c <= d =>
           (a - b) + c + 0 <= 2 * a + d /\ (a - b) + c + a <= 2 * a + d
    OBVIOUS
  <2>6. /\ (max_blocks - FirstBlock) + Len(Left(p)) + 0 <= Rounds(p)
        /\ (max_blocks - FirstBlock) + Len(Left(p)) + max_blocks <= Rounds(p)
    <3>1. FirstBlock < max_blocks
      BY <1>1
    <3> QED
      BY <1>1, <2>1, <2>2, <2>5, <3>1, Zenon DEF Rounds
  <2> QED
    BY <2>4, <2>6, Zenon
<1> DEFINE Is(f) == f = [n \in Nat |-> IF n = 0 THEN start ELSE Rebuild(p, f[n - 1])]
<1> HIDE DEF S, start
<1>7. PICK f \in [Nat -> S] : f[0] = start /\ \A n \in Nat : f[n + 1] = step[n + 1][f[n]]
  <2> HIDE DEF step
  <2>1. PICK f : Iterates(f, S, start, step)
    BY <1>4, <1>5, Iteration, Zenon
  <2> QED
    BY <2>1, Zenon DEF Iterates
<1>8. \A n \in Nat : f[n + 1] = Rebuild(p, f[n])
  <2>1. \A n \in Nat : n + 1 \in Nat /\ f[n] \in S
    BY <1>7
  <2>2. \A n \in Nat, s \in S : step[n][s] = Rebuild(p, s)
    OBVIOUS
  <2> HIDE DEF step
  <2> QED
    BY <1>7, <2>1, <2>2, Zenon
<1>9. Is(f)
  <2>1. ASSUME NEW n \in Nat PROVE f[n] = IF n = 0 THEN start ELSE Rebuild(p, f[n - 1])
    <3>1. CASE n = 0
      BY <1>7, <3>1
    <3>2. CASE n # 0
      <4>1. n - 1 \in Nat /\ (n - 1) + 1 = n
        BY <3>2
      <4> QED
        BY <1>8, <3>2, <4>1
    <3> QED
      BY <3>1, <3>2
  <2> HIDE DEF step
  <2> QED
    BY <1>7, <2>1
<1>10. Walk(p) = CHOOSE g : Is(g)
  BY DEF Walk, start
<1> HIDE DEF Is
<1>11. Is(Walk(p))
  BY <1>9, <1>10, Zenon
<1>12. /\ Walk(p)[0] = start
       /\ \A n \in Nat : Walk(p)[n + 1] = Rebuild(p, Walk(p)[n])
  <2> DEFINE g == Walk(p)
  <2> HIDE DEF g
  <2>1. g = [n \in Nat |-> IF n = 0 THEN start ELSE Rebuild(p, g[n - 1])]
    BY <1>11, Zenon DEF Is, g
  <2>2. g[0] = start /\ \A n \in Nat : g[n + 1] = Rebuild(p, g[n])
    BY <2>1
  <2> QED
    BY <2>2 DEF g
<1>13. \A n \in Nat : Walk(p)[n] \in S
  <2> DEFINE T == {n \in Nat : Walk(p)[n] \in S}
  <2>1. 0 \in T
    BY <1>4, <1>12
  <2>2. ASSUME NEW n \in Nat, n \in T PROVE n + 1 \in T
    BY <1>12, <2>2, Steps DEF S
  <2>3. \A n \in Nat : n \in T
    <3> HIDE DEF T
    <3> QED
      BY <2>1, <2>2, Induction
  <2> QED
    BY <2>3
<1>14. Walk(p) \in [Nat -> S]
  <2> DEFINE g == Walk(p)
  <2> HIDE DEF g
  <2>1. g = [n \in Nat |-> IF n = 0 THEN start ELSE Rebuild(p, g[n - 1])]
    BY <1>11, Zenon DEF Is, g
  <2>2. \A n \in Nat : g[n] \in S
    BY <1>13 DEF g
  <2>3. g \in [Nat -> S]
    BY <2>1, <2>2
  <2> QED
    BY <2>3 DEF g
<1> QED
  BY <1>6, <1>12, <1>14 DEF S

\* Rounds is enough of them: the flush ends past the last block.
LEMMA Flushes ==
  ASSUME NEW p, Given(p)
  PROVE  Flush(p) \in State /\ Valid(p, Flush(p)) /\ Flush(p).bid = max_blocks
<1> DEFINE W(n) == Walk(p)[n]
           T == {n \in Nat : W(n).bid < max_blocks => Rest(W(n)) + n <= Rounds(p)}
<1>1. /\ \A n \in Nat : W(n) \in State /\ Valid(p, W(n)) /\ W(n + 1) = Rebuild(p, W(n))
      /\ Rest(W(0)) <= Rounds(p)
  BY Walks
<1> HIDE DEF W
<1>2. max_blocks \in Nat /\ Rounds(p) \in Nat /\ Setting
  BY Numerals DEF Rounds, Given
<1>3. ASSUME NEW s \in State PROVE s.bid \in 0..max_blocks /\ Rest(s) \in Nat
                                  /\ (s.bid < max_blocks => Rest(s) > 0)
  <2>1. s.bid \in 0..max_blocks /\ s.left \in Seq(Run)
    BY DEF State
  <2>2. Len(s.left) \in Nat
    BY <2>1, Positions
  <2> QED
    BY <1>2, <2>1, <2>2 DEF Rest
<1>4. 0 \in T
  BY <1>1, <1>3
<1>5. ASSUME NEW n \in Nat, n \in T PROVE n + 1 \in T
  <2>1. W(n) \in State /\ W(n + 1) \in State /\ n + 1 \in Nat
    BY <1>1
  <2>2. W(n).bid < max_blocks => Rest(W(n + 1)) < Rest(W(n))
    BY <1>1, Steps
  <2>3. ~ (W(n).bid < max_blocks) => W(n + 1) = W(n)
    <3>1. ~ (W(n).bid < max_blocks) => W(n).bid >= max_blocks
      BY <1>2, <1>3, <2>1
    <3> QED
      BY <1>1, <1>2, <3>1, Rebuilds
  <2>4. Rest(W(n)) \in Nat /\ Rest(W(n + 1)) \in Nat
    BY <1>3, <2>1
  <2> QED
    BY <1>2, <1>5, <2>1, <2>2, <2>3, <2>4
<1>6. \A n \in Nat : n \in T
  <2> HIDE DEF T
  <2> QED
    BY <1>4, <1>5, Induction
<1> DEFINE f == W(Rounds(p))
<1>7. f \in State /\ Valid(p, f) /\ Flush(p) = f
  BY <1>1, <1>2 DEF Flush, W
<1>8. f.bid < max_blocks => Rest(f) + Rounds(p) <= Rounds(p)
  BY <1>2, <1>6
<1> HIDE DEF f
<1>9. f.bid \in 0..max_blocks /\ Rest(f) \in Nat /\ (f.bid < max_blocks => Rest(f) > 0)
  BY <1>3, <1>7
<1>10. f.bid = max_blocks
  BY <1>2, <1>8, <1>9
<1> QED
  BY <1>7, <1>10
-----------------------------------------------------------------------------
\* The fields of a page.
Typed(x) ==
  /\ x.free \in Seq(Run) /\ x.current \in 0..Len(x.free)
  /\ x.sizes \in [BlockId -> 0..CursorMod-1]

\* The blocks of page p that the program uses.
UsedTyped(p) == \A u \in used : u.page = p => u.bid \in BlockId /\ u.size \in Nat \ {0}

\* The count of a run, and the number of its blocks.
LEMMA Counts ==
  ASSUME Setting, NEW fl \in Seq(Run), NEW k \in 1..Len(fl)
  PROVE  LET c == Count(fl[k]) IN
         /\ fl[k].pos \in Nat /\ fl[k].count \in Nat /\ c \in Nat
         /\ fl[k].pos < CursorMod /\ fl[k].count < CursorMod
         /\ (HasSizes \/ fl[k].count > 0) => c = fl[k].count
         /\ ~ HasSizes => c > 0 /\ (fl[k].count = 0 => c = CursorMod)
<1>1. fl[k] \in Run /\ CursorMod \in Nat
  BY Positions DEF Setting
<1>2. /\ fl[k].pos \in Nat /\ fl[k].count \in Nat
      /\ fl[k].pos < CursorMod /\ fl[k].count < CursorMod
  BY <1>1 DEF Run
<1>3. HasSizes \in BOOLEAN
  BY DEF Setting
<1> QED
  BY <1>1, <1>2, <1>3 DEF Count

\* The blocks of an allocation.
LEMMA InRun ==
  ASSUME NEW pos \in Nat, NEW n \in Nat
  PROVE  \A b : b \in RunOf(pos, n) <=> b \in Nat /\ pos <= b /\ b < pos + n
BY DEF RunOf

\* The blocks of a run.
LEMMA InFree ==
  ASSUME Setting, NEW fl \in Seq(Run), NEW k \in 1..Len(fl)
  PROVE  \A b : b \in FreeBlocks(fl[k]) <=>
                 b \in Nat /\ fl[k].pos <= b /\ b < fl[k].pos + Count(fl[k])
<1>1. fl[k].pos \in Nat /\ Count(fl[k]) \in Nat
  BY Counts
<1> QED
  BY <1>1, InRun, Zenon DEF FreeBlocks

\* What IInv says of a page that is to be flushed is what the flush needs.
LEMMA Due ==
  ASSUME Setting, NEW p, Typed(Stored(p)), UsedTyped(p),
         Sound(p, Stored(p)), StartTaken(p), MarksHold(p), need_flush[p]
  PROVE  Given(p)
<1> DEFINE fl == free[p]
           cur == current[p]
           left == Left(p)
<1>1. /\ fl \in Seq(Run) /\ cur \in 0..Len(fl)
      /\ sizes[p] \in [BlockId -> 0..CursorMod-1]
  BY DEF Typed, Stored
<1>2. /\ CursorMod \in Nat /\ max_blocks \in Nat /\ FirstBlock \in Nat
      /\ max_blocks <= CursorMod /\ HasSizes \in BOOLEAN
      /\ BlockId = 0..max_blocks-1 /\ Blocks = FirstBlock..max_blocks-1
  BY DEF Setting
<1>3. Len(fl) \in Nat /\ cur \in Nat /\ cur <= Len(fl)
  BY <1>1, Positions
<1>4. /\ left \in Seq(Run) /\ Len(left) = Len(fl) - cur
      /\ \A k \in 1..Len(fl) - cur : left[k] = fl[cur + k] /\ cur + k \in 1..Len(fl)
                                     /\ cur + k \in Ahead(Stored(p))
  <2>1. left = SubSeq(fl, cur + 1, Len(fl))
    BY DEF Left
  <2>2. cur + 1 \in Int /\ Len(fl) \in Int /\ \A i \in cur + 1..Len(fl) : fl[i] \in Run
    BY <1>1, <1>3, Positions
  <2> HIDE DEF left, cur, fl
  <2>3. /\ left \in Seq(Run)
        /\ Len(left) = IF cur + 1 <= Len(fl) THEN Len(fl) - (cur + 1) + 1 ELSE 0
        /\ \A i \in 1..Len(fl) - (cur + 1) + 1 : left[i] = fl[cur + 1 + i - 1]
    BY <2>1, <2>2, SubSeqProperties
  <2>4. Len(left) = Len(fl) - cur
    BY <1>3, <2>3
  <2>5. ASSUME NEW k \in 1..Len(fl) - cur PROVE left[k] = fl[cur + k] /\ cur + k \in cur + 1..Len(fl)
    <3>1. k \in 1..Len(fl) - (cur + 1) + 1 /\ cur + 1 + k - 1 = cur + k
      BY <1>3
    <3> QED
      BY <1>3, <2>3, <3>1
  <2> QED
    BY <1>3, <2>3, <2>4, <2>5 DEF Ahead, Stored, cur, fl
<1>5. \A u \in used : u.page = p => u.bid \in bmp[p] /\ u.bid \in Nat
  BY <1>2 DEF MarksHold, UsedTyped
<1> HIDE DEF left, fl, cur
<1>6. Todo(p, left, FirstBlock)
  <2> SUFFICES ASSUME NEW k \in 1..Len(left)
               PROVE  IF left[k].pos \in Blocks
                      THEN /\ FirstBlock <= left[k].pos /\ End(left[k]) <= max_blocks
                           /\ ~ HasSizes => left[k].count > 0
                                            /\ (max_blocks = CursorMod => left[k].pos > 0)
                           /\ \A j \in 1..k-1 : left[j].pos \in Blocks /\ End(left[j]) <= left[k].pos
                           /\ Clear(p, left[k].pos, End(left[k]))
                           /\ \A b \in left[k].pos..End(left[k])-1 : Within(left, b)
                      ELSE HasSizes /\ left[k].count = 0
    BY DEF Todo, left
  <2>1. /\ k \in Nat /\ left[k] = fl[cur + k] /\ cur + k \in 1..Len(fl) /\ cur + k \in Ahead(Stored(p))
        /\ \A j \in 1..k-1 : j \in 1..Len(left) /\ left[j] = fl[cur + j] /\ cur + j < cur + k
                             /\ cur + j \in 1..Len(fl) /\ cur + j \in Ahead(Stored(p))
    BY <1>3, <1>4
  <2>2. Stored(p).free = fl /\ Stored(p).sizes = sizes[p]
    BY DEF Stored, fl
  <2>3. CASE left[k].pos \in Blocks
    <3>1. ASSUME NEW j \in 1..Len(left), left[j].pos \in Blocks
          PROVE  /\ Count(left[j]) = left[j].count /\ left[j].pos + Count(left[j]) = End(left[j])
                 /\ End(left[j]) <= max_blocks
                 /\ ~ HasSizes => left[j].count > 0
                                  /\ (max_blocks = CursorMod => left[j].pos > 0)
      <4>1. left[j] = fl[cur + j] /\ cur + j \in 1..Len(fl) /\ cur + j \in Ahead(Stored(p))
        BY <1>4
      <4>2. left[j].pos + Count(left[j]) <= max_blocks
        BY <2>2, <3>1, <4>1 DEF Sound, RunsInOrder
      <4>3. ~ HasSizes /\ max_blocks = CursorMod => left[j].pos > 0
        BY <4>1 DEF StartTaken, fl
      <4>4. /\ left[j].pos \in Nat /\ left[j].count \in Nat /\ Count(left[j]) \in Nat
            /\ (HasSizes \/ left[j].count > 0) => Count(left[j]) = left[j].count
            /\ ~ HasSizes => Count(left[j]) > 0 /\ (left[j].count = 0 => Count(left[j]) = CursorMod)
        BY <1>1, <1>4, Counts
      <4>5. ~ HasSizes => left[j].count > 0
        <5>1. ~ HasSizes /\ ~ (left[j].count > 0) => left[j].pos + CursorMod <= max_blocks
          BY <4>2, <4>4
        <5> QED
          BY <1>2, <4>3, <4>4, <5>1
      <4>6. Count(left[j]) = left[j].count
        BY <1>2, <4>4, <4>5
      <4> QED
        BY <4>2, <4>3, <4>5, <4>6 DEF End
    <3>2. ASSUME NEW j \in 1..k-1 PROVE left[j].pos \in Blocks /\ End(left[j]) <= left[k].pos
      <4>1. left[j].pos \in Blocks /\ left[j].pos + Count(left[j]) <= left[k].pos
        BY <2>1, <2>2, <2>3 DEF Sound, RunsInOrder
      <4> QED
        BY <2>1, <3>1, <4>1
    <3>3. Clear(p, left[k].pos, End(left[k]))
      <4>1. /\ \A b \in BlockId : sizes[p][b] > 0 =>
                 b + sizes[p][b] <= left[k].pos \/ End(left[k]) <= b
            /\ ~ HasSizes => \A u \in used : u.page = p => u.bid \notin FreeBlocks(left[k])
        BY <2>1, <2>2, <2>3, <3>1 DEF Sound, RunsFree
      <4>2. /\ left[k].pos \in Nat /\ left[k].pos + Count(left[k]) = End(left[k])
            /\ \A b : b \in FreeBlocks(left[k]) <=>
                      b \in Nat /\ left[k].pos <= b /\ b < left[k].pos + Count(left[k])
        BY <1>4, <2>3, <3>1, Counts, InFree
      <4>3. End(left[k]) \in Nat
        BY <1>2, <1>4, Fields DEF End
      <4>4. ASSUME ~ HasSizes, NEW u \in used, u.page = p
            PROVE  u.bid < left[k].pos \/ End(left[k]) <= u.bid
        <5>1. u.bid \in Nat /\ ~ (left[k].pos <= u.bid /\ u.bid < End(left[k]))
          BY <1>5, <4>1, <4>2, <4>4
        <5> QED
          BY <4>2, <4>3, <5>1
      <4> QED
        BY <4>1, <4>4 DEF Clear
    <3>4. ASSUME NEW b \in left[k].pos..End(left[k])-1 PROVE Within(left, b)
      <4>1. left[k].pos \in Nat /\ End(left[k]) \in Nat
        BY <1>2, <1>4, Fields DEF End
      <4>2. left[k].pos <= b /\ b < End(left[k])
        BY <4>1
      <4> QED
        BY <4>2 DEF Within
    <3>5. FirstBlock <= left[k].pos
      BY <1>2, <2>3
    <3> QED
      BY <2>3, <3>1, <3>2, <3>3, <3>4, <3>5
  <2>4. CASE left[k].pos \notin Blocks
    BY <2>1, <2>2, <2>4 DEF Sound, RunsInOrder
  <2> QED
    BY <2>3, <2>4
<1>7. ObjectsApart(sizes[p])
  BY DEF Sound, Stored
<1>8. Len(left) <= Len(fl)
  BY <1>3, <1>4
<1> QED
  BY <1>1, <1>3, <1>4, <1>5, <1>6, <1>7, <1>8 DEF Given, MarksHold, left, fl

\* The blocks on a list.
LEMMA Lists ==
  ASSUME Setting, NEW fl \in Seq(Run)
  PROVE  /\ \A b : b \in Listed(fl) <=> \E k \in 1..Len(fl) : b \in FreeBlocks(fl[k])
         /\ \A b \in Nat : Within(fl, b) => b \in Listed(fl)
         /\ (\A k \in 1..Len(fl) : HasSizes \/ fl[k].count > 0) =>
               \A b : b \in Listed(fl) <=> b \in Nat /\ Within(fl, b)
<1>1. \A b : b \in Listed(fl) <=> \E k \in 1..Len(fl) : b \in FreeBlocks(fl[k])
  <2>1. DOMAIN fl = 1..Len(fl)
    BY Positions
  <2> QED
    BY <2>1, Zenon DEF Listed, Runs
<1>2. ASSUME NEW k \in 1..Len(fl)
      PROVE  /\ \A b \in Nat : fl[k].pos <= b /\ b < End(fl[k]) => b \in FreeBlocks(fl[k])
             /\ (HasSizes \/ fl[k].count > 0) =>
                  \A b : b \in FreeBlocks(fl[k]) <=> b \in Nat /\ fl[k].pos <= b /\ b < End(fl[k])
  <2> DEFINE pos == fl[k].pos
             n == fl[k].count
             c == Count(fl[k])
  <2>1. /\ pos \in Nat /\ n \in Nat /\ c \in Nat /\ n <= c
        /\ (HasSizes \/ n > 0) => c = n
    BY Counts DEF Setting
  <2>2. End(fl[k]) = pos + n
    BY DEF End
  <2>3. \A b : b \in FreeBlocks(fl[k]) <=> b \in Nat /\ pos <= b /\ b < pos + c
    BY InFree
  <2> HIDE DEF pos, n, c
  <2>4. \A b \in Nat : b < pos + n => b < pos + c
    BY <2>1
  <2> QED
    BY <2>1, <2>2, <2>3, <2>4, Zenon DEF pos, n
<1>3. ASSUME NEW b \in Nat, Within(fl, b) PROVE b \in Listed(fl)
  BY <1>1, <1>2, <1>3, Zenon DEF Within
<1>4. ASSUME \A k \in 1..Len(fl) : HasSizes \/ fl[k].count > 0, NEW b \in Listed(fl)
      PROVE  b \in Nat /\ Within(fl, b)
  BY <1>1, <1>2, <1>4, Zenon DEF Within
<1> QED
  BY <1>1, <1>3, <1>4, Zenon

\* FlushExact of one page.
Exact(p) ==
  \E f \in {Flush(p)} : \E listed \in {Listed(f.free)} :
    /\ Listed(f.left) = {}
    /\ listed \subseteq Blocks /\ RunsApart(f.free)
    /\ \A b \in Blocks :
         IF b \in listed
         THEN b \notin bmp[p] \/ b \in Listed(Left(p))
         ELSE \E m \in bmp[p] \ listed : b \in RunOf(m, Span(f.sizes, m))

\* The page once it is flushed.
Flushed(p) == [free |-> Flush(p).free, current |-> 0, sizes |-> Flush(p).sizes]

\* The flush makes a sound page of what it is given, and an exact one; of the sizes it
\* leaves those of the marked blocks.
LEMMA FlushSound ==
  ASSUME NEW p, Given(p), UsedTyped(p), UsedKept(p, Stored(p))
  PROVE  /\ Typed(Flushed(p)) /\ Sound(p, Flushed(p))
         /\ \A b \in BlockId : Flushed(p).sizes[b] = IF b \in bmp[p] THEN sizes[p][b] ELSE 0
         /\ Exact(p)
<1> DEFINE f == Flush(p)
           fl == f.free
           sz == f.sizes
           x == Flushed(p)
<1>1. /\ CursorMod \in Nat \ {0} /\ max_blocks \in Nat /\ FirstBlock \in Nat
      /\ max_blocks <= CursorMod /\ FirstBlock + 1 < max_blocks
      /\ BlockId = 0..max_blocks-1 /\ Blocks = FirstBlock..max_blocks-1
      /\ \A b \in BlockId : b \in Nat /\ sizes[p][b] \in Nat
      /\ \A b \in bmp[p] : b \in Blocks
      /\ \A b \in Blocks : b \in BlockId
      /\ ~ HasSizes => FirstBlock = 0 /\ \A b \in BlockId : sizes[p][b] = 0
  BY Numerals
<1>2. /\ f \in State /\ Valid(p, f) /\ f.bid = max_blocks
  BY Flushes
<1>3. Setting /\ Left(p) \in Seq(Run)
  BY DEF Given
<1>4. /\ fl \in Seq(Run) /\ f.left \in Seq(Run) /\ sz \in [BlockId -> 0..CursorMod-1]
  BY <1>2 DEF State
<1>5. /\ x.free = fl /\ x.current = 0 /\ x.sizes = sz
  BY DEF Flushed
<1> HIDE DEF f, x
<1>6. ~ AtStart(p, f)
  BY <1>1, <1>2 DEF AtStart
<1>7. Normal(p, f) \/ Full(p, f)
  BY <1>2, <1>6 DEF Valid
<1>8. \A b \in BlockId : sz[b] = IF b \in bmp[p] THEN sizes[p][b] ELSE 0
  <2>1. CASE Normal(p, f)
    BY <1>1, <1>2, <2>1 DEF Normal, Cleared
  <2>2. CASE Full(p, f)
    BY <1>1, <2>2 DEF Full, NoSizes
  <2> QED
    BY <1>7, <2>1, <2>2
<1>9. Len(fl) \in Nat /\ Ahead(x) = 1..Len(fl)
  <2>1. Len(fl) \in Nat
    BY <1>4, Positions
  <2> QED
    BY <1>5, <2>1 DEF Ahead
<1>10. Typed(x)
  BY <1>4, <1>5, <1>9 DEF Typed
<1>11. ASSUME NEW k \in 1..Len(fl)
       PROVE  /\ fl[k].pos \in Blocks /\ fl[k].pos \in Nat /\ Count(fl[k]) \in Nat
              /\ fl[k].pos + Count(fl[k]) <= max_blocks
              /\ \A j \in 1..Len(fl) : j < k => fl[j].pos + Count(fl[j]) <= fl[k].pos
              /\ Apart(p, fl[k].pos, fl[k].pos + Count(fl[k]))
  <2>1. CASE Normal(p, f)
    <3>1. Shape(p, fl, max_blocks)
      BY <1>2, <2>1 DEF Normal
    <3>2. ASSUME NEW j \in 1..Len(fl) PROVE Count(fl[j]) = fl[j].count /\ fl[j].pos + Count(fl[j]) = End(fl[j])
                                            /\ Count(fl[j]) \in Nat
      <4>1. ~ HasSizes => fl[j].count > 0
        BY <3>1 DEF Shape
      <4>2. Count(fl[j]) \in Nat /\ (HasSizes \/ fl[j].count > 0 => Count(fl[j]) = fl[j].count)
        BY <1>3, <1>4, Counts
      <4> QED
        BY <4>1, <4>2 DEF End
    <3>3. fl[k].pos \in Blocks /\ End(fl[k]) <= max_blocks /\ Apart(p, fl[k].pos, End(fl[k]))
          /\ \A j \in 1..k-1 : End(fl[j]) <= fl[k].pos
      BY <3>1 DEF Shape
    <3>4. \A j \in 1..Len(fl) : j < k => j \in 1..k-1
      BY <1>9
    <3> QED
      BY <1>1, <3>2, <3>3, <3>4
  <2>2. CASE Full(p, f)
    <3>1. /\ fl = Whole /\ ~ HasSizes /\ max_blocks = CursorMod
          /\ \A u \in used : u.page # p
      BY <2>2 DEF Full
    <3>2. Len(fl) = 1 /\ fl[1].pos = 0 /\ fl[1].count = 0
      BY <3>1 DEF Whole
    <3>3. k = 1
      BY <3>2
    <3>4. Count(fl[k]) = CursorMod /\ fl[k].pos = 0
      BY <3>1, <3>2, <3>3 DEF Count
    <3>5. Apart(p, 0, 0 + CursorMod)
      BY <3>1 DEF Apart
    <3>6. \A j \in 1..Len(fl) : ~ (j < k)
      BY <3>2, <3>3
    <3> QED
      BY <1>1, <3>1, <3>4, <3>5, <3>6
  <2> QED
    BY <1>7, <2>1, <2>2
<1>12. RunsInOrder(x)
  BY <1>5, <1>9, <1>11 DEF RunsInOrder
<1>13. ObjectsApart(sz)
  <2>1. CASE HasSizes
    <3> SUFFICES ASSUME NEW b \in BlockId, sz[b] > 0
                 PROVE  /\ b \in Blocks /\ b + sz[b] <= max_blocks
                        /\ \A c \in b + 1..b + sz[b] - 1 : sz[c] = 0
      BY <2>1 DEF ObjectsApart
    <3>1. b \in bmp[p] /\ sz[b] = sizes[p][b] /\ b \in Blocks
      BY <1>1, <1>8
    <3>2. /\ b + sizes[p][b] <= max_blocks
          /\ \A c \in b + 1..b + sizes[p][b] - 1 : sizes[p][c] = 0
      BY <2>1, <3>1 DEF Given, ObjectsApart
    <3>3. \A c \in b + 1..b + sizes[p][b] - 1 : c \in BlockId
      BY <1>1, <3>2
    <3> QED
      BY <1>8, <3>1, <3>2, <3>3
  <2>2. CASE ~ HasSizes
    <3>1. \A b \in BlockId : sz[b] = 0
      BY <1>1, <1>8, <2>2
    <3>2. sz = NoSizes
      BY <1>4, <3>1 DEF NoSizes
    <3> QED
      BY <2>2, <3>2 DEF ObjectsApart
  <2> QED
    BY <2>1, <2>2
<1>14. RunsFree(p, x)
  <2> SUFFICES ASSUME NEW k \in 1..Len(fl)
               PROVE  /\ \A b \in BlockId : sz[b] > 0 =>
                           \/ b + sz[b] <= fl[k].pos
                           \/ fl[k].pos + Count(fl[k]) <= b
                      /\ ~ HasSizes => \A u \in used : u.page = p => u.bid \notin FreeBlocks(fl[k])
    BY <1>5, <1>9 DEF RunsFree
  <2>1. ASSUME NEW b \in BlockId, sz[b] > 0
        PROVE  b + sz[b] <= fl[k].pos \/ fl[k].pos + Count(fl[k]) <= b
    <3>1. b \in bmp[p] /\ sz[b] = sizes[p][b] /\ HasSizes
      BY <1>1, <1>8, <2>1
    <3> QED
      BY <1>11, <3>1 DEF Apart
  <2>2. ASSUME ~ HasSizes, NEW u \in used, u.page = p PROVE u.bid \notin FreeBlocks(fl[k])
    <3>1. u.bid < fl[k].pos \/ fl[k].pos + Count(fl[k]) <= u.bid
      BY <1>11, <2>2 DEF Apart
    <3>2. u.bid \in Nat
      BY <1>1, <2>2 DEF UsedTyped
    <3>3. u.bid \in FreeBlocks(fl[k]) => fl[k].pos <= u.bid /\ u.bid < fl[k].pos + Count(fl[k])
      BY <1>3, <1>4, InFree
    <3> QED
      BY <1>11, <3>1, <3>2, <3>3
  <2> QED
    BY <2>1, <2>2
<1>15. UsedKept(p, x)
  <2> SUFFICES ASSUME NEW u \in used, u.page = p
               PROVE  IF HasSizes THEN sz[u.bid] = u.size ELSE u.bid \in Blocks /\ u.size = 1
    BY <1>5 DEF UsedKept
  <2>1. u.bid \in bmp[p] /\ u.bid \in BlockId
    BY DEF Given, UsedTyped
  <2> QED
    BY <1>8, <2>1 DEF UsedKept, Stored
<1>16. Sound(p, x)
  BY <1>5, <1>12, <1>13, <1>14, <1>15 DEF Sound
<1>17. \A k \in 1..Len(fl) : \A b :
         b \in FreeBlocks(fl[k]) <=> b \in Nat /\ fl[k].pos <= b /\ b < fl[k].pos + Count(fl[k])
  BY <1>3, <1>4, InFree
<1>18. Listed(f.left) = {}
  <2>1. CASE Normal(p, f)
    <3>1. ASSUME NEW k \in 1..Len(f.left) PROVE FreeBlocks(f.left[k]) = {}
      <4>1. f.left[k].pos \in Nat /\ f.left[k].count \in Nat
        BY <1>1, <1>4, Fields
      <4>2. ~ (f.left[k].pos \in Blocks)
        BY <1>1, <1>2, <2>1, <4>1 DEF Normal, Todo
      <4>3. HasSizes /\ f.left[k].count = 0
        BY <2>1, <4>2 DEF Normal, Todo
      <4>4. Count(f.left[k]) = 0
        BY <4>3 DEF Count
      <4>5. \A b : b \in FreeBlocks(f.left[k]) =>
                    b \in Nat /\ f.left[k].pos <= b /\ b < f.left[k].pos + Count(f.left[k])
        BY <1>3, <1>4, InFree
      <4>6. \A b : ~ (b \in FreeBlocks(f.left[k]))
        BY <4>1, <4>4, <4>5
      <4> QED
        BY <4>6
    <3>2. \A b : ~ (b \in Listed(f.left))
      BY <1>3, <1>4, <3>1, Lists
    <3> QED
      BY <3>2
  <2>2. CASE Full(p, f)
    <3>1. f.left = <<>> /\ <<>> \in Seq(Run) /\ Len(<<>>) = 0
      BY <1>4, <2>2 DEF Full
    <3>2. \A b : b \in Listed(<<>>) <=> \E k \in 1..0 : b \in FreeBlocks(<<>>[k])
      <4>1. \A b : b \in Listed(<<>>) <=> \E k \in 1..Len(<<>>) : b \in FreeBlocks(<<>>[k])
        BY <1>3, <3>1, Lists
      <4> QED
        BY <3>1, <4>1
    <3>3. Listed(<<>>) = {}
      BY <3>2
    <3> QED
      BY <3>1, <3>3
  <2> QED
    BY <1>7, <2>1, <2>2
<1>19. \A b : b \in Listed(fl) <=> \E k \in 1..Len(fl) : b \in FreeBlocks(fl[k])
  BY <1>3, <1>4, Lists
<1>20. Listed(fl) \subseteq Blocks
  <2> SUFFICES ASSUME NEW b \in Listed(fl) PROVE b \in Blocks
    OBVIOUS
  <2>1. PICK k \in 1..Len(fl) : b \in FreeBlocks(fl[k])
    BY <1>19
  <2>2. b \in Nat /\ fl[k].pos <= b /\ b < fl[k].pos + Count(fl[k])
    BY <1>17, <2>1
  <2>3. fl[k].pos \in Blocks /\ fl[k].pos \in Nat /\ fl[k].pos + Count(fl[k]) <= max_blocks
        /\ Count(fl[k]) \in Nat
    BY <1>11
  <2> QED
    BY <1>1, <2>2, <2>3
<1>21. RunsApart(fl)
  <2>1. DOMAIN fl = 1..Len(fl)
    BY <1>4, Positions
  <2>2. ASSUME NEW j \in 1..Len(fl), NEW k \in 1..Len(fl), j < k
        PROVE  FreeBlocks(fl[j]) \cap FreeBlocks(fl[k]) = {}
    <3>1. /\ fl[j].pos + Count(fl[j]) <= fl[k].pos /\ fl[k].pos \in Nat /\ fl[j].pos \in Nat
          /\ Count(fl[j]) \in Nat /\ Count(fl[k]) \in Nat
      BY <1>11, <2>2
    <3>2. ASSUME NEW b, b \in FreeBlocks(fl[j]), b \in FreeBlocks(fl[k]) PROVE FALSE
      <4>1. b \in Nat /\ b < fl[j].pos + Count(fl[j]) /\ fl[k].pos <= b
        BY <1>17, <3>2
      <4> QED
        BY <3>1, <4>1
    <3> QED
      BY <3>2
  <2>3. \A j, k \in 1..Len(fl) : j # k => j < k \/ k < j
    BY <1>9
  <2> QED
    BY <2>1, <2>2, <2>3 DEF RunsApart
<1>22. ASSUME NEW b \in Blocks
       PROVE  IF b \in Listed(fl)
              THEN b \notin bmp[p] \/ b \in Listed(Left(p))
              ELSE \E m \in bmp[p] \ Listed(fl) : b \in RunOf(m, Span(sz, m))
  <2>1. b \in Nat /\ b < max_blocks
    BY <1>1
  <2>2. Within(Left(p), b) => b \in Listed(Left(p))
    BY <1>3, <2>1, Lists
  <2>3. CASE Normal(p, f)
    <3>1. \A c : c \in Listed(fl) <=> c \in Nat /\ Within(fl, c)
      <4>1. \A k \in 1..Len(fl) : HasSizes \/ fl[k].count > 0
        BY <2>3 DEF Normal, Shape
      <4> QED
        BY <1>3, <1>4, <4>1, Lists
    <3>2. CASE b \in Listed(fl)
      BY <1>2, <2>1, <2>2, <2>3, <3>1, <3>2 DEF Normal, Covered
    <3>3. CASE b \notin Listed(fl)
      <4>1. ~ Within(fl, b)
        BY <2>1, <3>1, <3>3
      <4>2. PICK m \in bmp[p] : m <= b /\ b < m + Span(sizes[p], m) /\ ~ Within(fl, m)
        BY <1>2, <2>1, <2>3, <4>1 DEF Normal, Covered
      <4>3. m \notin Listed(fl) /\ m \in BlockId /\ m \in Nat
        BY <1>1, <3>1, <4>2
      <4>4. Span(sz, m) = Span(sizes[p], m) /\ Span(sizes[p], m) \in Nat
        <5>1. sz[m] = sizes[p][m]
          BY <1>8, <4>2, <4>3
        <5>2. Span(sizes[p], m) \in Nat
          BY <4>3, Numerals
        <5> QED
          BY <5>1, <5>2 DEF Span
      <4>6. b \in RunOf(m, Span(sz, m))
        BY <2>1, <4>2, <4>3, <4>4, InRun
      <4> QED
        BY <3>3, <4>2, <4>3, <4>6
    <3> QED
      BY <3>2, <3>3
  <2>4. CASE Full(p, f)
    <3>1. b \in Listed(fl)
      <4>1. /\ fl = Whole /\ ~ HasSizes /\ max_blocks = CursorMod
        BY <2>4 DEF Full
      <4>2. Len(fl) = 1 /\ fl[1].pos = 0 /\ fl[1].count = 0
        BY <4>1 DEF Whole
      <4>3. Count(fl[1]) = CursorMod /\ 1 \in 1..Len(fl)
        BY <4>1, <4>2 DEF Count
      <4>4. b \in FreeBlocks(fl[1])
        BY <1>1, <1>17, <2>1, <4>1, <4>2, <4>3
      <4> QED
        BY <1>19, <4>3, <4>4
    <3>2. b \notin bmp[p] \/ Within(Left(p), b)
      BY <2>4 DEF Full
    <3> QED
      BY <2>2, <3>1, <3>2
  <2> QED
    BY <1>7, <2>3, <2>4
<1>23. Exact(p)
  BY <1>18, <1>20, <1>21, <1>22 DEF Exact, f
<1> QED
  BY <1>5, <1>8, <1>10, <1>16, <1>23 DEF x
-----------------------------------------------------------------------------
\* What IInv says of a page that is in use.
LEMMA Pages ==
  ASSUME IInv, NEW p \in InUse
  PROVE  /\ Setting /\ p \in Page
         /\ Typed(Stored(p)) /\ UsedTyped(p) /\ bmp[p] \subseteq BlockId
         /\ Sound(p, Stored(p)) /\ StartTaken(p) /\ MarksHold(p)
<1>1. TypeOK
  BY DEF IInv
<1>2. Setting
  <2>1. pages # <<>>
    BY DEF InUse, ToSet
  <2> QED
    BY <1>1, <2>1, Numbers DEF IInv
<1>3. p \in Page
  BY <1>1, PagesOf DEF TypeOK, InUse
<1>4. Typed(Stored(p)) /\ bmp[p] \subseteq BlockId
  <2>1. free[p] \in Seq(Run) /\ current[p] \in 0..Len(free[p]) /\ sizes[p] \in [BlockId -> 0..CursorMod-1]
        /\ bmp[p] \subseteq BlockId
    BY <1>1, <1>3 DEF TypeOK, Run
  <2> QED
    BY <2>1 DEF Typed, Stored
<1>5. UsedTyped(p)
  <2>1. \A u \in used : u \in [page : Page, bid : BlockId, size : 1..CursorMod]
    BY <1>1 DEF TypeOK
  <2>2. \A u \in used : u.bid \in BlockId /\ u.size \in 1..CursorMod
    BY <2>1
  <2> QED
    BY <1>2, <2>2 DEF UsedTyped, Setting
<1> QED
  BY <1>2, <1>3, <1>4, <1>5 DEF IInv

\* A page is sound as an allocation finds it,
LEMMA FoundSound ==
  ASSUME IInv, NEW p \in InUse
  PROVE  /\ Typed(Found(p)) /\ Sound(p, Found(p))
         /\ kind = "finalizer" => Found(p).sizes = sizes[p]
         /\ need_flush[p] => Exact(p)
<1>1. /\ Setting /\ p \in Page
      /\ Typed(Stored(p)) /\ UsedTyped(p) /\ bmp[p] \subseteq BlockId
      /\ Sound(p, Stored(p)) /\ StartTaken(p) /\ MarksHold(p)
  BY Pages
<1>2. CASE need_flush[p]
  <2>1. Given(p)
    BY <1>1, <1>2, Due
  <2>2. UsedKept(p, Stored(p))
    BY <1>1 DEF Sound
  <2>3. /\ Typed(Flushed(p)) /\ Sound(p, Flushed(p))
        /\ \A b \in BlockId : Flushed(p).sizes[b] = IF b \in bmp[p] THEN sizes[p][b] ELSE 0
        /\ Exact(p)
    BY <1>1, <2>1, <2>2, FlushSound
  <2>4. Found(p) = Flushed(p)
    BY <1>2 DEF Found, Flushed
  <2>5. ASSUME kind = "finalizer" PROVE Flushed(p).sizes = sizes[p]
    <3>1. \A b \in BlockId : sizes[p][b] > 0 => b \in bmp[p]
      BY <1>1, <1>2, <2>5 DEF MarksHold
    <3>2. Flushed(p).sizes \in [BlockId -> 0..CursorMod-1] /\ sizes[p] \in [BlockId -> 0..CursorMod-1]
      BY <1>1, <2>3 DEF Typed, Stored
    <3>3. \A b \in BlockId : sizes[p][b] > 0 \/ sizes[p][b] = 0
      BY <1>1, <3>2 DEF Setting
    <3>4. \A b \in BlockId : Flushed(p).sizes[b] = sizes[p][b]
      BY <2>3, <3>1, <3>3
    <3> QED
      BY <3>2, <3>4
  <2> QED
    BY <1>2, <2>3, <2>4, <2>5
<1>3. CASE ~ need_flush[p]
  <2>1. Found(p) = Stored(p)
    BY <1>3 DEF Found, Stored
  <2> QED
    BY <1>1, <1>3, <2>1 DEF Stored
<1> QED
  BY <1>2, <1>3

\* ... and as the mark finds it.
LEMMA AtMarkSound ==
  ASSUME IInv, NEW p \in InUse
  PROVE  /\ Typed(AtMark(p)) /\ Sound(p, AtMark(p))
         /\ kind = "finalizer" => AtMark(p).sizes = sizes[p]
         /\ ~ profile => AtMark(p) = Stored(p)
<1>1. AtMark(p) = Found(p) \/ AtMark(p) = Stored(p)
  BY DEF AtMark, Stored
<1>2. ~ profile => AtMark(p) = Stored(p)
  BY DEF AtMark, Stored
<1>3. Typed(Stored(p)) /\ Sound(p, Stored(p)) /\ Stored(p).sizes = sizes[p]
  BY Pages DEF Stored
<1> QED
  BY <1>1, <1>2, <1>3, FoundSound

\* In a sound page the runs left are free.
LEMMA SoundFree ==
  ASSUME Setting, NEW p, NEW x, Typed(x), UsedTyped(p), Sound(p, x)
  PROVE  LET left == SubSeq(x.free, x.current + 1, Len(x.free)) IN
         /\ Listed(left) \subseteq Blocks /\ RunsApart(left)
         /\ \A u \in used : u.page = p => RunOf(u.bid, u.size) \cap Listed(left) = {}
<1> DEFINE fl == x.free
           cur == x.current
           left == SubSeq(fl, cur + 1, Len(fl))
<1>1. /\ fl \in Seq(Run) /\ cur \in 0..Len(fl) /\ x.sizes \in [BlockId -> 0..CursorMod-1]
  BY DEF Typed
<1>2. Len(fl) \in Nat /\ cur \in Nat /\ cur <= Len(fl)
  BY <1>1, Positions
<1>3. /\ CursorMod \in Nat /\ max_blocks \in Nat /\ FirstBlock \in Nat
      /\ BlockId = 0..max_blocks-1 /\ Blocks = FirstBlock..max_blocks-1
  BY DEF Setting
<1>4. /\ left \in Seq(Run) /\ Len(left) = Len(fl) - cur
      /\ \A k \in 1..Len(fl) - cur : left[k] = fl[cur + k] /\ cur + k \in 1..Len(fl)
                                     /\ cur + k \in Ahead(x)
  <2>2. cur + 1 \in Int /\ Len(fl) \in Int /\ \A i \in cur + 1..Len(fl) : fl[i] \in Run
    BY <1>1, <1>2, Positions
  <2> HIDE DEF cur, fl
  <2>3. /\ left \in Seq(Run)
        /\ Len(left) = IF cur + 1 <= Len(fl) THEN Len(fl) - (cur + 1) + 1 ELSE 0
        /\ \A i \in 1..Len(fl) - (cur + 1) + 1 : left[i] = fl[cur + 1 + i - 1]
    BY <2>2, SubSeqProperties
  <2> HIDE DEF left
  <2>4. Len(left) = Len(fl) - cur
    BY <1>2, <2>3
  <2>5. ASSUME NEW k \in 1..Len(fl) - cur PROVE left[k] = fl[cur + k] /\ cur + k \in cur + 1..Len(fl)
    <3>1. k \in 1..Len(fl) - (cur + 1) + 1 /\ cur + 1 + k - 1 = cur + k
      BY <1>2
    <3> QED
      BY <1>2, <2>3, <3>1
  <2> QED
    BY <1>2, <2>3, <2>4, <2>5 DEF Ahead, cur, fl
<1> HIDE DEF left
<1>5. ASSUME NEW k \in 1..Len(left)
      PROVE  /\ left[k].pos \in Nat /\ Count(left[k]) \in Nat
             /\ \A b : b \in FreeBlocks(left[k]) <=>
                  b \in Nat /\ left[k].pos <= b /\ b < left[k].pos + Count(left[k])
  BY <1>4, Counts, InFree
<1>6. ASSUME NEW k \in 1..Len(left), NEW b \in FreeBlocks(left[k])
      PROVE  /\ left[k].pos \in Blocks /\ b \in Blocks
             /\ \A j \in 1..Len(left) : j < k =>
                  left[j].pos \in Blocks /\ left[j].pos + Count(left[j]) <= left[k].pos
             /\ \A c \in BlockId : x.sizes[c] > 0 => c + x.sizes[c] <= b \/ b < c
             /\ ~ HasSizes => \A u \in used : u.page = p => u.bid # b
  <2>1. left[k] = fl[cur + k] /\ cur + k \in Ahead(x)
    BY <1>4
  <2>2. left[k].pos \in Blocks
    <3>1. CASE left[k].pos \notin Blocks
      <4>1. HasSizes /\ left[k].count = 0
        BY <2>1, <3>1 DEF Sound, RunsInOrder
      <4>2. Count(left[k]) = 0
        BY <4>1 DEF Count
      <4> QED
        BY <1>5, <1>6, <4>2
    <3> QED
      BY <3>1
  <2>3. left[k].pos + Count(left[k]) <= max_blocks
    BY <2>1, <2>2 DEF Sound, RunsInOrder
  <2>4. b \in Nat /\ left[k].pos <= b /\ b < left[k].pos + Count(left[k])
    BY <1>5
  <2>5. b \in Blocks
    BY <1>3, <1>5, <2>2, <2>3, <2>4
  <2>6. ASSUME NEW j \in 1..Len(left), j < k
        PROVE  left[j].pos \in Blocks /\ left[j].pos + Count(left[j]) <= left[k].pos
    <3>1. left[j] = fl[cur + j] /\ cur + j \in Ahead(x) /\ cur + j < cur + k
      BY <1>2, <1>4, <2>6
    <3> QED
      BY <2>1, <2>2, <3>1 DEF Sound, RunsInOrder
  <2>7. ASSUME NEW c \in BlockId, x.sizes[c] > 0 PROVE c + x.sizes[c] <= b \/ b < c
    <3>1. c + x.sizes[c] <= left[k].pos \/ left[k].pos + Count(left[k]) <= c
      BY <2>1, <2>2, <2>7 DEF Sound, RunsFree
    <3>2. c \in Nat /\ x.sizes[c] \in Nat
      BY <1>1, <1>3
    <3> QED
      BY <1>5, <2>4, <3>1, <3>2
  <2>8. ASSUME ~ HasSizes, NEW u \in used, u.page = p PROVE u.bid # b
    <3>1. u.bid \notin FreeBlocks(fl[cur + k])
      BY <2>1, <2>2, <2>8 DEF Sound, RunsFree
    <3> QED
      BY <2>1, <3>1
  <2> QED
    BY <2>2, <2>5, <2>6, <2>7, <2>8
<1>7. \A b : b \in Listed(left) <=> \E k \in 1..Len(left) : b \in FreeBlocks(left[k])
  BY <1>4, Lists
<1>8. Listed(left) \subseteq Blocks
  BY <1>6, <1>7
<1>9. RunsApart(left)
  <2>1. DOMAIN left = 1..Len(left) /\ Len(left) \in Nat
    BY <1>4, Positions
  <2>2. ASSUME NEW j \in 1..Len(left), NEW k \in 1..Len(left), j < k,
               NEW b, b \in FreeBlocks(left[j]), b \in FreeBlocks(left[k])
        PROVE  FALSE
    <3>1. left[j].pos + Count(left[j]) <= left[k].pos
      BY <1>6, <2>2
    <3>2. b \in Nat /\ b < left[j].pos + Count(left[j]) /\ left[k].pos <= b
      BY <1>5, <2>2
    <3> QED
      BY <1>5, <3>1, <3>2
  <2>3. \A j, k \in 1..Len(left) : j # k => j < k \/ k < j
    BY <2>1
  <2> QED
    BY <2>1, <2>2, <2>3 DEF RunsApart
<1>10. ASSUME NEW u \in used, u.page = p, NEW b, b \in RunOf(u.bid, u.size), b \in Listed(left)
       PROVE  FALSE
  <2>1. PICK k \in 1..Len(left) : b \in FreeBlocks(left[k])
    BY <1>7, <1>10
  <2>2. u.bid \in BlockId /\ u.bid \in Nat /\ u.size \in Nat \ {0}
    BY <1>3, <1>10 DEF UsedTyped
  <2>3. b \in Nat /\ u.bid <= b /\ b < u.bid + u.size
    BY <1>10, <2>2, InRun
  <2>4. CASE HasSizes
    <3>1. x.sizes[u.bid] = u.size
      BY <1>10, <2>4 DEF Sound, UsedKept
    <3>2. u.bid + x.sizes[u.bid] <= b \/ b < u.bid
      <4>1. \A c \in BlockId : x.sizes[c] > 0 => c + x.sizes[c] <= b \/ b < c
        BY <1>6, <2>1
      <4>2. x.sizes[u.bid] > 0
        BY <2>2, <3>1
      <4> QED
        BY <2>2, <4>1, <4>2
    <3> QED
      BY <2>2, <2>3, <3>1, <3>2
  <2>5. CASE ~ HasSizes
    <3>1. u.size = 1
      BY <1>10, <2>5 DEF Sound, UsedKept
    <3>2. b = u.bid
      BY <2>2, <2>3, <3>1
    <3> QED
      BY <1>6, <1>10, <2>1, <2>5, <3>2
  <2> QED
    BY <2>4, <2>5
<1>11. \A u \in used : u.page = p => RunOf(u.bid, u.size) \cap Listed(left) = {}
  BY <1>10
<1> QED
  BY <1>8, <1>9, <1>11 DEF left

\* What IInv is for.
LEMMA Consequences ==
  ASSUME IInv
  PROVE  TypeOK /\ HeapIntact /\ FreeIsFree /\ FlushExact /\ FinalizersOwed
<1>1. TypeOK /\ FinalizersOwed
  BY DEF IInv
<1>2. \A u \in used : u.page \in InUse /\ u \in [page : Page, bid : BlockId, size : 1..CursorMod]
  <2> SUFFICES ASSUME NEW u \in used
               PROVE  u.page \in InUse /\ u \in [page : Page, bid : BlockId, size : 1..CursorMod]
    OBVIOUS
  <2>1. u \in [page : Page, bid : BlockId, size : 1..CursorMod]
    BY <1>1 DEF TypeOK
  <2>2. u.page \in Page
    BY <2>1
  <2>3. u.page \in Page \ InUse => FALSE
    BY DEF IInv, PageIsEmpty
  <2> QED
    BY <2>1, <2>2, <2>3
<1>3. ASSUME NEW u \in used
      PROVE  /\ RunOf(u.bid, u.size) \subseteq Blocks
             /\ HasSizes => sizes[u.page][u.bid] = u.size
             /\ \A v \in used : u # v /\ u.page = v.page =>
                  RunOf(u.bid, u.size) \cap RunOf(v.bid, v.size) = {}
  <2> DEFINE p == u.page
  <2>1. p \in InUse
    BY <1>2
  <2>2. /\ Setting /\ Typed(Stored(p)) /\ UsedTyped(p) /\ Sound(p, Stored(p))
    BY <2>1, Pages
  <2>3. /\ max_blocks \in Nat /\ FirstBlock \in Nat /\ CursorMod \in Nat
        /\ BlockId = 0..max_blocks-1 /\ Blocks = FirstBlock..max_blocks-1
        /\ sizes[p] \in [BlockId -> 0..CursorMod-1]
    BY <2>2 DEF Setting, Typed, Stored
  <2> HIDE DEF p
  <2>4. ASSUME NEW v \in used, v.page = p
        PROVE  /\ v.bid \in Blocks /\ v.bid \in BlockId /\ v.bid \in Nat /\ v.size \in Nat \ {0}
               /\ v.bid + v.size <= max_blocks
               /\ HasSizes => /\ sizes[p][v.bid] = v.size
                              /\ \A c \in BlockId : v.bid < c /\ c < v.bid + v.size => sizes[p][c] = 0
               /\ ~ HasSizes => v.size = 1
               /\ \A b : b \in RunOf(v.bid, v.size) <=> b \in Nat /\ v.bid <= b /\ b < v.bid + v.size
    <3>1. v.bid \in BlockId /\ v.size \in Nat \ {0}
      BY <2>2, <2>4 DEF UsedTyped
    <3>2. v.bid \in Nat
      BY <2>3, <3>1
    <3>3. IF HasSizes THEN sizes[p][v.bid] = v.size ELSE v.bid \in Blocks /\ v.size = 1
      BY <2>2, <2>4 DEF Sound, UsedKept, Stored
    <3>4. \A b : b \in RunOf(v.bid, v.size) <=> b \in Nat /\ v.bid <= b /\ b < v.bid + v.size
      BY <3>1, <3>2, InRun
    <3>5. CASE HasSizes
      <4>1. /\ v.bid \in Blocks /\ v.bid + sizes[p][v.bid] <= max_blocks
            /\ \A c \in v.bid + 1..v.bid + sizes[p][v.bid] - 1 : sizes[p][c] = 0
        <5>1. sizes[p][v.bid] > 0
          BY <3>1, <3>3, <3>5
        <5> QED
          BY <2>2, <3>1, <3>5, <5>1 DEF Sound, ObjectsApart, Stored
      <4>2. ASSUME NEW c \in BlockId, v.bid < c, c < v.bid + v.size PROVE sizes[p][c] = 0
        <5>1. c \in v.bid + 1..v.bid + sizes[p][v.bid] - 1
          <6>1. \A a, n, d \in Nat : a < d /\ d < a + n => d \in a + 1..a + n - 1
            OBVIOUS
          <6>2. c \in Nat /\ sizes[p][v.bid] = v.size
            BY <2>3, <3>3, <3>5
          <6> QED
            BY <3>1, <3>2, <4>2, <6>1, <6>2
        <5> QED
          BY <4>1, <5>1
      <4> QED
        BY <3>1, <3>2, <3>3, <3>4, <3>5, <4>1, <4>2
    <3>6. CASE ~ HasSizes
      BY <2>3, <3>1, <3>2, <3>3, <3>4, <3>6
    <3> QED
      BY <3>5, <3>6
  <2>5. u.page = p
    BY DEF p
  <2>6. RunOf(u.bid, u.size) \subseteq Blocks
    <3> SUFFICES ASSUME NEW b \in RunOf(u.bid, u.size) PROVE b \in Blocks
      OBVIOUS
    <3>1. /\ u.bid \in Blocks /\ u.bid \in Nat /\ u.size \in Nat /\ u.bid + u.size <= max_blocks
          /\ b \in Nat /\ u.bid <= b /\ b < u.bid + u.size
      BY <2>4, <2>5
    <3> QED
      BY <2>3, <3>1
  <2>7. HasSizes => sizes[u.page][u.bid] = u.size
    BY <2>4, <2>5
  <2>8. ASSUME NEW v \in used, v.page = p, u # v,
               NEW b, b \in RunOf(u.bid, u.size), b \in RunOf(v.bid, v.size)
        PROVE  FALSE
    <3>1. /\ b \in Nat /\ u.bid <= b /\ b < u.bid + u.size /\ v.bid <= b /\ b < v.bid + v.size
          /\ u.bid \in Nat /\ v.bid \in Nat /\ u.size \in Nat \ {0} /\ v.size \in Nat \ {0}
          /\ u.bid \in BlockId /\ v.bid \in BlockId
      BY <2>4, <2>5, <2>8
    <3>2. u.bid = v.bid /\ u.size = v.size
      <4>1. CASE HasSizes
        <5>1. ~ (u.bid < v.bid)
          BY <2>4, <2>5, <2>8, <3>1, <4>1
        <5>2. ~ (v.bid < u.bid)
          BY <2>4, <2>5, <2>8, <3>1, <4>1
        <5>3. u.bid = v.bid
          BY <3>1, <5>1, <5>2
        <5> QED
          BY <2>4, <2>5, <2>8, <4>1, <5>3
      <4>2. CASE ~ HasSizes
        <5>1. u.size = 1 /\ v.size = 1
          BY <2>4, <2>5, <2>8, <4>2
        <5> QED
          BY <3>1, <5>1
      <4> QED
        BY <4>1, <4>2
    <3>3. u.page = v.page
      BY <2>5, <2>8
    <3>4. u \in [page : Page, bid : BlockId, size : 1..CursorMod]
          /\ v \in [page : Page, bid : BlockId, size : 1..CursorMod]
      BY <1>2
    <3>5. u = v
      BY <3>2, <3>3, <3>4
    <3> QED
      BY <2>8, <3>5
  <2> QED
    BY <2>5, <2>6, <2>7, <2>8
<1>4. HeapIntact
  BY <1>2, <1>3 DEF HeapIntact
<1>5. FreeIsFree
  <2> SUFFICES ASSUME NEW p \in InUse
               PROVE  \E found \in {Found(p)} :
                        \E left \in {SubSeq(found.free, found.current + 1, Len(found.free))} :
                          /\ Listed(left) \subseteq Blocks /\ RunsApart(left)
                          /\ \A u \in used : u.page = p => RunOf(u.bid, u.size) \cap Listed(left) = {}
    BY DEF FreeIsFree
  <2> DEFINE x == Found(p)
             left == SubSeq(x.free, x.current + 1, Len(x.free))
  <2>1. Setting /\ UsedTyped(p) /\ Typed(x) /\ Sound(p, x)
    BY Pages, FoundSound
  <2> HIDE DEF x
  <2>2. /\ Listed(left) \subseteq Blocks /\ RunsApart(left)
        /\ \A u \in used : u.page = p => RunOf(u.bid, u.size) \cap Listed(left) = {}
    BY <2>1, SoundFree
  <2> QED
    BY <2>2, Zenon DEF x
<1>6. FlushExact
  <2> SUFFICES ASSUME NEW p \in InUse, need_flush[p] PROVE Exact(p)
    BY Zenon DEF FlushExact, Exact
  <2> QED
    BY FoundSound
<1> QED
  BY <1>1, <1>4, <1>5, <1>6
-----------------------------------------------------------------------------
\* Sound, when the program uses U.
SoundFor(U, p, x) ==
  /\ RunsInOrder(x) /\ ObjectsApart(x.sizes)
  /\ \A k \in Ahead(x) : x.free[k].pos \in Blocks =>
       /\ \A b \in BlockId : x.sizes[b] > 0 =>
            \/ b + x.sizes[b] <= x.free[k].pos
            \/ x.free[k].pos + Count(x.free[k]) <= b
       /\ ~ HasSizes => \A u \in U : u.page = p => u.bid \notin FreeBlocks(x.free[k])
  /\ \A u \in U : u.page = p =>
       IF HasSizes THEN x.sizes[u.bid] = u.size ELSE u.bid \in Blocks /\ u.size = 1

\* Sound is said of what the program uses now.
LEMMA SoundHere ==
  \A p, x : Sound(p, x) <=> SoundFor(used, p, x)
BY DEF Sound, SoundFor, RunsFree, UsedKept

\* A page stays sound when less is used.
LEMMA Fewer ==
  ASSUME NEW U, NEW V, NEW p, NEW x, SoundFor(U, p, x), \A u \in V : u.page = p => u \in U
  PROVE  SoundFor(V, p, x)
BY DEF SoundFor

\* What holds of the fields a step has written holds of the page.
LEMMA Primed ==
  ASSUME UNCHANGED <<kind, max_blocks>>, NEW p, NEW x,
         x.free = free'[p], x.current = current'[p], x.sizes = sizes'[p],
         SoundFor(used', p, x)
  PROVE  Sound(p, Stored(p))'
<1>1. /\ HasSizes' <=> HasSizes
      /\ Blocks' = Blocks /\ BlockId' = BlockId /\ NoSizes' = NoSizes
  BY DEF HasSizes, Blocks, BlockId, NoSizes, FirstBlock
<1>2. Stored(p)' = [free |-> x.free, current |-> x.current, sizes |-> x.sizes]
  BY DEF Stored
<1>3. /\ Stored(p)'.free = x.free /\ Stored(p)'.current = x.current /\ Stored(p)'.sizes = x.sizes
  BY <1>2
<1>4. Ahead(Stored(p))' = Ahead(x)
  BY <1>3, Zenon DEF Ahead
<1>5. \A k : /\ Count(Stored(p).free[k])' = Count(x.free[k])
            /\ FreeBlocks(Stored(p).free[k])' = FreeBlocks(x.free[k])
  BY <1>1, <1>3, Zenon DEF Count, FreeBlocks
<1>6. RunsInOrder(Stored(p))'
  <2>1. RunsInOrder(x) /\ max_blocks' = max_blocks
    BY DEF SoundFor
  <2> QED
    BY <1>1, <1>3, <1>4, <1>5, <2>1, Zenon DEF RunsInOrder
<1>7. ObjectsApart(Stored(p).sizes)'
  <2>1. ObjectsApart(x.sizes) /\ max_blocks' = max_blocks
    BY DEF SoundFor
  <2> QED
    BY <1>1, <1>3, <2>1, Zenon DEF ObjectsApart
<1>8. RunsFree(p, Stored(p))'
  BY <1>1, <1>3, <1>4, <1>5, Zenon DEF SoundFor, RunsFree
<1>9. UsedKept(p, Stored(p))'
  BY <1>1, <1>3, Zenon DEF SoundFor, UsedKept
<1> QED
  BY <1>6, <1>7, <1>8, <1>9 DEF Sound

\* A page that a step does not write,
LEMMA PageKept ==
  ASSUME UNCHANGED <<kind, max_blocks>>, NEW p,
         Sound(p, Stored(p)), StartTaken(p), MarksHold(p),
         free'[p] = free[p], current'[p] = current[p], sizes'[p] = sizes[p],
         need_flush'[p] => need_flush[p] /\ bmp'[p] = bmp[p],
         \A u \in used' : u.page = p => u \in used
  PROVE  (Sound(p, Stored(p)) /\ StartTaken(p) /\ MarksHold(p))'
<1>1. /\ HasSizes' <=> HasSizes
      /\ Blocks' = Blocks /\ BlockId' = BlockId
  BY DEF HasSizes, Blocks, BlockId, FirstBlock
<1>2. Sound(p, Stored(p))'
  <2>1. SoundFor(used, p, Stored(p))
    BY SoundHere
  <2>2. SoundFor(used', p, Stored(p))
    BY <2>1, Fewer
  <2>3. /\ Stored(p).free = free'[p] /\ Stored(p).current = current'[p]
        /\ Stored(p).sizes = sizes'[p]
    BY DEF Stored
  <2> QED
    BY <2>2, <2>3, Primed
<1>3. StartTaken(p)'
  <2>1. Ahead(Stored(p))' = Ahead(Stored(p))
    BY DEF Ahead, Stored
  <2> QED
    BY <1>1, <2>1, Zenon DEF StartTaken
<1>4. MarksHold(p)'
  BY <1>1, Zenon DEF MarksHold
<1> QED
  BY <1>2, <1>3, <1>4

\* ... a page that was looked at in vain,
LEMMA PageFlushed ==
  ASSUME UNCHANGED <<kind, max_blocks>>, NEW p, NEW x, Sound(p, x),
         x.free = free'[p], x.current = current'[p], x.sizes = sizes'[p],
         ~ need_flush'[p], ~ HasSizes => Ahead(x) = {},
         \A u \in used' : u.page = p => u \in used
  PROVE  (Sound(p, Stored(p)) /\ StartTaken(p) /\ MarksHold(p))'
<1>1. HasSizes' <=> HasSizes
  BY DEF HasSizes
<1>2. Sound(p, Stored(p))'
  <2>1. SoundFor(used, p, x)
    BY SoundHere
  <2>2. SoundFor(used', p, x)
    BY <2>1, Fewer
  <2> QED
    BY <2>2, Primed
<1>3. StartTaken(p)'
  <2>1. Ahead(Stored(p))' = Ahead(x)
    BY DEF Ahead, Stored
  <2> QED
    BY <1>1, <2>1 DEF StartTaken
<1>4. MarksHold(p)'
  BY DEF MarksHold
<1> QED
  BY <1>2, <1>3, <1>4

\* ... and one that is not in use.
LEMMA PageStaysEmpty ==
  ASSUME UNCHANGED <<kind, max_blocks>>, NEW p, PageIsEmpty(p),
         free'[p] = free[p], current'[p] = current[p], sizes'[p] = sizes[p],
         ~ need_flush'[p],
         \A u \in used' : u.page = p => u \in used
  PROVE  PageIsEmpty(p)'
<1>1. NoSizes' = NoSizes
  BY DEF NoSizes, BlockId
<1> QED
  BY <1>1 DEF PageIsEmpty

\* The kind of a partition and the size of its pages do not change.
LEMMA FixedSetting ==
  ASSUME UNCHANGED <<kind, max_blocks>>
  PROVE  /\ HasSizes' <=> HasSizes
         /\ Blocks' = Blocks /\ BlockId' = BlockId /\ FirstBlock' = FirstBlock /\ NoSizes' = NoSizes
BY DEF HasSizes, Blocks, BlockId, FirstBlock, NoSizes

\* The program may use an allocation no more.
LEMMA DropHolds ==
  ASSUME IInv, NEW w \in used, Drop(w)
  PROVE  IInv'
<1>1. /\ used' = used \ {w}
      /\ UNCHANGED <<kind, max_blocks, profile, pages, free_page, status, owed>>
      /\ UNCHANGED <<free, current, need_flush, sizes, bmp>>
  BY DEF Drop, pageVars
<1>2. /\ HasSizes' <=> HasSizes
      /\ Blocks' = Blocks /\ BlockId' = BlockId /\ FirstBlock' = FirstBlock /\ NoSizes' = NoSizes
  BY <1>1, FixedSetting
<1>3. InUse' = InUse
  BY <1>1 DEF InUse
<1>4. TypeOK'
  BY <1>1, <1>2, <1>3 DEF IInv, TypeOK
<1>5. CursorSuffices' /\ (pages' # <<>> => FirstBlock' + 1 < max_blocks')
  BY <1>1, <1>2 DEF IInv, CursorSuffices
<1>6. ASSUME NEW p \in InUse PROVE (Sound(p, Stored(p)) /\ StartTaken(p) /\ MarksHold(p))'
  BY <1>1, PageKept DEF IInv
<1>7. ASSUME NEW p \in Page \ InUse PROVE PageIsEmpty(p)'
  BY <1>1, <1>2 DEF IInv, PageIsEmpty
<1>8. FinalizersOwed'
  <2>1. FinalizersOwed
    BY DEF IInv
  <2> QED
    BY <1>1, <1>2, <2>1 DEF FinalizersOwed
<1> QED
  BY <1>3, <1>4, <1>5, <1>6, <1>7, <1>8 DEF IInv

\* A heap without pages.
LEMMA InitHolds ==
  ASSUME Init, CursorSuffices
  PROVE  IInv
<1>1. InUse = {}
  BY DEF Init, InUse, ToSet
<1>2. max_blocks \in Nat \ {0} /\ CursorMod \in Nat \ {0}
  BY CursorAssumption, CountAssumption DEF Init
<1>3. NoSizes \in [BlockId -> 0..CursorMod-1]
  BY <1>2 DEF NoSizes
<1>4. TypeOK
  <2>1. IsInjective(pages) /\ pages = <<>>
    BY DEF Init, IsInjective
  <2>2. <<>> \in Seq([pos : 0..CursorMod-1, count : 0..CursorMod-1])
    OBVIOUS
  <2>3. \A p \in Page : free[p] = <<>> /\ current[p] = 0 /\ Len(<<>>) = 0
    BY DEF Init
  <2>4. \A p \in Page : current[p] \in 0..Len(free[p])
    BY <2>3
  <2> QED
    BY <1>1, <1>3, <2>1, <2>2, <2>4, EmptySeq DEF Init, TypeOK
<1>5. \A p \in Page : PageIsEmpty(p)
  BY DEF Init, PageIsEmpty
<1>6. FinalizersOwed
  <2> SUFFICES ASSUME NEW o \in [page : Page, bid : BlockId, size : 1..CursorMod]
               PROVE  sizes[o.page][o.bid] # o.size
    BY DEF Init, FinalizersOwed
  <2>1. o.page \in Page /\ o.bid \in BlockId /\ o.size \in 1..CursorMod
    OBVIOUS
  <2>2. sizes[o.page][o.bid] = 0
    BY <2>1 DEF Init, NoSizes
  <2> QED
    BY <1>2, <2>1, <2>2
<1>7. pages = <<>>
  BY DEF Init
<1> QED
  BY <1>1, <1>4, <1>5, <1>6, <1>7 DEF IInv
-----------------------------------------------------------------------------
\* The run an allocation is taken off: it has the blocks, and keeps the others.
LEMMA Takes ==
  ASSUME Setting, NEW x, Typed(x), RunsInOrder(x),
         NEW n \in Nat \ {0}, n < CursorMod, HasSizes \/ n = 1,
         NEW k \in Room(x, n)
  PROVE  LET fl == x.free
             t == Taken(x, k, n)
             c == Count(fl[k]) IN
         /\ k \in Ahead(x) /\ k \in 1..Len(fl) /\ fl[k].pos \in Blocks
         /\ c \in Nat /\ n <= c /\ fl[k].pos + c <= max_blocks
         /\ t.free \in Seq(Run) /\ Len(t.free) = Len(fl)
         /\ \A j \in 1..Len(fl) : j # k => t.free[j] = fl[j]
         /\ t.current \in 0..Len(fl) /\ Ahead(t) \subseteq Ahead(x)
         /\ k \in Ahead(t) =>
              IF n < c
              THEN t.free[k].pos = fl[k].pos + n /\ Count(t.free[k]) = c - n
              ELSE /\ HasSizes /\ t.free[k].count = 0
                   /\ IF fl[k].pos + n < max_blocks THEN t.free[k].pos = fl[k].pos + n
                      ELSE t.free[k].pos \notin Blocks
<1> DEFINE fl == x.free
           cur == x.current
           run == fl[k]
           t == Taken(x, k, n)
           c == Count(run)
           taken == [pos |-> (run.pos + n) % CursorMod, count |-> (run.count - n) % CursorMod]
<1>1. /\ fl \in Seq(Run) /\ cur \in 0..Len(fl)
  BY DEF Typed
<1>2. Len(fl) \in Nat /\ cur \in Nat /\ cur <= Len(fl) /\ DOMAIN fl = 1..Len(fl)
  BY <1>1, Positions
<1>3. /\ CursorMod \in Nat /\ max_blocks \in Nat /\ FirstBlock \in Nat
      /\ max_blocks <= CursorMod /\ 1 < CursorMod
      /\ HasSizes /\ max_blocks = CursorMod => FirstBlock > 0
      /\ Blocks = FirstBlock..max_blocks-1
  BY DEF Setting
<1>4. /\ k \in Ahead(x) /\ k \in cur + 1..Len(fl) /\ k \in 1..Len(fl)
      /\ HasSizes => run.count >= n
      /\ ~ HasSizes => k = cur + 1 /\ n = 1
  BY <1>2 DEF Room, Ahead
<1>5. /\ run.pos \in Nat /\ run.count \in Nat /\ c \in Nat
      /\ run.pos < CursorMod /\ run.count < CursorMod
      /\ (HasSizes \/ run.count > 0) => c = run.count
      /\ ~ HasSizes => c > 0 /\ (run.count = 0 => c = CursorMod)
  BY <1>1, <1>4, Counts
<1>6. /\ IF run.pos \in Blocks THEN run.pos + c <= max_blocks ELSE HasSizes /\ run.count = 0
  BY <1>4 DEF RunsInOrder
<1> HIDE DEF fl, cur, c
<1>7. run.pos \in Blocks /\ run.pos + c <= max_blocks /\ n <= c
  BY <1>3, <1>4, <1>5, <1>6
<1>8. taken.count = c - n
  <2>1. CASE HasSizes \/ run.count > 0
    <3>1. (run.count - n) \in 0..CursorMod-1 /\ c = run.count
      BY <1>3, <1>5, <1>7, <2>1
    <3>2. (run.count - n) % CursorMod = run.count - n
      BY <1>3, <3>1
    <3> QED
      BY <3>1, <3>2
  <2>2. CASE ~ HasSizes /\ run.count = 0
    <3>1. n = 1 /\ c = CursorMod
      BY <1>4, <1>5, <2>2
    <3>2. (0 - 1) % CursorMod = CursorMod - 1
      BY <1>3
    <3> QED
      BY <2>2, <3>1, <3>2
  <2> QED
    BY <1>5, <2>1, <2>2
<1>9. taken.pos = IF run.pos + n = CursorMod THEN 0 ELSE run.pos + n
  <2>1. run.pos + n \in Nat /\ run.pos + n <= CursorMod
    <3> HIDE DEF run
    <3>1. n \in Nat /\ run.pos + n <= run.pos + c /\ run.pos + c <= CursorMod
      BY <1>3, <1>5, <1>7
    <3> QED
      BY <1>3, <1>5, <3>1
  <2>2. \A a, m \in Nat : 0 < m /\ a <= m => a % m = IF a = m THEN 0 ELSE a
    OBVIOUS
  <2>3. taken.pos = (run.pos + n) % CursorMod
    OBVIOUS
  <2> HIDE DEF run, taken
  <2> QED
    BY <1>3, <2>1, <2>2, <2>3
<1>10. taken \in Run
  <2>1. taken = [pos |-> taken.pos, count |-> taken.count]
    OBVIOUS
  <2> HIDE DEF run, taken
  <2>2. taken.pos \in 0..CursorMod-1 /\ taken.count \in 0..CursorMod-1
    <3>1. run.pos + n \in Nat /\ run.pos + n <= CursorMod
      BY <1>3, <1>5, <1>7
    <3>2. c - n \in Nat /\ c - n < CursorMod
      BY <1>3, <1>5, <1>7
    <3> QED
      BY <1>3, <1>8, <1>9, <3>1, <3>2
  <2> QED
    BY <2>1, <2>2 DEF Run
<1>11. /\ t.free = [fl EXCEPT ![k] = taken]
       /\ t.current = IF taken.count = 0 THEN cur + 1 ELSE cur
  BY DEF Taken, fl, cur
<1> HIDE DEF t, taken, run
<1>12. /\ t.free \in Seq(Run) /\ Len(t.free) = Len(fl) /\ t.free[k] = taken
       /\ \A j \in 1..Len(fl) : j # k => t.free[j] = fl[j]
  BY <1>1, <1>4, <1>10, <1>11, ExceptSeq
<1>13. t.current \in 0..Len(fl) /\ t.current \in Nat /\ t.current >= cur
  BY <1>2, <1>4, <1>11
<1>14. Ahead(t) \subseteq Ahead(x)
  <2>1. Ahead(t) = t.current + 1..Len(fl) /\ Ahead(x) = cur + 1..Len(fl)
    BY <1>12 DEF Ahead, fl, cur
  <2> QED
    BY <1>2, <1>13, <2>1
<1>15. ASSUME k \in Ahead(t)
       PROVE  IF n < c
              THEN t.free[k].pos = run.pos + n /\ Count(t.free[k]) = c - n
              ELSE /\ HasSizes /\ t.free[k].count = 0
                   /\ IF run.pos + n < max_blocks THEN t.free[k].pos = run.pos + n
                      ELSE t.free[k].pos \notin Blocks
  <2>1. CASE n < c
    <3>1. taken.count = c - n /\ c - n > 0 /\ taken.pos = run.pos + n
      BY <1>3, <1>5, <1>7, <1>8, <1>9, <2>1
    <3>2. Count(taken) = taken.count
      BY <3>1 DEF Count
    <3> QED
      BY <1>12, <2>1, <3>1, <3>2
  <2>2. CASE n = c
    <3>1. taken.count = 0 /\ t.current = cur + 1
      BY <1>5, <1>8, <1>11, <2>2
    <3>2. k # cur + 1
      <4>1. Ahead(t) = cur + 2..Len(fl)
        BY <1>2, <1>12, <3>1 DEF Ahead
      <4> QED
        BY <1>2, <1>15, <4>1
    <3>3. HasSizes
      BY <1>4, <3>2
    <3>4. IF run.pos + n < max_blocks THEN taken.pos = run.pos + n ELSE taken.pos \notin Blocks
      BY <1>3, <1>7, <1>9, <1>5, <2>2, <3>3
    <3> QED
      BY <1>12, <2>2, <3>1, <3>3, <3>4
  <2> QED
    BY <1>5, <1>7, <2>1, <2>2
<1> QED
  BY <1>4, <1>5, <1>7, <1>12, <1>13, <1>14, <1>15 DEF fl, run, c, t

\* The runs left stay in order,
LEMMA TakenInOrder ==
  ASSUME Setting, NEW x, Typed(x), RunsInOrder(x),
         NEW n \in Nat \ {0}, n < CursorMod, HasSizes \/ n = 1,
         NEW k \in Room(x, n)
  PROVE  RunsInOrder(Taken(x, k, n))
<1> DEFINE fl == x.free
           t == Taken(x, k, n)
           g == t.free
           c == Count(fl[k])
<1>1. /\ k \in Ahead(x) /\ k \in 1..Len(fl) /\ fl[k].pos \in Blocks
      /\ c \in Nat /\ n <= c /\ fl[k].pos + c <= max_blocks
      /\ \A j \in 1..Len(fl) : j # k => g[j] = fl[j]
      /\ Ahead(t) \subseteq Ahead(x)
      /\ k \in Ahead(t) =>
           IF n < c
           THEN g[k].pos = fl[k].pos + n /\ Count(g[k]) = c - n
           ELSE /\ HasSizes /\ g[k].count = 0
                /\ IF fl[k].pos + n < max_blocks THEN g[k].pos = fl[k].pos + n
                   ELSE g[k].pos \notin Blocks
  BY Takes
<1>2. fl \in Seq(Run) /\ Ahead(x) \subseteq 1..Len(fl) /\ Ahead(x) \subseteq Nat
  <2>1. x.current \in Nat /\ fl \in Seq(Run)
    BY Positions DEF Typed
  <2>2. Len(fl) \in Nat
    BY <2>1, Positions
  <2> QED
    BY <2>1, <2>2 DEF Ahead
<1>3. \A j \in Ahead(x) : fl[j].pos \in Nat /\ Count(fl[j]) \in Nat
  BY <1>2, Counts
<1>4. /\ max_blocks \in Nat /\ FirstBlock \in Nat /\ Blocks = FirstBlock..max_blocks-1
  BY DEF Setting
<1>5. \A j \in Ahead(x) :
        /\ IF fl[j].pos \in Blocks THEN fl[j].pos + Count(fl[j]) <= max_blocks
           ELSE HasSizes /\ fl[j].count = 0
        /\ \A i \in Ahead(x) : i < j /\ fl[j].pos \in Blocks =>
             fl[i].pos \in Blocks /\ fl[i].pos + Count(fl[i]) <= fl[j].pos
  BY DEF RunsInOrder
<1> HIDE DEF fl, t, g, c
<1>6. /\ \A j \in Ahead(t) : j # k => g[j] = fl[j]
  BY <1>1, <1>2
<1>7. ASSUME k \in Ahead(t)
      PROVE  /\ IF g[k].pos \in Blocks THEN g[k].pos + Count(g[k]) <= fl[k].pos + c
                ELSE HasSizes /\ g[k].count = 0
             /\ g[k].pos \in Blocks => fl[k].pos <= g[k].pos
  <2>1. fl[k].pos \in Nat
    BY <1>1, <1>3
  <2>2. CASE n < c
    <3>1. g[k].pos = fl[k].pos + n /\ Count(g[k]) = c - n
      BY <1>1, <1>7, <2>2
    <3>2. g[k].pos \in Blocks
      BY <1>1, <1>4, <2>1, <2>2, <3>1
    <3> QED
      BY <1>1, <2>1, <3>1, <3>2
  <2>3. CASE ~ (n < c)
    <3>1. HasSizes /\ g[k].count = 0 /\ (g[k].pos \in Blocks => g[k].pos = fl[k].pos + n)
      BY <1>1, <1>7, <2>3
    <3>2. Count(g[k]) = 0 /\ n = c
      BY <1>1, <2>3, <3>1 DEF Count
    <3> QED
      BY <1>1, <2>1, <3>1, <3>2
  <2> QED
    BY <2>2, <2>3
<1>8. ASSUME NEW j \in Ahead(t)
      PROVE  IF g[j].pos \in Blocks THEN g[j].pos + Count(g[j]) <= max_blocks
             ELSE HasSizes /\ g[j].count = 0
  <2>1. CASE j = k
    <3>1. CASE g[k].pos \in Blocks
      <4>1. g[k].pos + Count(g[k]) <= fl[k].pos + c /\ fl[k].pos + c <= max_blocks
        BY <1>1, <1>7, <1>8, <2>1, <3>1
      <4>2. g[k].pos + Count(g[k]) \in Int
        <5>1. fl[k].pos \in Nat /\ g[k].pos \in Nat
          BY <1>1, <1>3, <1>4, <3>1
        <5>2. Count(g[k]) = c - n \/ Count(g[k]) = 0
          BY <1>1, <1>8, <2>1 DEF Count
        <5> QED
          BY <1>1, <5>1, <5>2
      <4> QED
        BY <1>1, <1>3, <1>4, <2>1, <3>1, <4>1, <4>2
    <3>2. CASE g[k].pos \notin Blocks
      BY <1>7, <1>8, <2>1, <3>2
    <3> QED
      BY <3>1, <3>2
  <2>2. CASE j # k
    <3>1. g[j] = fl[j] /\ j \in Ahead(x)
      BY <1>1, <1>6, <1>8, <2>2
    <3> QED
      BY <1>5, <3>1, Zenon
  <2> QED
    BY <2>1, <2>2
<1>9. ASSUME NEW j \in Ahead(t), NEW i \in Ahead(t), i < j, g[j].pos \in Blocks
      PROVE  g[i].pos \in Blocks /\ g[i].pos + Count(g[i]) <= g[j].pos
  <2>1. i \in Ahead(x) /\ j \in Ahead(x) /\ i \in Nat /\ j \in Nat
    BY <1>1, <1>2, <1>9
  <2>2. fl[j].pos \in Blocks /\ fl[j].pos <= g[j].pos
    <3>1. CASE j = k
      BY <1>1, <1>7, <1>9, <3>1
    <3>2. CASE j # k
      BY <1>3, <1>6, <1>9, <2>1, <3>2
    <3> QED
      BY <3>1, <3>2
  <2>3. fl[i].pos \in Blocks /\ fl[i].pos + Count(fl[i]) <= fl[j].pos
    BY <1>5, <1>9, <2>1, <2>2
  <2>4. CASE i = k
    <3>1. fl[k].pos + c <= fl[j].pos /\ fl[j].pos \in Nat /\ fl[k].pos \in Nat
      BY <1>1, <1>3, <2>1, <2>3, <2>4 DEF c
    <3>2. g[j].pos = fl[j].pos
      <4>1. j # k
        BY <1>9, <2>1, <2>4
      <4> QED
        BY <1>6, <4>1, Zenon
    <3>3. fl[j].pos < max_blocks
      BY <1>4, <2>2
    <3>4. CASE n < c
      <4>1. g[k].pos = fl[k].pos + n /\ Count(g[k]) = c - n
        BY <1>1, <1>9, <2>4, <3>4
      <4>2. g[k].pos \in Blocks
        BY <1>1, <1>4, <3>1, <3>3, <3>4, <4>1
      <4> QED
        BY <1>1, <2>4, <3>1, <3>2, <4>1, <4>2
    <3>5. CASE ~ (n < c)
      <4>1. n = c
        BY <1>1, <3>5
      <4>2. fl[k].pos + n < max_blocks /\ fl[k].pos + n \in Nat
        BY <1>1, <1>4, <3>1, <3>3, <4>1
      <4>3. HasSizes /\ g[k].count = 0 /\ g[k].pos = fl[k].pos + n
        BY <1>1, <1>9, <2>4, <3>5, <4>2
      <4>4. Count(g[k]) = 0
        BY <4>3 DEF Count
      <4>5. g[k].pos \in Blocks
        BY <1>1, <1>4, <3>1, <4>2, <4>3
      <4> QED
        BY <2>4, <3>1, <3>2, <4>1, <4>3, <4>4, <4>5
    <3> QED
      BY <3>4, <3>5
  <2>5. CASE i # k
    <3>1. g[i] = fl[i]
      BY <1>6, <1>9, <2>5
    <3> QED
      BY <1>3, <1>4, <1>9, <2>1, <2>2, <2>3, <3>1
  <2> QED
    BY <2>4, <2>5
<1> QED
  BY <1>8, <1>9, Zenon DEF RunsInOrder, t, g

\* ... and the page is sound for what the program uses then.
LEMMA TakenSound ==
  ASSUME Setting, NEW p, NEW x, Typed(x), UsedTyped(p), Sound(p, x),
         NEW n \in Nat \ {0}, n < CursorMod, HasSizes \/ n = 1,
         NEW k \in Room(x, n), NEW U,
         \A u \in U : u.page = p =>
            u \in used \/ (u.bid = x.free[k].pos /\ u.size = n),
         NEW y, y.free = Taken(x, k, n).free, y.current = Taken(x, k, n).current,
         y.sizes = SizesWith(x.sizes, x.free[k].pos, n)
  PROVE  /\ x.free[k].pos \in Blocks /\ x.free[k].pos + n <= max_blocks
         /\ HasSizes => \A b \in x.free[k].pos..x.free[k].pos + (n - 1) : x.sizes[b] = 0
         /\ Typed(y) /\ SoundFor(U, p, y)
<1> DEFINE fl == x.free
           sz == x.sizes
           bid == fl[k].pos
           c == Count(fl[k])
           t == Taken(x, k, n)
           g == t.free
           new == SizesWith(sz, bid, n)
<1>1. RunsInOrder(x) /\ ObjectsApart(sz) /\ RunsFree(p, x) /\ UsedKept(p, x)
  BY DEF Sound
<1>2. /\ k \in Ahead(x) /\ k \in 1..Len(fl) /\ bid \in Blocks
      /\ c \in Nat /\ n <= c /\ bid + c <= max_blocks
      /\ g \in Seq(Run) /\ Len(g) = Len(fl)
      /\ \A j \in 1..Len(fl) : j # k => g[j] = fl[j]
      /\ t.current \in 0..Len(fl) /\ Ahead(t) \subseteq Ahead(x)
      /\ k \in Ahead(t) =>
           IF n < c
           THEN g[k].pos = bid + n /\ Count(g[k]) = c - n
           ELSE /\ HasSizes /\ g[k].count = 0
                /\ IF bid + n < max_blocks THEN g[k].pos = bid + n ELSE g[k].pos \notin Blocks
  BY <1>1, Takes
<1>3. RunsInOrder(t)
  BY <1>1, TakenInOrder
<1>4. /\ CursorMod \in Nat /\ max_blocks \in Nat /\ FirstBlock \in Nat
      /\ max_blocks <= CursorMod /\ HasSizes \in BOOLEAN
      /\ BlockId = 0..max_blocks-1 /\ Blocks = FirstBlock..max_blocks-1
  BY DEF Setting
<1>5. fl \in Seq(Run) /\ Ahead(x) \subseteq 1..Len(fl) /\ Ahead(x) \subseteq Nat
      /\ sz \in [BlockId -> 0..CursorMod-1]
  <2>1. x.current \in Nat /\ fl \in Seq(Run)
    BY Positions DEF Typed
  <2>2. Len(fl) \in Nat
    BY <2>1, Positions
  <2> QED
    BY <2>1, <2>2 DEF Ahead, Typed
<1>6. \A j \in Ahead(x) : fl[j].pos \in Nat /\ Count(fl[j]) \in Nat
  BY <1>5, Counts
<1>7. \A j \in Ahead(x) : fl[j].pos \in Blocks =>
        /\ \A b \in BlockId : sz[b] > 0 =>
             b + sz[b] <= fl[j].pos \/ fl[j].pos + Count(fl[j]) <= b
        /\ ~ HasSizes => \A u \in used : u.page = p => u.bid \notin FreeBlocks(fl[j])
  BY <1>1, Zenon DEF RunsFree
<1>8. \A j, i \in Ahead(x) : i < j /\ fl[j].pos \in Blocks =>
         fl[i].pos \in Blocks /\ fl[i].pos + Count(fl[i]) <= fl[j].pos
  BY <1>1, Zenon DEF RunsInOrder
<1>9. y.free = g /\ y.current = t.current /\ y.sizes = new
  OBVIOUS
<1>10. /\ HasSizes => \A b \in BlockId : new[b] = IF b = bid THEN n
                          ELSE IF bid <= b /\ b < bid + n THEN 0 ELSE sz[b]
       /\ HasSizes => new \in [BlockId -> 0..CursorMod-1]
       /\ ~ HasSizes => new = sz
  <2>1. bid \in Nat /\ n \in Nat /\ n \in 0..CursorMod-1 /\ 0 \in 0..CursorMod-1
    BY <1>2, <1>4
  <2>2. \A b \in BlockId : b \in RunOf(bid, n) <=> bid <= b /\ b < bid + n
    BY <1>4, <2>1 DEF RunOf
  <2> HIDE DEF bid, sz
  <2> QED
    BY <1>4, <1>5, <2>1, <2>2 DEF SizesWith
<1>11. \A b \in BlockId : b \in Nat /\ sz[b] \in Nat
  BY <1>4, <1>5
<1>12. bid \in Nat /\ n \in Nat /\ n > 0 /\ bid \in BlockId
  BY <1>2, <1>4
<1> HIDE DEF fl, sz, bid, c, t, g, new
<1>13. \A b \in BlockId : sz[b] > 0 => b + sz[b] <= bid \/ bid + c <= b
  BY <1>2, <1>7, Zenon DEF c, bid
<1>14. ASSUME HasSizes, NEW b \in Nat, bid <= b, b < bid + n PROVE b \in BlockId /\ sz[b] = 0
  <2>1. b \in BlockId
    BY <1>2, <1>4, <1>12, <1>14
  <2>2. ~ (b + sz[b] <= bid /\ sz[b] > 0) /\ ~ (bid + c <= b)
    BY <1>2, <1>11, <1>12, <1>14, <2>1
  <2> QED
    BY <1>11, <1>13, <2>1, <2>2
<1>15. bid + n <= max_blocks
  BY <1>2, <1>4, <1>12
<1>16. ObjectsApart(new)
  <2>1. CASE HasSizes
    <3> SUFFICES ASSUME NEW b \in BlockId, new[b] > 0
                 PROVE  /\ b \in Blocks /\ b + new[b] <= max_blocks
                        /\ \A d \in b + 1..b + new[b] - 1 : new[d] = 0
      BY <2>1, Zenon DEF ObjectsApart
    <3>1. CASE b = bid
      <4>1. new[b] = n
        BY <1>10, <2>1, <3>1
      <4>2. ASSUME NEW d \in b + 1..b + n - 1 PROVE new[d] = 0
        <5>1. d \in Nat /\ d # bid /\ bid <= d /\ d < bid + n
          BY <1>12, <3>1
        <5>2. d \in BlockId
          BY <1>14, <2>1, <5>1
        <5> QED
          BY <1>10, <2>1, <5>1, <5>2
      <4> QED
        BY <1>2, <1>15, <3>1, <4>1, <4>2
    <3>2. CASE b # bid
      <4>1. new[b] = sz[b] /\ sz[b] > 0
        BY <1>10, <2>1, <3>2
      <4>2. /\ b \in Blocks /\ b + sz[b] <= max_blocks
            /\ \A d \in b + 1..b + sz[b] - 1 : sz[d] = 0
        BY <1>1, <2>1, <4>1 DEF ObjectsApart
      <4>3. ASSUME NEW d \in b + 1..b + sz[b] - 1 PROVE new[d] = 0
        <5>1. d \in BlockId /\ b < d /\ d < b + sz[b] /\ sz[d] = 0
          BY <1>4, <1>11, <4>2
        <5>2. d # bid
          <6>1. b + sz[b] <= bid \/ bid + c <= b
            BY <1>13, <4>1
          <6> QED
            BY <1>2, <1>11, <1>12, <5>1, <6>1
        <5> QED
          BY <1>10, <2>1, <5>1, <5>2
      <4> QED
        BY <4>1, <4>2, <4>3
    <3> QED
      BY <3>1, <3>2
  <2>2. CASE ~ HasSizes
    BY <1>1, <1>10, <2>2 DEF ObjectsApart
  <2> QED
    BY <2>1, <2>2
<1>17. ASSUME NEW j \in Ahead(t), g[j].pos \in Blocks
       PROVE  /\ j \in Ahead(x) /\ fl[j].pos \in Blocks
              /\ g[j].pos \in Nat /\ Count(g[j]) \in Nat /\ fl[j].pos <= g[j].pos
              /\ Count(g[j]) > 0 \/ HasSizes
              /\ g[j].pos + Count(g[j]) <= fl[j].pos + Count(fl[j])
              /\ bid + n <= g[j].pos \/ g[j].pos + Count(g[j]) <= bid
  <2>1. j \in Ahead(x)
    BY <1>2, <1>17
  <2>2. j \in Nat /\ j \in 1..Len(g) /\ k \in Nat
    BY <1>2, <1>5, <2>1
  <2>3. /\ g[j].pos \in Nat /\ Count(g[j]) \in Nat /\ (Count(g[j]) > 0 \/ HasSizes)
    BY <1>2, <2>2, Counts
  <2>4. CASE j = k
    <3>1. g[k].pos = bid + n
      BY <1>2, <1>4, <1>12, <1>17, <2>4
    <3>2. Count(g[k]) <= c - n
      <4>1. CASE n < c
        BY <1>2, <1>17, <2>4, <4>1
      <4>2. CASE ~ (n < c)
        <5>1. HasSizes /\ g[k].count = 0 /\ n = c
          BY <1>2, <1>17, <2>4, <4>2
        <5> QED
          BY <1>2, <5>1 DEF Count
      <4> QED
        BY <4>1, <4>2
    <3>3. bid = fl[j].pos /\ c = Count(fl[j])
      BY <2>4 DEF bid, c
    <3> QED
      BY <1>2, <1>12, <2>1, <2>3, <2>4, <3>1, <3>2, <3>3
  <2>5. CASE j # k
    <3>1. g[j] = fl[j] /\ fl[j].pos \in Blocks
      BY <1>2, <1>17, <2>2, <2>5
    <3>2. j < k => fl[j].pos + Count(fl[j]) <= bid
      BY <1>2, <1>8, <2>1 DEF bid
    <3>3. k < j => bid + c <= fl[j].pos
      BY <1>2, <1>8, <2>1, <3>1 DEF bid, c
    <3>4. k < j \/ j < k
      BY <2>2, <2>5
    <3> QED
      BY <1>2, <1>6, <1>12, <2>1, <2>3, <3>1, <3>2, <3>3, <3>4
  <2> QED
    BY <2>4, <2>5
<1>18. ASSUME NEW j \in Ahead(t), g[j].pos \in Blocks, NEW b \in BlockId, new[b] > 0
       PROVE  b + new[b] <= g[j].pos \/ g[j].pos + Count(g[j]) <= b
  <2>1. /\ j \in Ahead(x) /\ fl[j].pos \in Blocks
        /\ g[j].pos \in Nat /\ Count(g[j]) \in Nat /\ fl[j].pos <= g[j].pos
        /\ g[j].pos + Count(g[j]) <= fl[j].pos + Count(fl[j])
        /\ bid + n <= g[j].pos \/ g[j].pos + Count(g[j]) <= bid
    BY <1>17, <1>18
  <2>2. CASE HasSizes /\ b = bid
    BY <1>10, <2>1, <2>2
  <2>3. CASE ~ (HasSizes /\ b = bid)
    <3>1. new[b] = sz[b] /\ sz[b] > 0
      BY <1>4, <1>10, <1>18, <2>3
    <3>2. b + sz[b] <= fl[j].pos \/ fl[j].pos + Count(fl[j]) <= b
      BY <1>7, <2>1, <3>1
    <3>3. fl[j].pos \in Nat /\ Count(fl[j]) \in Nat /\ b \in Nat /\ sz[b] \in Nat
      BY <1>6, <1>11, <2>1
    <3> QED
      BY <2>1, <3>1, <3>2, <3>3
  <2> QED
    BY <2>2, <2>3
<1>19. ASSUME NEW j \in Ahead(t), g[j].pos \in Blocks, ~ HasSizes, NEW u \in U, u.page = p
       PROVE  u.bid \notin FreeBlocks(g[j])
  <2>1. /\ j \in Ahead(x) /\ fl[j].pos \in Blocks
        /\ g[j].pos \in Nat /\ Count(g[j]) \in Nat /\ fl[j].pos <= g[j].pos
        /\ g[j].pos + Count(g[j]) <= fl[j].pos + Count(fl[j])
        /\ bid + n <= g[j].pos \/ g[j].pos + Count(g[j]) <= bid
    BY <1>17, <1>19
  <2>2. j \in 1..Len(g) /\ j \in 1..Len(fl) /\ fl[j].pos \in Nat /\ Count(fl[j]) \in Nat
    BY <1>2, <1>5, <1>6, <2>1
  <2>3. /\ \A b : b \in FreeBlocks(g[j]) <=> b \in Nat /\ g[j].pos <= b /\ b < g[j].pos + Count(g[j])
        /\ \A b : b \in FreeBlocks(fl[j]) <=> b \in Nat /\ fl[j].pos <= b /\ b < fl[j].pos + Count(fl[j])
    BY <1>2, <1>5, <2>2, InFree
  <2>4. CASE u \in used
    <3>1. u.bid \notin FreeBlocks(fl[j])
      BY <1>7, <1>19, <2>1, <2>4
    <3> QED
      BY <2>1, <2>2, <2>3, <3>1
  <2>5. CASE u.bid = bid
    BY <1>12, <2>1, <2>3, <2>5
  <2> QED
    BY <1>19, <2>4, <2>5 DEF bid, fl
<1>20. ASSUME NEW u \in U, u.page = p
       PROVE  IF HasSizes THEN new[u.bid] = u.size ELSE u.bid \in Blocks /\ u.size = 1
  <2>1. CASE u \in used
    <3>1. u.bid \in BlockId /\ u.size \in Nat /\ u.size > 0
      BY <1>20, <2>1 DEF UsedTyped
    <3>2. IF HasSizes THEN sz[u.bid] = u.size ELSE u.bid \in Blocks /\ u.size = 1
      BY <1>1, <1>20, <2>1 DEF UsedKept, sz
    <3>3. ASSUME HasSizes PROVE new[u.bid] = u.size
      <4>1. u.bid + u.size <= bid \/ bid + c <= u.bid
        BY <1>13, <3>1, <3>2, <3>3
      <4>2. u.bid # bid /\ ~ (bid <= u.bid /\ u.bid < bid + n) /\ u.bid \in Nat
        <5>1. \A v, s \in Nat : s > 0 /\ (v + s <= bid \/ bid + c <= v)
                 => v # bid /\ ~ (bid <= v /\ v < bid + n)
          BY <1>2, <1>12
        <5>2. u.bid \in Nat
          BY <1>11, <3>1
        <5> QED
          BY <3>1, <4>1, <5>1, <5>2
      <4> QED
        BY <1>10, <3>1, <3>2, <3>3, <4>2
    <3> QED
      BY <3>2, <3>3
  <2>2. CASE u.bid = bid /\ u.size = n
    BY <1>2, <1>10, <1>12, <2>2
  <2> QED
    BY <1>20, <2>1, <2>2 DEF bid, fl
<1>21. RunsInOrder(y)
  <2>1. Ahead(y) = Ahead(t) /\ y.free = g
    BY <1>9 DEF Ahead, g
  <2> QED
    BY <1>3, <2>1, Zenon DEF RunsInOrder, g
<1>22. SoundFor(U, p, y)
  <2>1. Ahead(y) = Ahead(t) /\ y.free = g /\ y.sizes = new
    BY <1>9 DEF Ahead, g
  <2> QED
    BY <1>16, <1>18, <1>19, <1>20, <1>21, <2>1, Zenon DEF SoundFor
<1>23. Typed(y)
  <2>1. g \in Seq(Run) /\ t.current \in 0..Len(g) /\ new \in [BlockId -> 0..CursorMod-1]
    BY <1>2, <1>4, <1>5, <1>10
  <2> QED
    BY <1>9, <2>1 DEF Typed
<1>24. \A b \in bid..bid + (n - 1) : b \in Nat /\ bid <= b /\ b < bid + n
  BY <1>12
<1> QED
  BY <1>2, <1>14, <1>15, <1>22, <1>23, <1>24 DEF bid, fl, sz

\* The first block of a page is on no list once a block was taken.
LEMMA TakenStart ==
  ASSUME Setting, NEW x, Typed(x), RunsInOrder(x), ~ HasSizes, 1 < CursorMod,
         NEW k \in Room(x, 1)
  PROVE  \A j \in Ahead(Taken(x, k, 1)) : Taken(x, k, 1).free[j].pos > 0
<1> DEFINE fl == x.free
           t == Taken(x, k, 1)
           g == t.free
           c == Count(fl[k])
<1>1. /\ k \in Ahead(x) /\ k \in 1..Len(fl) /\ fl[k].pos \in Blocks
      /\ c \in Nat /\ 1 <= c /\ fl[k].pos + c <= max_blocks
      /\ \A j \in 1..Len(fl) : j # k => g[j] = fl[j]
      /\ Ahead(t) \subseteq Ahead(x)
      /\ k \in Ahead(t) => IF 1 < c THEN g[k].pos = fl[k].pos + 1 ELSE HasSizes
  <2>1. 1 \in Nat \ {0}
    OBVIOUS
  <2> QED
    BY <2>1, Takes
<1>2. fl \in Seq(Run) /\ Ahead(x) \subseteq 1..Len(fl) /\ Ahead(x) \subseteq Nat
      /\ \A j \in Ahead(x) : k <= j
  <2>1. x.current \in Nat /\ fl \in Seq(Run)
    BY Positions DEF Typed
  <2>2. Len(fl) \in Nat
    BY <2>1, Positions
  <2>3. k = x.current + 1
    BY DEF Room
  <2> QED
    BY <2>1, <2>2, <2>3 DEF Ahead
<1>3. Blocks \subseteq Nat
  BY DEF Setting
<1>4. \A j \in Ahead(x) : k < j =>
        fl[j].pos \in Nat /\ (fl[j].pos \in Blocks => fl[k].pos + c <= fl[j].pos)
  <2>1. \A j \in Ahead(x) : fl[j].pos \in Nat
    BY <1>2, Counts
  <2> QED
    BY <1>1, <2>1, Zenon DEF RunsInOrder, c
<1>5. \A j \in Ahead(x) : fl[j].pos \in Blocks
  BY DEF RunsInOrder
<1> HIDE DEF fl, t, g, c
<1>6. ASSUME NEW j \in Ahead(t) PROVE g[j].pos > 0
  <2>1. j \in Ahead(x) /\ k <= j /\ j \in Nat /\ k \in Nat
    BY <1>1, <1>2
  <2>2. fl[k].pos \in Nat /\ c \in Nat /\ 1 <= c
    BY <1>1, <1>3
  <2>3. CASE j = k
    <3>1. g[j].pos = fl[k].pos + 1
      BY <1>1, <1>6, <2>3
    <3> QED
      BY <2>2, <3>1
  <2>4. CASE k < j
    <3>1. g[j] = fl[j]
      BY <1>1, <1>2, <2>1, <2>4
    <3>2. fl[j].pos \in Nat /\ fl[k].pos + c <= fl[j].pos
      BY <1>4, <1>5, <2>1, <2>4
    <3>3. fl[j].pos > 0
      BY <2>2, <3>2
    <3> QED
      BY <3>1, <3>3
  <2> QED
    BY <2>1, <2>3, <2>4
<1> QED
  BY <1>6 DEF t, g

\* A page that was allocated from.
LEMMA PageWritten ==
  ASSUME UNCHANGED <<kind, max_blocks>>, NEW p, NEW x, SoundFor(used', p, x),
         x.free = free'[p], x.current = current'[p], x.sizes = sizes'[p],
         ~ need_flush'[p], ~ HasSizes => \A k \in Ahead(x) : x.free[k].pos > 0
  PROVE  (Sound(p, Stored(p)) /\ StartTaken(p) /\ MarksHold(p))'
<1>1. HasSizes' <=> HasSizes
  BY DEF HasSizes
<1>2. Sound(p, Stored(p))'
  BY Primed
<1>3. StartTaken(p)'
  <2>1. Ahead(Stored(p))' = Ahead(x)
    BY DEF Ahead, Stored
  <2> QED
    BY <1>1, <2>1 DEF StartTaken
<1>4. MarksHold(p)'
  BY DEF MarksHold
<1> QED
  BY <1>2, <1>3, <1>4

\* Write keeps the types of the pages.
LEMMA WriteTyped ==
  ASSUME TypeOK, UNCHANGED <<kind, max_blocks>>, NEW S, NEW p \in Page, NEW y, Typed(y),
         Write(S, p, y.free, y.current, y.sizes),
         \A q \in S : Typed(Found(q))
  PROVE  /\ free' \in [Page -> Seq(Run)]
         /\ \A q \in Page : current'[q] \in 0..Len(free'[q])
         /\ need_flush' \in [Page -> BOOLEAN]
         /\ sizes' \in [Page -> [BlockId -> 0..CursorMod-1]]
<1>1. /\ free' = [q \in Page |-> IF q = p THEN y.free
                             ELSE IF q \in S THEN Found(q).free ELSE free[q]]
      /\ current' = [q \in Page |-> IF q = p THEN y.current
                                ELSE IF q \in S THEN Found(q).current ELSE current[q]]
      /\ sizes' = [q \in Page |-> IF q = p THEN y.sizes
                              ELSE IF q \in S THEN Found(q).sizes ELSE sizes[q]]
      /\ need_flush' = [q \in Page |-> need_flush[q] /\ q # p /\ q \notin S]
  BY DEF Write
<1>2. ASSUME NEW x, Typed(x)
      PROVE  /\ x.free \in Seq(Run) /\ x.current \in 0..Len(x.free)
             /\ x.sizes \in [BlockId -> 0..CursorMod-1]
  BY <1>2 DEF Typed
<1>3. /\ free \in [Page -> Seq(Run)] /\ sizes \in [Page -> [BlockId -> 0..CursorMod-1]]
      /\ \A q \in Page : current[q] \in 0..Len(free[q])
      /\ need_flush \in [Page -> BOOLEAN]
  BY DEF TypeOK, Run
<1>4. ASSUME NEW q \in Page
      PROVE  /\ free'[q] \in Seq(Run) /\ current'[q] \in 0..Len(free'[q])
             /\ sizes'[q] \in [BlockId -> 0..CursorMod-1]
             /\ need_flush'[q] \in BOOLEAN
  <2>1. CASE q = p
    <3>1. free'[q] = y.free /\ current'[q] = y.current /\ sizes'[q] = y.sizes
      BY <1>1, <2>1
    <3> QED
      BY <1>1, <1>2, <3>1
  <2>2. CASE q # p /\ q \in S
    <3>1. /\ free'[q] = Found(q).free /\ current'[q] = Found(q).current
          /\ sizes'[q] = Found(q).sizes
      BY <1>1, <2>2
    <3> QED
      BY <1>1, <1>2, <2>2, <3>1
  <2>3. CASE q # p /\ q \notin S
    <3>1. free'[q] = free[q] /\ current'[q] = current[q] /\ sizes'[q] = sizes[q]
      BY <1>1, <2>3
    <3> QED
      BY <1>1, <1>3, <3>1
  <2> QED
    BY <2>1, <2>2, <2>3
<1>5. /\ free' = [q \in Page |-> free'[q]] /\ sizes' = [q \in Page |-> sizes'[q]]
      /\ need_flush' = [q \in Page |-> need_flush'[q]]
  BY <1>1
<1>6. free' \in [Page -> Seq(Run)] /\ sizes' \in [Page -> [BlockId -> 0..CursorMod-1]]
      /\ need_flush' \in [Page -> BOOLEAN]
  BY <1>4, <1>5
<1> QED
  BY <1>4, <1>6

\* An allocation that is given a finalizer is owed it.
LEMMA GivenOwed ==
  ASSUME FinalizersOwed, TypeOK, Setting, UNCHANGED <<kind, max_blocks>>, kind = "finalizer",
         NEW p \in Page, NEW bid \in BlockId, NEW n \in 1..CursorMod,
         used' = used \cup {[page |-> p, bid |-> bid, size |-> n]},
         owed' = owed \cup {[page |-> p, bid |-> bid, size |-> n]},
         \A q \in Page : q # p => sizes'[q] = sizes[q],
         \A b \in BlockId : sizes'[p][b] = IF b = bid THEN n
                                ELSE IF bid <= b /\ b < bid + n THEN 0 ELSE sizes[p][b],
         \A b \in BlockId : bid <= b /\ b < bid + n => sizes[p][b] = 0
  PROVE  FinalizersOwed'
<1> DEFINE Rec == [page : Page, bid : BlockId, size : 1..CursorMod]
           new == [page |-> p, bid |-> bid, size |-> n]
<1>1. used \subseteq owed /\ owed = { o \in Rec : sizes[o.page][o.bid] = o.size }
  BY DEF FinalizersOwed
<1>2. used' \subseteq owed'
  BY <1>1
<1>3. new \in Rec
  OBVIOUS
<1>4. CursorMod \in Nat /\ BlockId \subseteq Nat /\ n \in Nat /\ n > 0
  BY DEF Setting
<1>5. ASSUME NEW o \in Rec PROVE o \in owed' <=> sizes'[o.page][o.bid] = o.size
  <2>1. o.page \in Page /\ o.bid \in BlockId /\ o.size \in 1..CursorMod /\ o.size # 0
    BY <1>4
  <2>2. o \in owed <=> sizes[o.page][o.bid] = o.size
    BY <1>1
  <2>3. o \in owed' <=> o \in owed \/ o = new
    OBVIOUS
  <2>4. o = new <=> o.page = p /\ o.bid = bid /\ o.size = n
    OBVIOUS
  <2>5. CASE o.page # p
    <3>1. sizes'[o.page] = sizes[o.page] /\ o # new
      BY <2>1, <2>4, <2>5
    <3> QED
      BY <2>2, <2>3, <3>1
  <2>6. CASE o.page = p /\ o.bid = bid
    <3>1. sizes'[o.page][o.bid] = n /\ sizes[o.page][o.bid] = 0
      BY <1>4, <2>1, <2>6
    <3> QED
      BY <2>1, <2>2, <2>3, <2>4, <2>6, <3>1
  <2>7. CASE o.page = p /\ o.bid # bid /\ bid <= o.bid /\ o.bid < bid + n
    <3>1. sizes'[o.page][o.bid] = 0 /\ sizes[o.page][o.bid] = 0
      BY <2>1, <2>7
    <3> QED
      BY <2>1, <2>2, <2>3, <2>4, <2>7, <3>1
  <2>8. CASE o.page = p /\ o.bid # bid /\ ~ (bid <= o.bid /\ o.bid < bid + n)
    <3>1. sizes'[o.page][o.bid] = sizes[o.page][o.bid]
      BY <2>1, <2>8
    <3> QED
      BY <2>2, <2>3, <2>4, <2>8, <3>1
  <2> QED
    BY <2>5, <2>6, <2>7, <2>8
<1>6. owed' \subseteq Rec
  BY <1>1, <1>3
<1>7. owed' = { o \in Rec : sizes'[o.page][o.bid] = o.size }
  BY <1>5, <1>6
<1>8. BlockId' = BlockId
  BY DEF BlockId
<1> QED
  BY <1>2, <1>7, <1>8 DEF FinalizersOwed

\* An allocation, in a page that is in use or in a new one, keeps IInv.
LEMMA Allocated ==
  ASSUME IInv, Setting, NEW n \in Nat \ {0}, n < CursorMod, HasSizes \/ n = 1,
         NEW p \in Page, NEW x, Typed(x), Sound(p, x), NEW k \in Room(x, n),
         kind = "finalizer" => x.sizes = sizes[p],
         NEW S, S \subseteq InUse, \A q \in S : q # p => Room(Found(q), n) = {},
         Write(S, p, Taken(x, k, n).free, Taken(x, k, n).current,
               SizesWith(x.sizes, x.free[k].pos, n)),
         Give(p, x.free[k].pos, n),
         InUse' = InUse \cup {p}, pages' \in Seq(Page), IsInjective(pages')
  PROVE  IInv'
<1> DEFINE bid == x.free[k].pos
           y == [free |-> Taken(x, k, n).free, current |-> Taken(x, k, n).current,
                 sizes |-> SizesWith(x.sizes, bid, n)]
           new == [page |-> p, bid |-> bid, size |-> n]
<1>1. /\ TypeOK /\ CursorSuffices /\ FinalizersOwed
      /\ \A q \in InUse : Sound(q, Stored(q)) /\ StartTaken(q) /\ MarksHold(q)
      /\ \A q \in Page \ InUse : PageIsEmpty(q)
  BY DEF IInv
<1>2. /\ bmp' = [bmp EXCEPT ![p] = IF HasSizes THEN @ \cup {bid} ELSE @]
      /\ free_page' = p
      /\ used' = used \cup {new}
      /\ owed' = IF kind = "finalizer" THEN owed \cup {new} ELSE owed
      /\ UNCHANGED <<kind, max_blocks>> /\ UNCHANGED <<profile, status>>
  BY DEF Give
<1>3. /\ HasSizes' <=> HasSizes
      /\ Blocks' = Blocks /\ BlockId' = BlockId /\ FirstBlock' = FirstBlock /\ NoSizes' = NoSizes
  BY <1>2, FixedSetting
<1>4. /\ CursorMod \in Nat /\ BlockId \subseteq Nat /\ Blocks \subseteq BlockId
      /\ 1 < CursorMod /\ FirstBlock + 1 < max_blocks
      /\ n \in 1..CursorMod /\ n \in Nat
  BY DEF Setting
<1>5. UsedTyped(p)
  <2>1. \A u \in used : u \in [page : Page, bid : BlockId, size : 1..CursorMod]
    BY <1>1 DEF TypeOK
  <2>2. \A u \in used : u.bid \in BlockId /\ u.size \in 1..CursorMod
    BY <2>1
  <2> QED
    BY <1>4, <2>2 DEF UsedTyped
<1>6. \A u \in used' : u.page = p => u \in used \/ (u.bid = bid /\ u.size = n)
  BY <1>2
<1>7. y.free = Taken(x, k, n).free /\ y.current = Taken(x, k, n).current
      /\ y.sizes = SizesWith(x.sizes, bid, n)
  OBVIOUS
<1>8. Write(S, p, y.free, y.current, y.sizes)
  OBVIOUS
<1>9. RunsInOrder(x)
  BY DEF Sound
<1> HIDE DEF y
<1>10. /\ bid \in Blocks /\ bid + n <= max_blocks
       /\ HasSizes => \A b \in bid..bid + (n - 1) : x.sizes[b] = 0
       /\ Typed(y) /\ SoundFor(used', p, y)
  BY <1>5, <1>6, <1>7, TakenSound
<1>11. ~ HasSizes => \A j \in Ahead(y) : y.free[j].pos > 0
  <2>1. Ahead(y) = Ahead(Taken(x, k, n)) /\ y.free = Taken(x, k, n).free
    BY <1>7 DEF Ahead
  <2>2. ASSUME ~ HasSizes PROVE \A j \in Ahead(Taken(x, k, n)) : Taken(x, k, n).free[j].pos > 0
    <3>1. n = 1
      BY <2>2
    <3> QED
      BY <1>4, <1>9, <2>2, <3>1, TakenStart
  <2> QED
    BY <2>1, <2>2
<1>12. /\ free' = [q \in Page |-> IF q = p THEN y.free
                             ELSE IF q \in S THEN Found(q).free ELSE free[q]]
       /\ current' = [q \in Page |-> IF q = p THEN y.current
                                ELSE IF q \in S THEN Found(q).current ELSE current[q]]
       /\ sizes' = [q \in Page |-> IF q = p THEN y.sizes
                              ELSE IF q \in S THEN Found(q).sizes ELSE sizes[q]]
       /\ need_flush' = [q \in Page |-> need_flush[q] /\ q # p /\ q \notin S]
  BY <1>8 DEF Write
<1>13. new \in [page : Page, bid : BlockId, size : 1..CursorMod]
  <2>1. n \in 1..CursorMod /\ bid \in BlockId
    BY <1>4, <1>10, Zenon
  <2> QED
    BY <2>1
<1>14. TypeOK'
  <2>1. /\ free' \in [Page -> Seq(Run)]
        /\ \A q \in Page : current'[q] \in 0..Len(free'[q])
        /\ need_flush' \in [Page -> BOOLEAN]
        /\ sizes' \in [Page -> [BlockId -> 0..CursorMod-1]]
    <3>1. \A q \in S : Typed(Found(q))
      BY FoundSound
    <3> QED
      BY <1>1, <1>2, <1>8, <1>10, <3>1, WriteTyped
  <2>2. bmp' \in [Page -> SUBSET BlockId]
    <3>1. bmp \in [Page -> SUBSET BlockId] /\ bid \in BlockId
      BY <1>1, <1>4, <1>10 DEF TypeOK
    <3> QED
      BY <1>2, <3>1
  <2>3. /\ used' \subseteq [page : Page, bid : BlockId, size : 1..CursorMod]
        /\ owed' \subseteq [page : Page, bid : BlockId, size : 1..CursorMod]
    BY <1>1, <1>2, <1>13 DEF TypeOK
  <2>4. /\ kind' \in Kind /\ max_blocks' \in PageSizes /\ profile' \in BOOLEAN
        /\ status' \in {"ok", "fatal"} /\ free_page' \in InUse' \cup {NoPage}
    BY <1>1, <1>2 DEF TypeOK
  <2> QED
    BY <1>3, <2>1, <2>2, <2>3, <2>4 DEF TypeOK, Run
<1>15. CursorSuffices' /\ FirstBlock' + 1 < max_blocks'
  BY <1>1, <1>2, <1>3, <1>4 DEF CursorSuffices
<1>16. ASSUME NEW q \in InUse' PROVE (Sound(q, Stored(q)) /\ StartTaken(q) /\ MarksHold(q))'
  <2>1. q \in Page /\ (q \in InUse \/ q = p)
    BY <1>16, PagesOf, <1>1 DEF TypeOK, InUse
  <2>2. CASE q = p
    <3>1. y.free = free'[p] /\ y.current = current'[p] /\ y.sizes = sizes'[p] /\ ~ need_flush'[p]
      BY <1>12
    <3> QED
      BY <1>2, <1>10, <1>11, <2>2, <3>1, PageWritten
  <2>3. \A u \in used' : u.page = q /\ q # p => u \in used
    BY <1>2
  <2>4. CASE q # p /\ q \in S
    <3>1. /\ Found(q).free = free'[q] /\ Found(q).current = current'[q]
          /\ Found(q).sizes = sizes'[q] /\ ~ need_flush'[q]
      BY <1>12, <2>1, <2>4
    <3>2. Sound(q, Found(q)) /\ Typed(Found(q))
      BY <2>1, <2>4, FoundSound
    <3>3. ~ HasSizes => Ahead(Found(q)) = {}
      <4>1. Room(Found(q), n) = {}
        BY <2>4
      <4>2. Found(q).current \in Nat /\ Len(Found(q).free) \in Nat
        BY <3>2, Positions DEF Typed
      <4> QED
        BY <4>1, <4>2 DEF Room, Ahead
    <3> QED
      BY <1>2, <2>3, <2>4, <3>1, <3>2, <3>3, PageFlushed
  <2>5. CASE q # p /\ q \notin S
    <3>1. /\ free'[q] = free[q] /\ current'[q] = current[q] /\ sizes'[q] = sizes[q]
          /\ need_flush'[q] => need_flush[q]
      BY <1>12, <2>1, <2>5
    <3>2. bmp'[q] = bmp[q]
      BY <1>2, <2>5
    <3> QED
      BY <1>1, <1>2, <2>1, <2>3, <2>5, <3>1, <3>2, PageKept
  <2> QED
    BY <2>2, <2>4, <2>5
<1>17. ASSUME NEW q \in Page \ InUse' PROVE PageIsEmpty(q)'
  <2>1. q \in Page \ InUse /\ q # p /\ q \notin S
    BY <1>17
  <2>2. /\ free'[q] = free[q] /\ current'[q] = current[q] /\ sizes'[q] = sizes[q]
        /\ need_flush'[q] = need_flush[q]
    BY <1>12, <2>1, <1>1 DEF TypeOK
  <2>3. \A u \in used' : u.page = q => u \in used
    BY <1>2, <2>1
  <2>4. PageIsEmpty(q)
    BY <1>1, <2>1
  <2>5. ~ need_flush'[q]
    BY <2>2, <2>4 DEF PageIsEmpty
  <2> QED
    BY <1>2, <2>2, <2>3, <2>4, <2>5, PageStaysEmpty
<1>18. FinalizersOwed'
  <2>1. CASE kind = "finalizer"
    <3>1. HasSizes /\ x.sizes = sizes[p] /\ bid \in BlockId /\ n \in 1..CursorMod /\ bid \in Nat
      <4>1. bid \in BlockId /\ bid \in Nat
        BY <1>4, <1>10, Zenon
      <4>2. HasSizes
        BY <2>1 DEF HasSizes
      <4> QED
        BY <1>4, <2>1, <4>1, <4>2
    <3>2. \A q \in Page : q # p => sizes'[q] = sizes[q]
      BY <1>12, <2>1, FoundSound
    <3>3. \A b \in BlockId : b \in RunOf(bid, n) <=> bid <= b /\ b < bid + n
      <4> HIDE DEF bid
      <4> QED
        BY <1>4, <3>1, InRun
    <3>4. \A b \in BlockId : sizes'[p][b] = IF b = bid THEN n
                                ELSE IF bid <= b /\ b < bid + n THEN 0 ELSE sizes[p][b]
      <4>1. sizes'[p] = SizesWith(sizes[p], bid, n)
        BY <1>7, <1>12, <3>1
      <4> HIDE DEF bid
      <4> QED
        BY <3>1, <3>3, <4>1 DEF SizesWith
    <3>5. \A b \in BlockId : bid <= b /\ b < bid + n => sizes[p][b] = 0
      <4>1. \A b \in BlockId : bid <= b /\ b < bid + n => b \in bid..bid + (n - 1)
        BY <1>4, <3>1
      <4> QED
        BY <1>10, <3>1, <4>1
    <3>6. owed' = owed \cup {new}
      BY <1>2, <2>1
    <3> HIDE DEF bid
    <3> QED
      BY <1>1, <1>2, <2>1, <3>1, <3>2, <3>4, <3>5, <3>6, GivenOwed
  <2>2. CASE kind # "finalizer"
    BY <1>2, <2>2 DEF FinalizersOwed
  <2> QED
    BY <2>1, <2>2
<1> QED
  BY <1>14, <1>15, <1>16, <1>17, <1>18 DEF IInv

\* The candidates are pages in use.
LEMMA CandidatesInUse ==
  ASSUME TypeOK
  PROVE  /\ Len(Candidates) \in Nat /\ DOMAIN Candidates = 1..Len(Candidates)
         /\ \A j \in DOMAIN Candidates : Candidates[j] \in InUse
<1>1. CASE free_page = NoPage
  <2>1. Candidates = <<>> /\ <<>> \in Seq(InUse)
    BY <1>1, EmptySeq DEF Candidates
  <2> QED
    BY <2>1, Positions
<1>2. CASE free_page # NoPage
  <2> DEFINE I == {i \in DOMAIN pages : pages[i] = free_page}
             first == FirstOf(I)
             rest == SubSeq(pages, first, Len(pages))
  <2>1. /\ Len(pages) \in Nat /\ DOMAIN pages = 1..Len(pages)
        /\ free_page \in InUse
    BY <1>2, Positions DEF TypeOK
  <2>2. I # {} /\ I \subseteq Nat
    BY <2>1 DEF InUse, ToSet
  <2>3. first \in 1..Len(pages)
    <3>1. first \in I
      BY <2>2, Least
    <3> QED
      BY <2>1, <3>1
  <2>4. Candidates = rest
    BY <1>2 DEF Candidates
  <2> HIDE DEF first
  <2>5. first \in Nat /\ \A i \in first..Len(pages) : pages[i] \in InUse
    BY <2>1, <2>3 DEF InUse, ToSet
  <2>6. rest \in Seq(InUse)
    BY <2>1, <2>5, SubSeqProperties
  <2> HIDE DEF rest
  <2> QED
    BY <2>4, <2>6, Positions
<1> QED
  BY <1>1, <1>2

\* The allocation from a page in use,
LEMMA AllocInPageHolds ==
  ASSUME IInv, NEW n \in 1..(max_blocks - FirstBlock - 1), HasSizes \/ n = 1, AllocInPage(n)
  PROVE  IInv'
<1> DEFINE i == FirstOf(HasRoom(n))
           p == Candidates[i]
           found == Found(p)
           k == FirstOf(Room(found, n))
           bid == found.free[k].pos
           S == {Candidates[j] : j \in 1..i}
<1>1. TypeOK
  BY DEF IInv
<1>2. /\ HasRoom(n) # {} /\ pages' = pages
      /\ Write(S, p, Taken(found, k, n).free, Taken(found, k, n).current,
               SizesWith(found.sizes, bid, n))
      /\ Give(p, bid, n)
  BY DEF AllocInPage
<1>3. /\ Len(Candidates) \in Nat /\ DOMAIN Candidates = 1..Len(Candidates)
      /\ \A j \in DOMAIN Candidates : Candidates[j] \in InUse
  BY <1>1, CandidatesInUse
<1>4. i \in HasRoom(n) /\ \A j \in HasRoom(n) : i <= j
  <2>1. HasRoom(n) \subseteq Nat
    BY <1>3 DEF HasRoom
  <2> QED
    BY <1>2, <2>1, Least
<1> HIDE DEF i
<1>5. i \in DOMAIN Candidates /\ i \in Nat /\ i >= 1 /\ Room(found, n) # {}
  BY <1>3, <1>4 DEF HasRoom
<1>6. p \in InUse
  BY <1>3, <1>5
<1>7. /\ Setting /\ p \in Page /\ Typed(found) /\ Sound(p, found)
      /\ kind = "finalizer" => found.sizes = sizes[p]
  BY <1>6, Pages, FoundSound
<1> HIDE DEF found, p
<1>8. k \in Room(found, n)
  <2>1. found.current \in Nat
    BY <1>7, Positions DEF Typed
  <2>2. Room(found, n) \subseteq Nat
    BY <2>1 DEF Room
  <2> QED
    BY <1>5, <2>2, Least
<1> HIDE DEF k
<1>9. n \in Nat \ {0} /\ n < CursorMod
  BY <1>7 DEF Setting
<1>10. 1..i \subseteq DOMAIN Candidates
  BY <1>3, <1>5
<1>11. S \subseteq InUse
  BY <1>3, <1>10
<1>12. ASSUME NEW q \in S, q # p PROVE Room(Found(q), n) = {}
  <2>1. PICK j \in 1..i : q = Candidates[j]
    OBVIOUS
  <2>2. j # i
    BY <1>12, <2>1 DEF p
  <2>3. j \in DOMAIN Candidates /\ ~ (i <= j)
    BY <1>5, <1>10, <2>1, <2>2
  <2>4. j \notin HasRoom(n)
    BY <1>4, <2>3
  <2> QED
    BY <2>1, <2>3, <2>4 DEF HasRoom
<1>13. InUse' = InUse \cup {p} /\ pages' \in Seq(Page) /\ IsInjective(pages')
  <2>1. InUse' = InUse
    BY <1>2 DEF InUse
  <2> QED
    BY <1>1, <1>2, <1>6, <2>1 DEF TypeOK
<1> HIDE DEF S
<1> QED
  BY <1>2, <1>7, <1>8, <1>9, <1>11, <1>12, <1>13, Allocated

\* ... and from a new one, of which all blocks are one run.
LEMMA AllocNewPageHolds ==
  ASSUME IInv, NEW n \in 1..(max_blocks - FirstBlock - 1), HasSizes \/ n = 1,
         NEW p \in Page, AllocNewPage(n, p)
  PROVE  IInv'
<1> DEFINE first == [pos |-> FirstBlock, count |-> (max_blocks - FirstBlock) % CursorMod]
           left == [pos |-> first.pos + n, count |-> (first.count - n) % CursorMod]
           x == [free |-> <<first>>, current |-> 0, sizes |-> NoSizes]
           t == Taken(x, 1, n)
           S == ToSet(Candidates)
<1>1. TypeOK /\ PageIsEmpty(p) /\ p \notin InUse
  BY DEF IInv, AllocNewPage
<1>2. /\ HasRoom(n) = {} /\ pages' = <<p>> \o pages
      /\ Write(S, p, <<left>>, 0, SizesWith(NoSizes, FirstBlock, n))
      /\ Give(p, FirstBlock, n)
  BY DEF AllocNewPage
<1>3. /\ Len(Candidates) \in Nat /\ DOMAIN Candidates = 1..Len(Candidates)
      /\ \A j \in DOMAIN Candidates : Candidates[j] \in InUse
  BY <1>1, CandidatesInUse
<1>4. Setting
  <2>1. FirstBlock + 1 < max_blocks
    <3>1. max_blocks \in Nat /\ FirstBlock \in Nat
      <4>1. max_blocks \in 1..CursorMod
        BY <1>1, CursorAssumption DEF TypeOK
      <4> QED
        BY <4>1, HeaderAssumption, CountAssumption DEF FirstBlock
    <3> QED
      BY <3>1
  <2> QED
    BY <1>1, <2>1, Numbers
<1>5. /\ CursorMod \in Nat /\ max_blocks \in Nat /\ FirstBlock \in Nat
      /\ max_blocks <= CursorMod /\ FirstBlock + 1 < max_blocks
      /\ ~ HasSizes => FirstBlock = 0
      /\ HasSizes /\ max_blocks = CursorMod => FirstBlock > 0
      /\ HasSizes \in BOOLEAN /\ 1 < CursorMod
      /\ BlockId = 0..max_blocks-1 /\ Blocks = FirstBlock..max_blocks-1
  BY <1>4 DEF Setting
<1>6. n \in Nat \ {0} /\ n < CursorMod /\ n < max_blocks - FirstBlock
  BY <1>5
<1>7. /\ first.pos = FirstBlock /\ first.count \in 0..CursorMod-1
      /\ first.count = IF max_blocks - FirstBlock = CursorMod THEN 0 ELSE max_blocks - FirstBlock
      /\ (first.count - n) % CursorMod = max_blocks - FirstBlock - n
  <2>1. \A a, m \in Nat : 0 < m /\ a <= m => a % m = IF a = m THEN 0 ELSE a
    OBVIOUS
  <2>2. max_blocks - FirstBlock \in Nat /\ max_blocks - FirstBlock <= CursorMod
    BY <1>5
  <2>3. first.count = IF max_blocks - FirstBlock = CursorMod THEN 0 ELSE max_blocks - FirstBlock
    BY <1>5, <2>1, <2>2
  <2>4. first.pos = FirstBlock
    OBVIOUS
  <2> HIDE DEF first
  <2>5. CASE max_blocks - FirstBlock = CursorMod
    <3>1. ~ HasSizes
      BY <1>5, <2>5
    <3>2. n = 1 /\ first.count = 0
      BY <2>3, <2>5, <3>1
    <3>3. (0 - 1) % CursorMod = CursorMod - 1
      BY <1>5
    <3> QED
      BY <1>5, <2>3, <2>4, <2>5, <3>2, <3>3
  <2>6. CASE max_blocks - FirstBlock # CursorMod
    <3>1. first.count - n \in Nat /\ first.count - n < CursorMod
      BY <1>5, <1>6, <2>2, <2>3, <2>6
    <3>2. (first.count - n) % CursorMod = first.count - n
      BY <1>5, <2>1, <3>1
    <3> QED
      BY <1>5, <2>2, <2>3, <2>4, <2>6, <3>2
  <2> QED
    BY <2>5, <2>6
<1>8. first \in Run
  <2>1. first.pos \in 0..CursorMod-1
    BY <1>5, <1>7
  <2> QED
    BY <1>7, <2>1 DEF Run
<1>9. Count(first) = max_blocks - FirstBlock
  <2>1. max_blocks - FirstBlock = CursorMod => ~ HasSizes
    BY <1>5
  <2>2. max_blocks - FirstBlock # 0
    BY <1>5
  <2> HIDE DEF first
  <2> QED
    BY <1>7, <2>1, <2>2 DEF Count
<1> HIDE DEF first
<1>10. /\ x.free \in Seq(Run) /\ Len(x.free) = 1 /\ x.free[1] = first
       /\ x.current = 0 /\ x.sizes = NoSizes
  BY <1>8
<1>11. NoSizes \in [BlockId -> 0..CursorMod-1] /\ \A b \in BlockId : NoSizes[b] = 0
  BY <1>5 DEF NoSizes
<1> HIDE DEF x
<1>12. Typed(x) /\ Ahead(x) = {1}
  BY <1>10, <1>11 DEF Typed, Ahead
<1>13. 1 \in Room(x, n)
  <2>1. HasSizes => first.count >= n
    BY <1>5, <1>6, <1>7
  <2> QED
    BY <1>10, <2>1 DEF Room
<1>14. Sound(p, x)
  <2>1. RunsInOrder(x)
    <3>1. first.pos \in Blocks /\ first.pos + Count(first) <= max_blocks
      BY <1>5, <1>7, <1>9
    <3> QED
      BY <1>10, <1>12, <3>1 DEF RunsInOrder
  <2>2. ObjectsApart(x.sizes)
    BY <1>10, <1>11 DEF ObjectsApart
  <2>3. \A u \in used : u.page # p
    BY <1>1 DEF PageIsEmpty
  <2>4. RunsFree(p, x)
    BY <1>10, <1>11, <2>3 DEF RunsFree
  <2>5. UsedKept(p, x)
    BY <2>3 DEF UsedKept
  <2> QED
    BY <2>1, <2>2, <2>4, <2>5 DEF Sound
<1>15. t.free = <<left>> /\ t.current = 0
  <2>1. left = [pos |-> (first.pos + n) % CursorMod, count |-> (first.count - n) % CursorMod]
    <3>1. first.pos + n \in Nat /\ first.pos + n < CursorMod
      BY <1>5, <1>6, <1>7
    <3>2. (first.pos + n) % CursorMod = first.pos + n
      BY <1>5, <3>1
    <3> QED
      BY <3>2
  <2>2. left.count # 0
    BY <1>5, <1>6, <1>7
  <2> HIDE DEF left
  <2>3. x.free = <<first>>
    BY DEF x
  <2>4. t = [free |-> [x.free EXCEPT ![1] = left],
             current |-> IF left.count = 0 THEN x.current + 1 ELSE x.current]
    BY <1>10, <2>1 DEF Taken
  <2>5. [x.free EXCEPT ![1] = left] = <<left>>
    BY <2>3
  <2> QED
    BY <1>10, <2>2, <2>4, <2>5
<1>16. /\ x.free[1].pos = FirstBlock
       /\ Write(S, p, t.free, t.current, SizesWith(x.sizes, FirstBlock, n))
  BY <1>2, <1>7, <1>10, <1>15
<1>17. kind = "finalizer" => x.sizes = sizes[p]
  BY <1>1, <1>10 DEF PageIsEmpty
<1>18. S \subseteq InUse
  BY <1>3 DEF ToSet
<1>19. ASSUME NEW q \in S PROVE Room(Found(q), n) = {}
  BY <1>2 DEF ToSet, HasRoom
<1>20. InUse' = InUse \cup {p} /\ pages' \in Seq(Page) /\ IsInjective(pages')
  <2>1. pages \in Seq(Page) /\ Len(pages) \in Nat /\ DOMAIN pages = 1..Len(pages)
    BY <1>1, Positions DEF TypeOK
  <2>2. /\ <<p>> \in Seq(Page) /\ Len(<<p>>) = 1 /\ <<p>>[1] = p
    OBVIOUS
  <2>3. /\ pages' \in Seq(Page) /\ Len(pages') = Len(pages) + 1
        /\ \A j \in 1..Len(pages) + 1 : pages'[j] = IF j <= 1 THEN <<p>>[j] ELSE pages[j - 1]
    BY <1>2, <2>1, <2>2, ConcatProperties
  <2>4. DOMAIN pages' = 1..Len(pages) + 1
    BY <2>3, Positions
  <2>5. /\ pages'[1] = p
        /\ \A j \in 1..Len(pages) + 1 : j # 1 => j - 1 \in 1..Len(pages) /\ pages'[j] = pages[j - 1]
    BY <2>1, <2>2, <2>3
  <2>6. \A j \in 1..Len(pages) : pages[j] # p
    BY <1>1, <2>1 DEF InUse, ToSet
  <2>7. IsInjective(pages')
    <3> SUFFICES ASSUME NEW a \in 1..Len(pages) + 1, NEW b \in 1..Len(pages) + 1,
                        pages'[a] = pages'[b]
                 PROVE  a = b
      BY <2>4 DEF IsInjective
    <3>1. CASE a = 1 \/ b = 1
      BY <2>5, <2>6, <3>1
    <3>2. CASE a # 1 /\ b # 1
      <4>1. pages[a - 1] = pages[b - 1] /\ a - 1 \in 1..Len(pages) /\ b - 1 \in 1..Len(pages)
        BY <2>5, <3>2
      <4>2. a - 1 = b - 1
        BY <1>1, <2>1, <4>1 DEF TypeOK, IsInjective
      <4> QED
        BY <2>1, <4>2
    <3> QED
      BY <3>1, <3>2
  <2>8. \A j \in 1..Len(pages) : j + 1 \in 1..Len(pages) + 1 /\ pages'[j + 1] = pages[j]
    <3> SUFFICES ASSUME NEW j \in 1..Len(pages)
                 PROVE  j + 1 \in 1..Len(pages) + 1 /\ pages'[j + 1] = pages[j]
      OBVIOUS
    <3>1. j + 1 \in 1..Len(pages) + 1 /\ j + 1 # 1 /\ (j + 1) - 1 = j
      BY <2>1
    <3> QED
      BY <2>5, <3>1
  <2>9. InUse' = InUse \cup {p}
    <3>1. ASSUME NEW q PROVE q \in InUse' <=> \E j \in 1..Len(pages) + 1 : q = pages'[j]
      BY <2>4, Zenon DEF InUse, ToSet
    <3>2. ASSUME NEW q PROVE q \in InUse <=> \E j \in 1..Len(pages) : q = pages[j]
      BY <2>1, Zenon DEF InUse, ToSet
    <3>3. 1 \in 1..Len(pages) + 1
      BY <2>1
    <3>4. ASSUME NEW q, q \in InUse' PROVE q \in InUse \/ q = p
      <4>1. PICK j \in 1..Len(pages) + 1 : q = pages'[j]
        BY <3>1, <3>4, Zenon
      <4> QED
        BY <2>5, <3>2, <4>1
    <3>5. InUse \subseteq InUse'
      <4>1. ASSUME NEW q \in InUse PROVE \E j \in 1..Len(pages) + 1 : q = pages'[j]
        <5>1. PICK j \in 1..Len(pages) : q = pages[j]
          BY <3>2
        <5>2. j + 1 \in 1..Len(pages) + 1 /\ q = pages'[j + 1]
          BY <2>8, <5>1
        <5> QED
          BY <5>2
      <4> QED
        BY <3>1, <4>1, Zenon
    <3>6. p \in InUse'
      BY <2>5, <3>1, <3>3, Zenon
    <3> QED
      BY <3>4, <3>5, <3>6
  <2> QED
    BY <2>3, <2>7, <2>9
<1> HIDE DEF S, t
<1>21. Give(p, x.free[1].pos, n)
  BY <1>2, <1>16
<1>22. Write(S, p, Taken(x, 1, n).free, Taken(x, 1, n).current,
             SizesWith(x.sizes, x.free[1].pos, n))
  BY <1>16 DEF t
<1>23. \A q \in S : q # p => Room(Found(q), n) = {}
  BY <1>19
<1> QED
  BY <1>4, <1>6, <1>12, <1>13, <1>14, <1>17, <1>18, <1>20, <1>21, <1>22, <1>23, Allocated, Zenon
-----------------------------------------------------------------------------
\* The recursive function Keep, round by round.
LEMMA KeepSteps ==
  ASSUME TypeOK, NEW m
  PROVE  /\ Keep(m)[0] = <<>>
         /\ \A n \in Nat : Keep(m)[n + 1] =
              IF pages[n + 1] \in Empty(m) THEN Keep(m)[n] ELSE Append(Keep(m)[n], pages[n + 1])
<1> DEFINE Them == {pages[n] : n \in Nat}
           S == Seq(Them)
           Next1(n, s) == IF pages[n] \in Empty(m) THEN s ELSE Append(s, pages[n])
           step == [n \in Nat |-> [s \in S |-> Next1(n, s)]]
           Is(f) == f = [n \in Nat |-> IF n = 0 THEN <<>> ELSE Next1(n, f[n - 1])]
<1>1. <<>> \in S
  BY EmptySeq
<1>2. step \in [Nat -> [S -> S]]
  <2>1. ASSUME NEW n \in Nat, NEW s \in S PROVE Next1(n, s) \in S
    <3>1. pages[n] \in Them
      OBVIOUS
    <3> HIDE DEF Them
    <3> QED
      BY <3>1, AppendProperties
  <2> HIDE DEF S, Next1
  <2> QED
    BY <2>1
<1> HIDE DEF S, Next1
<1>3. PICK f : f \in [Nat -> S] /\ f[0] = <<>> /\ \A n \in Nat : f[n + 1] = step[n + 1][f[n]]
  <2> HIDE DEF step
  <2>1. PICK f : Iterates(f, S, <<>>, step)
    BY <1>1, <1>2, Iteration, Zenon
  <2> QED
    BY <2>1, Zenon DEF Iterates
<1>4. \A n \in Nat : f[n + 1] = Next1(n + 1, f[n])
  <2>1. \A n \in Nat : n + 1 \in Nat /\ f[n] \in S
    BY <1>3
  <2>2. \A n \in Nat, s \in S : step[n][s] = Next1(n, s)
    OBVIOUS
  <2> HIDE DEF step
  <2> QED
    BY <1>3, <2>1, <2>2, Zenon
<1>5. Is(f)
  <2>1. ASSUME NEW n \in Nat PROVE f[n] = IF n = 0 THEN <<>> ELSE Next1(n, f[n - 1])
    <3>1. CASE n = 0
      BY <1>3, <3>1
    <3>2. CASE n # 0
      <4>1. n - 1 \in Nat /\ (n - 1) + 1 = n
        BY <3>2
      <4> QED
        BY <1>4, <3>2, <4>1
    <3> QED
      BY <3>1, <3>2
  <2> HIDE DEF step
  <2> QED
    BY <1>3, <2>1
<1>6. Keep(m) = CHOOSE g : Is(g)
  BY DEF Keep, Next1
<1> HIDE DEF Is
<1>7. Is(Keep(m))
  BY <1>5, <1>6, Zenon
<1> DEFINE g == Keep(m)
<1> HIDE DEF g
<1>8. g = [n \in Nat |-> IF n = 0 THEN <<>> ELSE Next1(n, g[n - 1])]
  BY <1>7, Zenon DEF Is, g
<1>9. g[0] = <<>> /\ \A n \in Nat : g[n + 1] = Next1(n + 1, g[n])
  BY <1>8
<1> QED
  BY <1>9 DEF g, Next1

\* gc_flush_empty_pages keeps the pages that are not empty, each once.
LEMMA KeptPages ==
  ASSUME TypeOK, NEW m
  PROVE  /\ Kept(m) \in Seq(Page) /\ IsInjective(Kept(m))
         /\ ToSet(Kept(m)) = InUse \ Empty(m)
<1> DEFINE f == Keep(m)
           Right(n) == n <= Len(pages) =>
             /\ f[n] \in Seq(Page) /\ IsInjective(f[n])
             /\ \A p : p \in ToSet(f[n]) <=> p \notin Empty(m) /\ \E i \in 1..n : p = pages[i]
           T == {n \in Nat : Right(n)}
<1>1. /\ pages \in Seq(Page) /\ IsInjective(pages)
      /\ Len(pages) \in Nat /\ DOMAIN pages = 1..Len(pages)
      /\ \A i \in 1..Len(pages) : pages[i] \in Page
  BY Positions DEF TypeOK
<1>2. /\ f[0] = <<>>
      /\ \A n \in Nat : f[n + 1] =
           IF pages[n + 1] \in Empty(m) THEN f[n] ELSE Append(f[n], pages[n + 1])
  BY KeepSteps
<1> HIDE DEF f
<1>3. 0 \in T
  <2>1. /\ <<>> \in Seq(Page) /\ IsInjective(<<>>) /\ ToSet(<<>>) = {}
    BY EmptySeq DEF IsInjective, ToSet
  <2>2. \A i : i \notin 1..0
    OBVIOUS
  <2>3. Right(0)
    BY <1>2, <2>1, <2>2, Zenon
  <2> HIDE DEF Right
  <2> QED
    BY <2>3
<1>4. ASSUME NEW n \in Nat, n \in T PROVE n + 1 \in T
  <2> SUFFICES ASSUME n + 1 <= Len(pages)
               PROVE  /\ f[n + 1] \in Seq(Page) /\ IsInjective(f[n + 1])
                      /\ \A p : p \in ToSet(f[n + 1]) <=>
                                  p \notin Empty(m) /\ \E i \in 1..n + 1 : p = pages[i]
    BY <1>4
  <2> DEFINE s == f[n]
             q == pages[n + 1]
  <2>1. /\ s \in Seq(Page) /\ IsInjective(s)
        /\ \A p : p \in ToSet(s) <=> p \notin Empty(m) /\ \E i \in 1..n : p = pages[i]
    BY <1>1, <1>4
  <2>2. \A p : (\E i \in 1..n + 1 : p = pages[i]) <=> p = q \/ \E i \in 1..n : p = pages[i]
    <3>1. \A i : i \in 1..n + 1 <=> i \in 1..n \/ i = n + 1
      BY <1>4
    <3> QED
      BY <3>1, Zenon
  <2>3. f[n + 1] = IF q \in Empty(m) THEN s ELSE Append(s, q)
    BY <1>2, <1>4
  <2>4. q \in Page
    BY <1>1, <1>4
  <2>5. q \notin {pages[i] : i \in 1..n}
    <3> SUFFICES ASSUME NEW i \in 1..n, pages[i] = pages[n + 1] PROVE FALSE
      OBVIOUS
    <3>1. i \in 1..Len(pages) /\ n + 1 \in 1..Len(pages) /\ i # n + 1
      BY <1>1, <1>4
    <3> QED
      BY <1>1, <3>1 DEF IsInjective
  <2> HIDE DEF s, q
  <2>6. CASE q \in Empty(m)
    BY <2>1, <2>2, <2>3, <2>6, Zenon
  <2>7. CASE q \notin Empty(m)
    <3> DEFINE r == Append(s, q)
    <3>1. /\ r \in Seq(Page) /\ Len(s) \in Nat /\ Len(r) = Len(s) + 1
          /\ DOMAIN s = 1..Len(s) /\ DOMAIN r = 1..Len(s) + 1
          /\ r[Len(s) + 1] = q /\ \A i \in 1..Len(s) : r[i] = s[i]
      BY <2>1, <2>4, AppendProperties, Positions
    <3> HIDE DEF r
    <3>2. \A i : i \in 1..Len(s) + 1 <=> i \in 1..Len(s) \/ i = Len(s) + 1
      BY <3>1
    <3>3. \A p : p \in ToSet(r) <=> p \in ToSet(s) \/ p = q
      <4>1. \A p : p \in ToSet(r) <=> \E i \in DOMAIN r : p = r[i]
        BY Zenon DEF ToSet
      <4>2. \A p : p \in ToSet(s) <=> \E i \in DOMAIN s : p = s[i]
        BY Zenon DEF ToSet
      <4> QED
        BY <3>1, <3>2, <4>1, <4>2
    <3>4. q \notin ToSet(s)
      BY <2>1, <2>5
    <3>5. IsInjective(r)
      <4> SUFFICES ASSUME NEW a \in 1..Len(s) + 1, NEW b \in 1..Len(s) + 1, r[a] = r[b]
                   PROVE  a = b
        BY <3>1 DEF IsInjective
      <4>1. \A i \in 1..Len(s) : r[i] = s[i] /\ r[i] # q
        BY <3>1, <3>4 DEF ToSet
      <4>2. CASE a \in 1..Len(s) /\ b \in 1..Len(s)
        BY <2>1, <3>1, <4>1, <4>2 DEF IsInjective
      <4> QED
        BY <3>1, <3>2, <4>1, <4>2
    <3>6. f[n + 1] = r
      BY <2>3, <2>7 DEF r
    <3> QED
      BY <2>1, <2>2, <2>7, <3>1, <3>3, <3>5, <3>6, Zenon
  <2> QED
    BY <2>6, <2>7
<1>5. \A n \in Nat : n \in T
  <2> HIDE DEF T
  <2> QED
    BY <1>3, <1>4, Induction
<1>6. Right(Len(pages))
  BY <1>1, <1>5
<1>7. \A p : p \in InUse <=> \E i \in 1..Len(pages) : p = pages[i]
  BY <1>1, PagesOf, Zenon DEF InUse
<1>8. Len(pages) <= Len(pages) /\ Kept(m) = f[Len(pages)]
  BY <1>1 DEF Kept, f
<1>9. ToSet(Kept(m)) = InUse \ Empty(m)
  <2>1. \A p : p \in ToSet(Kept(m)) <=> p \in InUse /\ p \notin Empty(m)
    BY <1>6, <1>7, <1>8, Zenon
  <2> QED
    BY <2>1
<1> QED
  BY <1>6, <1>8, <1>9

\* What a collection marks: what is used, and blocks of pages in use.
LEMMA Marked ==
  ASSUME IInv, NEW m \in Marks
  PROVE  /\ m \in [Page -> SUBSET BlockId]
         /\ \A u \in used : u.bid \in m[u.page]
         /\ \A p \in Page : \A b \in m[p] :
              (\E u \in used : u.page = p /\ u.bid = b) \/ IsBlock(p, b)
<1> DEFINE Bids(p) == {u.bid : u \in {v \in used : v.page = p}}
           Others(s, p) == {x[2] : x \in {y \in s : y[1] = p}}
<1>1. PICK s \in SUBSET Stale : m = [p \in Page |-> Bids(p) \cup Others(s, p)]
  BY DEF Marks, kSubset
<1>2. \A u \in used : u.page \in Page /\ u.bid \in BlockId
  <2>1. \A u \in used : u \in [page : Page, bid : BlockId, size : 1..CursorMod]
    BY DEF IInv, TypeOK
  <2> QED
    BY <2>1
<1>3. \A x \in s : x[2] \in BlockId /\ IsBlock(x[1], x[2])
  BY DEF Stale
<1>4. \A p \in Page : Bids(p) \subseteq BlockId /\ Others(s, p) \subseteq BlockId
  BY <1>2, <1>3
<1>5. \A p \in Page : m[p] = Bids(p) \cup Others(s, p)
  BY <1>1
<1>6. m \in [Page -> SUBSET BlockId]
  <2> HIDE DEF Bids, Others
  <2> QED
    BY <1>1, <1>4
<1>7. ASSUME NEW u \in used PROVE u.bid \in m[u.page]
  <2>1. u.bid \in Bids(u.page)
    OBVIOUS
  <2> HIDE DEF Bids, Others
  <2> QED
    BY <1>2, <1>5, <2>1
<1>8. ASSUME NEW p \in Page, NEW b \in m[p]
      PROVE  (\E u \in used : u.page = p /\ u.bid = b) \/ IsBlock(p, b)
  <2>1. b \in Bids(p) \/ b \in Others(s, p)
    BY <1>5
  <2>2. CASE b \in Bids(p)
    BY <2>2
  <2>3. CASE b \in Others(s, p)
    <3>1. PICK x \in s : x[1] = p /\ x[2] = b
      BY <2>3
    <3> QED
      BY <1>3, <3>1
  <2> QED
    BY <2>1, <2>2, <2>3
<1> QED
  BY <1>6, <1>7, <1>8

\* A page that a collection keeps is what a flush expects,
LEMMA CollectedPage ==
  ASSUME IInv, NEW m \in Marks, Collect(m), NEW p \in InUse \ Empty(m)
  PROVE  (Sound(p, Stored(p)) /\ StartTaken(p) /\ MarksHold(p))'
<1> DEFINE x == AtMark(p)
           sz == Finalized(m)[p]
           y == [free |-> x.free, current |-> x.current, sizes |-> sz]
<1>1. /\ Setting /\ p \in Page /\ UsedTyped(p) /\ StartTaken(p)
      /\ Typed(x) /\ Sound(p, x) /\ (~ profile => x = Stored(p))
      /\ CursorSuffices
  BY Pages, AtMarkSound DEF IInv
<1>2. /\ m[p] \subseteq BlockId
      /\ \A u \in used : u.page = p => u.bid \in m[p]
      /\ \A b \in m[p] : (\E u \in used : u.page = p /\ u.bid = b) \/ IsBlock(p, b)
  BY <1>1, Marked
<1>3. /\ need_flush'[p] /\ bmp'[p] = m[p]
      /\ free'[p] = x.free /\ current'[p] = x.current /\ sizes'[p] = sz
      /\ UNCHANGED <<kind, max_blocks>> /\ UNCHANGED <<profile, used>>
  BY <1>1 DEF Collect
<1>4. /\ HasSizes' <=> HasSizes
      /\ Blocks' = Blocks /\ BlockId' = BlockId /\ FirstBlock' = FirstBlock /\ NoSizes' = NoSizes
  BY <1>3, FixedSetting
<1>5. sz = IF kind = "finalizer"
           THEN [b \in BlockId |-> IF b \in m[p] THEN x.sizes[b] ELSE 0] ELSE x.sizes
  BY <1>1 DEF Finalized
<1>6. /\ x.sizes \in [BlockId -> 0..CursorMod-1] /\ CursorMod \in Nat
      /\ BlockId = 0..max_blocks-1 /\ Blocks = FirstBlock..max_blocks-1
      /\ max_blocks \in Nat /\ FirstBlock \in Nat
  BY <1>1 DEF Typed, Setting
<1>7. /\ sz \in [BlockId -> 0..CursorMod-1]
      /\ \A b \in BlockId : sz[b] = x.sizes[b] \/ sz[b] = 0
      /\ \A b \in m[p] : sz[b] = x.sizes[b]
      /\ kind = "finalizer" => \A b \in BlockId : sz[b] > 0 => b \in m[p]
  <2>1. CASE kind = "finalizer"
    <3>1. sz = [b \in BlockId |-> IF b \in m[p] THEN x.sizes[b] ELSE 0]
      BY <1>5, <2>1
    <3>2. 0 \in 0..CursorMod-1
      BY <1>1, <1>6 DEF Setting
    <3>3. ~ (0 > 0)
      OBVIOUS
    <3> HIDE DEF sz, x
    <3> QED
      BY <1>2, <1>6, <3>1, <3>2, <3>3
  <2>2. CASE kind # "finalizer"
    BY <1>5, <1>6, <2>2
  <2> QED
    BY <2>1, <2>2
<1>8. ~ HasSizes => sz = x.sizes
  BY <1>5 DEF HasSizes
<1>9. RunsInOrder(x) /\ ObjectsApart(x.sizes) /\ RunsFree(p, x) /\ UsedKept(p, x)
  BY <1>1 DEF Sound
<1> HIDE DEF sz, x
<1>10. \A b \in BlockId : b \in Nat /\ x.sizes[b] \in Nat /\ (sz[b] > 0 => sz[b] = x.sizes[b])
  BY <1>6, <1>7
<1>11. y.free = x.free /\ y.current = x.current /\ y.sizes = sz /\ Ahead(y) = Ahead(x)
  BY DEF Ahead
<1> HIDE DEF y
<1>12. ObjectsApart(sz)
  <2>1. CASE HasSizes
    <3> SUFFICES ASSUME NEW b \in BlockId, sz[b] > 0
                 PROVE  /\ b \in Blocks /\ b + sz[b] <= max_blocks
                        /\ \A c \in b + 1..b + sz[b] - 1 : sz[c] = 0
      BY <2>1, Zenon DEF ObjectsApart
    <3>1. sz[b] = x.sizes[b]
      BY <1>10
    <3>2. /\ b \in Blocks /\ b + sz[b] <= max_blocks
          /\ \A c \in b + 1..b + sz[b] - 1 : x.sizes[c] = 0
      BY <1>9, <2>1, <3>1 DEF ObjectsApart
    <3>3. \A c \in b + 1..b + sz[b] - 1 : c \in BlockId
      BY <1>6, <1>10, <3>1, <3>2
    <3> QED
      BY <1>7, <3>2, <3>3
  <2>2. CASE ~ HasSizes
    BY <1>8, <1>9, <2>2
  <2> QED
    BY <2>1, <2>2
<1>13. ASSUME NEW u \in used', u.page = p
       PROVE  IF HasSizes THEN sz[u.bid] = u.size ELSE u.bid \in Blocks /\ u.size = 1
  <2>1. u \in used /\ u.bid \in m[p]
    BY <1>2, <1>3, <1>13
  <2> QED
    BY <1>7, <1>9, <1>13, <2>1 DEF UsedKept
<1>14. RunsInOrder(y)
  BY <1>9, <1>11, Zenon DEF RunsInOrder
<1>15. ASSUME NEW k \in Ahead(x), x.free[k].pos \in Blocks
       PROVE  /\ \A b \in BlockId : sz[b] > 0 =>
                   \/ b + sz[b] <= x.free[k].pos
                   \/ x.free[k].pos + Count(x.free[k]) <= b
              /\ ~ HasSizes => \A u \in used' : u.page = p => u.bid \notin FreeBlocks(x.free[k])
  BY <1>3, <1>9, <1>10, <1>15 DEF RunsFree
<1>16. SoundFor(used', p, y)
  BY <1>11, <1>12, <1>13, <1>14, <1>15, Zenon DEF SoundFor
<1>17. Sound(p, Stored(p))'
  BY <1>3, <1>11, <1>16, Primed
<1>18. StartTaken(p)'
  <2>1. CASE profile
    BY <1>1, <1>3, <1>4, <1>6, <2>1 DEF StartTaken, CursorSuffices
  <2>2. CASE ~ profile
    <3>1. free'[p] = free[p] /\ current'[p] = current[p]
      BY <1>1, <1>3, <2>2 DEF Stored
    <3>2. Ahead(Stored(p))' = Ahead(Stored(p))
      BY <3>1 DEF Ahead, Stored
    <3> QED
      BY <1>1, <1>3, <1>4, <3>1, <3>2, Zenon DEF StartTaken
  <2> QED
    BY <2>1, <2>2
<1>19. ASSUME NEW b \in m[p] PROVE b \in Blocks /\ (HasSizes => sz[b] > 0)
  <2>1. CASE \E u \in used : u.page = p /\ u.bid = b
    <3>1. PICK u \in used : u.page = p /\ u.bid = b
      BY <2>1
    <3>2. u.size \in Nat /\ u.size > 0 /\ b \in BlockId
      BY <1>1, <1>2, <3>1 DEF UsedTyped
    <3>3. IF HasSizes THEN x.sizes[b] = u.size ELSE b \in Blocks
      BY <1>9, <3>1 DEF UsedKept
    <3>4. HasSizes => b \in Blocks
      BY <1>9, <3>2, <3>3 DEF ObjectsApart
    <3> QED
      BY <1>7, <3>2, <3>3, <3>4
  <2>2. CASE IsBlock(p, b)
    <3>1. b \in Blocks /\ (HasSizes => x.sizes[b] # 0)
      BY <2>2 DEF IsBlock, x
    <3> QED
      BY <1>2, <1>7, <1>10, <3>1
  <2> QED
    BY <1>2, <2>1, <2>2
<1>20. MarksHold(p)'
  BY <1>2, <1>3, <1>4, <1>7, <1>19 DEF MarksHold
<1> QED
  BY <1>17, <1>18, <1>20

\* ... and a collection keeps IInv.
LEMMA CollectHolds ==
  ASSUME IInv, NEW m \in Marks, Collect(m), status' \in {"ok", "fatal"}
  PROVE  IInv'
<1>1. /\ TypeOK /\ CursorSuffices /\ FinalizersOwed
      /\ \A q \in Page \ InUse : PageIsEmpty(q)
      /\ pages # <<>> => FirstBlock + 1 < max_blocks
  BY DEF IInv
<1>2. /\ pages' = Kept(m)
      /\ free_page' = IF Kept(m) = <<>> THEN NoPage ELSE Head(Kept(m))
      /\ need_flush' = [p \in Page |-> p \in InUse \ Empty(m)]
      /\ bmp' = m
      /\ sizes' = [p \in Page |-> IF p \in Empty(m) THEN NoSizes ELSE Finalized(m)[p]]
      /\ free' = [p \in Page |-> IF p \in Empty(m) THEN <<>> ELSE AtMark(p).free]
      /\ current' = [p \in Page |-> IF p \in Empty(m) THEN 0 ELSE AtMark(p).current]
      /\ owed' = owed \ Called(m)
      /\ UNCHANGED <<kind, max_blocks>> /\ UNCHANGED <<profile, used>>
  BY DEF Collect
<1>3. /\ HasSizes' <=> HasSizes
      /\ Blocks' = Blocks /\ BlockId' = BlockId /\ FirstBlock' = FirstBlock /\ NoSizes' = NoSizes
  BY <1>2, FixedSetting
<1>4. /\ Kept(m) \in Seq(Page) /\ IsInjective(Kept(m))
      /\ ToSet(Kept(m)) = InUse \ Empty(m)
  BY <1>1, KeptPages
<1>5. InUse' = InUse \ Empty(m)
  BY <1>2, <1>4 DEF InUse
<1>6. /\ m \in [Page -> SUBSET BlockId]
      /\ \A u \in used : u.bid \in m[u.page]
  BY Marked
<1>7. \A u \in used : u.page \in InUse' /\ u.page \in Page /\ u.bid \in BlockId
  <2> SUFFICES ASSUME NEW u \in used
               PROVE  u.page \in InUse' /\ u.page \in Page /\ u.bid \in BlockId
    OBVIOUS
  <2>1. u \in [page : Page, bid : BlockId, size : 1..CursorMod]
    BY <1>1 DEF TypeOK
  <2>2. u.page \in Page /\ u.bid \in BlockId
    BY <2>1
  <2>3. u.page \in InUse
    BY <1>1, <2>2 DEF PageIsEmpty
  <2>4. u.page \notin Empty(m)
    BY <1>6 DEF Empty
  <2> QED
    BY <1>5, <2>2, <2>3, <2>4
<1>8. Empty(m) \subseteq InUse /\ InUse \subseteq Page
  BY <1>1, PagesOf DEF Empty, InUse, TypeOK
<1>9. ASSUME NEW q \in Page \ InUse
      PROVE  /\ AtMark(q) = Stored(q) /\ q \notin Empty(m)
             /\ free[q] = <<>> /\ current[q] = 0 /\ sizes[q] = NoSizes
             /\ Finalized(m)[q] = NoSizes
  <2>1. /\ AtMark(q) = Stored(q) /\ q \notin Empty(m)
        /\ free[q] = <<>> /\ current[q] = 0 /\ sizes[q] = NoSizes
    BY <1>1, <1>8 DEF AtMark, Stored, PageIsEmpty
  <2>2. Finalized(m)[q] = AtMark(q).sizes
    BY DEF Finalized
  <2> QED
    BY <2>1, <2>2 DEF Stored
<1>10. ASSUME NEW q \in Page \ InUse' PROVE PageIsEmpty(q)'
  <2>1. free'[q] = <<>> /\ current'[q] = 0 /\ sizes'[q] = NoSizes /\ ~ need_flush'[q]
    <3>1. CASE q \in Empty(m)
      BY <1>2, <3>1
    <3>2. CASE q \notin Empty(m)
      <4>1. q \in Page \ InUse
        BY <1>5, <3>2
      <4>2. AtMark(q).free = <<>> /\ AtMark(q).current = 0 /\ Finalized(m)[q] = NoSizes
        BY <1>9, <4>1 DEF Stored
      <4> QED
        BY <1>2, <3>2, <4>1, <4>2
    <3> QED
      BY <3>1, <3>2
  <2>2. \A u \in used' : u.page # q
    BY <1>2, <1>7
  <2> QED
    BY <1>3, <2>1, <2>2 DEF PageIsEmpty
<1>11. ASSUME NEW q \in InUse' PROVE (Sound(q, Stored(q)) /\ StartTaken(q) /\ MarksHold(q))'
  BY <1>5, CollectedPage
<1>12. TypeOK'
  <2>1. ASSUME NEW q \in Page
        PROVE  /\ free'[q] \in Seq(Run) /\ current'[q] \in 0..Len(free'[q])
               /\ sizes'[q] \in [BlockId -> 0..CursorMod-1]
    <3>1. NoSizes \in [BlockId -> 0..CursorMod-1] /\ CursorMod \in Nat \ {0}
      <4>1. max_blocks \in 1..CursorMod
        BY <1>1, CursorAssumption DEF TypeOK
      <4>2. 0 \in 0..CursorMod-1 /\ CursorMod \in Nat \ {0}
        BY <4>1, CountAssumption
      <4> QED
        BY <4>2 DEF NoSizes
    <3>2. <<>> \in Seq(Run) /\ 0 \in 0..Len(<<>>)
      BY EmptySeq
    <3>3. CASE q \in Page \ InUse'
      <4>1. free'[q] = <<>> /\ current'[q] = 0 /\ sizes'[q] = NoSizes
        BY <1>3, <1>10, <3>3 DEF PageIsEmpty
      <4> QED
        BY <3>1, <3>2, <4>1
    <3>4. CASE q \in InUse'
      <4>1. q \in InUse /\ q \notin Empty(m)
        BY <1>5, <3>4
      <4>2. Typed(AtMark(q))
        BY <4>1, AtMarkSound
      <4>3. /\ free'[q] = AtMark(q).free /\ current'[q] = AtMark(q).current
            /\ sizes'[q] = Finalized(m)[q]
        BY <1>2, <4>1
      <4>4. /\ AtMark(q).free \in Seq(Run) /\ AtMark(q).current \in 0..Len(AtMark(q).free)
            /\ AtMark(q).sizes \in [BlockId -> 0..CursorMod-1]
        BY <4>2 DEF Typed
      <4>5. Finalized(m)[q] \in [BlockId -> 0..CursorMod-1]
        <5>1. Finalized(m)[q] = IF kind = "finalizer"
                 THEN [b \in BlockId |-> IF b \in m[q] THEN AtMark(q).sizes[b] ELSE 0]
                 ELSE AtMark(q).sizes
          BY <4>1 DEF Finalized
        <5>2. 0 \in 0..CursorMod-1
          BY <3>1
        <5> QED
          BY <4>4, <5>1, <5>2
      <4> QED
        BY <4>3, <4>4, <4>5
    <3> QED
      BY <3>3, <3>4
  <2>2. free' \in [Page -> Seq(Run)] /\ sizes' \in [Page -> [BlockId -> 0..CursorMod-1]]
        /\ need_flush' \in [Page -> BOOLEAN]
    <3>1. /\ free' = [q \in Page |-> free'[q]] /\ sizes' = [q \in Page |-> sizes'[q]]
      BY <1>2
    <3>2. need_flush' \in [Page -> BOOLEAN]
      BY <1>2
    <3> QED
      BY <2>1, <3>1, <3>2
  <2>3. free_page' \in InUse' \cup {NoPage}
    <3>1. Kept(m) # <<>> => Kept(m)[1] \in ToSet(Kept(m))
      BY <1>4, PagesOf
    <3>2. Kept(m) # <<>> => Head(Kept(m)) = Kept(m)[1]
      BY <1>4
    <3> QED
      BY <1>2, <1>4, <1>5, <3>1, <3>2
  <2>4. /\ used' \subseteq [page : Page, bid : BlockId, size : 1..CursorMod]
        /\ owed' \subseteq [page : Page, bid : BlockId, size : 1..CursorMod]
    BY <1>1, <1>2 DEF TypeOK
  <2>5. /\ kind' \in Kind /\ max_blocks' \in PageSizes /\ profile' \in BOOLEAN
    BY <1>1, <1>2 DEF TypeOK
  <2> QED
    BY <1>2, <1>3, <1>4, <1>6, <2>1, <2>2, <2>3, <2>4, <2>5 DEF TypeOK, Run
<1>13. CursorSuffices' /\ (pages' # <<>> => FirstBlock' + 1 < max_blocks')
  <2>1. pages' # <<>> => pages # <<>>
    <3>1. pages' # <<>> => Kept(m)[1] \in InUse
      BY <1>2, <1>4, PagesOf
    <3>2. pages = <<>> => InUse = {}
      BY DEF InUse, ToSet
    <3> QED
      BY <3>1, <3>2
  <2> QED
    BY <1>1, <1>2, <1>3, <2>1 DEF CursorSuffices
<1>14. FinalizersOwed'
  <2>1. CASE kind # "finalizer"
    BY <1>2, <2>1 DEF FinalizersOwed
  <2>2. CASE kind = "finalizer"
    <3> DEFINE Rec == [page : Page, bid : BlockId, size : 1..CursorMod]
    <3>1. used \subseteq owed /\ owed = { o \in Rec : sizes[o.page][o.bid] = o.size }
      BY <1>1, <2>2 DEF FinalizersOwed
    <3>2. owed' = { o \in owed : ~ (o.bid \notin m[o.page] /\ AtMark(o.page).sizes[o.bid] # 0) }
      BY <1>2 DEF Called
    <3>3. \A q \in InUse : AtMark(q).sizes = sizes[q]
      BY <2>2, AtMarkSound
    <3>4. \A o \in Rec : o.page \in Page /\ o.bid \in BlockId /\ o.size \in 1..CursorMod /\ o.size # 0
      BY CountAssumption
    <3>5. \A b \in BlockId : NoSizes[b] = 0
      BY DEF NoSizes
    <3>6. ASSUME NEW o \in Rec PROVE o \in owed' <=> sizes'[o.page][o.bid] = o.size
      <4>1. o.page \in Page /\ o.bid \in BlockId /\ o.size # 0
        BY <3>4
      <4>2. o \in owed <=> sizes[o.page][o.bid] = o.size
        BY <3>1
      <4>3. CASE o.page \notin InUse
        <5>1. sizes[o.page][o.bid] = 0 /\ sizes'[o.page] = NoSizes
          BY <1>2, <1>9, <3>5, <4>1, <4>3
        <5> QED
          BY <3>2, <3>5, <4>1, <4>2, <5>1
      <4>4. CASE o.page \in InUse
        <5>1. AtMark(o.page).sizes = sizes[o.page]
          BY <3>3, <4>4
        <5>2. sizes'[o.page][o.bid] = IF o.bid \in m[o.page] THEN sizes[o.page][o.bid] ELSE 0
          <6>1. CASE o.page \in Empty(m)
            <7>1. m[o.page] = {} /\ sizes'[o.page] = NoSizes
              BY <1>2, <4>1, <6>1 DEF Empty
            <7> QED
              BY <3>5, <4>1, <7>1
          <6>2. CASE o.page \notin Empty(m)
            <7>1. sizes'[o.page] = Finalized(m)[o.page]
              BY <1>2, <4>1, <6>2
            <7>2. Finalized(m)[o.page] =
                    [b \in BlockId |-> IF b \in m[o.page] THEN AtMark(o.page).sizes[b] ELSE 0]
              BY <2>2, <4>1, <4>4 DEF Finalized
            <7> QED
              BY <4>1, <5>1, <7>1, <7>2
          <6> QED
            BY <6>1, <6>2
        <5> QED
          BY <3>2, <4>1, <4>2, <5>1, <5>2
      <4> QED
        BY <4>3, <4>4
    <3>7. owed' \subseteq Rec
      BY <3>1, <3>2
    <3>8. owed' = { o \in Rec : sizes'[o.page][o.bid] = o.size }
      BY <3>6, <3>7
    <3>9. used' \subseteq owed'
      BY <1>2, <1>6, <3>1, <3>2
    <3> QED
      BY <1>3, <3>8, <3>9 DEF FinalizersOwed
  <2> QED
    BY <2>1, <2>2
<1> QED
  BY <1>10, <1>11, <1>12, <1>13, <1>14 DEF IInv

\* Every step keeps IInv.
LEMMA StepHolds ==
  ASSUME IInv, [Next]_vars
  PROVE  IInv'
<1>1. ASSUME NEW n \in 1..(max_blocks - FirstBlock - 1), HasSizes \/ n = 1, AllocInPage(n)
      PROVE  IInv'
  BY <1>1, AllocInPageHolds
<1>2. ASSUME NEW n \in 1..(max_blocks - FirstBlock - 1), HasSizes \/ n = 1,
             NEW p \in Page, AllocNewPage(n, p)
      PROVE  IInv'
  BY <1>2, AllocNewPageHolds
<1>3. ASSUME NEW n, OutOfMemory(n) PROVE IInv'
  BY <1>3, CollectHolds DEF OutOfMemory
<1>4. ASSUME Major PROVE IInv'
  <2>1. status' \in {"ok", "fatal"}
    BY <1>4 DEF Major
  <2> QED
    BY <1>4, <2>1, CollectHolds DEF Major
<1>5. ASSUME NEW u \in used, Drop(u) PROVE IInv'
  BY <1>5, DropHolds
<1>6. ASSUME UNCHANGED vars PROVE IInv'
  <2>1. /\ UNCHANGED <<kind, max_blocks, profile, pages, free_page, status, owed>>
        /\ UNCHANGED <<free, current, need_flush, sizes, bmp>> /\ used' = used
    BY <1>6 DEF vars, pageVars
  <2>2. /\ HasSizes' <=> HasSizes
        /\ Blocks' = Blocks /\ BlockId' = BlockId /\ FirstBlock' = FirstBlock /\ NoSizes' = NoSizes
    BY <2>1, FixedSetting
  <2>3. InUse' = InUse
    BY <2>1 DEF InUse
  <2>4. TypeOK'
    BY <2>1, <2>2, <2>3 DEF IInv, TypeOK
  <2>5. CursorSuffices' /\ (pages' # <<>> => FirstBlock' + 1 < max_blocks')
    BY <2>1, <2>2 DEF IInv, CursorSuffices
  <2>6. ASSUME NEW p \in InUse PROVE (Sound(p, Stored(p)) /\ StartTaken(p) /\ MarksHold(p))'
    BY <2>1, PageKept DEF IInv
  <2>7. ASSUME NEW p \in Page \ InUse PROVE PageIsEmpty(p)'
    BY <2>1, <2>2 DEF IInv, PageIsEmpty
  <2>8. FinalizersOwed'
    <3>1. FinalizersOwed
      BY DEF IInv
    <3> QED
      BY <2>1, <2>2, <3>1 DEF FinalizersOwed
  <2> QED
    BY <2>3, <2>4, <2>5, <2>6, <2>7, <2>8 DEF IInv
<1> QED
  BY <1>1, <1>2, <1>3, <1>4, <1>5, <1>6 DEF Next
-----------------------------------------------------------------------------
\* IInv holds of every heap but of one left out by CursorSuffices: pages of fixed
\* blocks, as many as a cursor counts, with GC_PROFILE_MEM set (gc.c and allocator.c).
THEOREM Invariance == HeapSpec => []IInv
<1>1. Init /\ CursorSuffices => IInv
  BY InitHolds
<1>2. IInv /\ [Next]_vars => IInv'
  BY StepHolds
<1> QED
  BY <1>1, <1>2, PTL DEF HeapSpec

\* The fields of the pages, the free lists, cursors and sizes keep their types:
\* a cursor stays within its list (flush_free_list, gc_alloc_fixed, gc_alloc_var).
THEOREM Types == HeapSpec => []TypeOK
<1>1. IInv => TypeOK
  BY Consequences
<1> QED
  BY <1>1, Invariance, PTL

\* The blocks that the program uses lie in pages that gc_flush_empty_pages keeps,
\* and no two allocations share a block, whatever is allocated and collected.
THEOREM HeapStaysIntact == HeapSpec => []HeapIntact
<1>1. IInv => HeapIntact
  BY Consequences
<1> QED
  BY <1>1, Invariance, PTL

\* What gc_alloc_fixed and gc_alloc_var can take from a page, after flush_free_list
\* if it is due, is in the page, is listed once, and is used by nobody.
THEOREM FreeStaysFree == HeapSpec => []FreeIsFree
<1>1. IInv => FreeIsFree
  BY Consequences
<1> QED
  BY <1>1, Invariance, PTL

\* flush_free_list ends past the last block with every old run passed, and lists
\* what is not marked, and what was on the list before, and nothing else.
THEOREM FlushStaysExact == HeapSpec => []FlushExact
<1>1. IInv => FlushExact
  BY Consequences
<1> QED
  BY <1>1, Invariance, PTL

\* The blocks with a finalizer that have their size are those whose finalizer
\* gc_call_finalizers still owes, and what the program uses is one of them.
THEOREM FinalizersStayOwed == HeapSpec => []FinalizersOwed
<1>1. IInv => FinalizersOwed
  BY Consequences
<1> QED
  BY <1>1, Invariance, PTL
=============================================================================
