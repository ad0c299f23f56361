----------------------------- MODULE Allocator ------------------------------
(***************************************************************************)
(* The block allocator of the HL garbage collector (src/src/allocator.c,   *)
(* and the pages of src/src/gc.c).                                         *)
(*                                                                         *)
(* Of its partitions, one is modelled: pages of as many blocks each, of a   *)
(* fixed size, or of which an allocation takes several in a row; then the  *)
(* page has an array of their sizes.  A page of finalized blocks is of the *)
(* second kind.  A page has a list of free runs, used up by allocation and *)
(* rebuilt, at the first allocation after a major collection, from what is *)
(* left of it and from the mark bits.  Scanning is conservative: a block   *)
(* that nobody uses may be marked, one on the free list included.          *)
(*                                                                         *)
(* All of this runs under the GC lock.  Finalizers that allocate, and the  *)
(* growth of the pages of a partition that has many, are left out.         *)
(***************************************************************************)
EXTENDS Integers, FiniteSets, SequencesExt

CONSTANTS
  Page,           \* identities of pages
  NoPage,
  PageSizes,      \* the blocks a page may have
  Memory,         \* blocks there is memory for
  CursorMod,      \* a fl_cursor counts modulo this
  HeaderBlocks,   \* blocks the array of sizes takes
  MaxStale        \* bound on the unused blocks marked in one collection

ASSUME CursorAssumption == PageSizes \subseteq 1..CursorMod
ASSUME MemoryAssumption == \A n \in PageSizes : Memory <= n * Cardinality(Page)
ASSUME NoPageAssumption == NoPage \notin Page
ASSUME CountAssumption == CursorMod \in Nat
\* A page whose sizes fit into its header has few blocks.
ASSUME HeaderAssumption ==
  HeaderBlocks \in Nat /\ (HeaderBlocks = 0 => CursorMod \notin PageSizes)

VARIABLES
  kind,           \* "fixed", "var" or "finalizer"
  max_blocks,     \* the blocks of its pages
  profile,        \* GC_PROFILE_MEM: a collection counts the free memory first
  pages,          \* gc_pages: the pages of the partition, newest first
  free_page,      \* gc_free_pages: where allocation starts to look
  free,           \* of a page, its free list: runs [pos, count]
  current,        \* ... of which the first current are used up
  need_flush,     \* ... is to be rebuilt first
  sizes,          \* of a page, the sizes of its allocated blocks
  bmp,            \* of a page, its marked blocks
  status,         \* "fatal" after out_of_memory
  used,           \* the allocations the program uses
  owed            \* the allocations whose finalizer has not been called

pageVars == <<free, current, need_flush, sizes, bmp>>
vars == <<kind, max_blocks, profile, pages, free_page, pageVars, status, used, owed>>

Kind == {"fixed", "var", "finalizer"}
HasSizes == kind # "fixed"
FirstBlock == IF HasSizes THEN HeaderBlocks ELSE 0
BlockId == 0..max_blocks-1
Blocks == FirstBlock..max_blocks-1
InUse == ToSet(pages)
NoSizes == [b \in BlockId |-> 0]

\* The blocks of a run, or of an allocation.
RunOf(pos, count) == pos..pos+count-1

TypeOK ==
  /\ kind \in Kind /\ max_blocks \in PageSizes /\ profile \in BOOLEAN
  /\ pages \in Seq(Page) /\ IsInjective(pages)
  /\ free_page \in InUse \cup {NoPage}
  /\ free \in [Page -> Seq([pos : 0..CursorMod-1, count : 0..CursorMod-1])]
  /\ \A p \in Page : current[p] \in 0..Len(free[p])
  /\ need_flush \in [Page -> BOOLEAN]
  /\ sizes \in [Page -> [BlockId -> 0..CursorMod-1]]
  /\ bmp \in [Page -> SUBSET BlockId]
  /\ status \in {"ok", "fatal"}
  /\ used \subseteq [page : Page, bid : BlockId, size : 1..CursorMod]
  /\ owed \subseteq [page : Page, bid : BlockId, size : 1..CursorMod]

Init ==
  /\ kind \in Kind /\ max_blocks \in PageSizes /\ profile \in BOOLEAN
  /\ pages = <<>> /\ free_page = NoPage
  /\ free = [p \in Page |-> <<>>]
  /\ current = [p \in Page |-> 0]
  /\ need_flush = [p \in Page |-> FALSE]
  /\ sizes = [p \in Page |-> NoSizes]
  /\ bmp = [p \in Page |-> {}]
  /\ status = "ok"
  /\ used = {} /\ owed = {}

-----------------------------------------------------------------------------
\* flush_free_list

\* freelist_append, or a run that continues the last one.
Join(fl, pos, count) ==
  IF fl # <<>> /\ Last(fl).pos + Last(fl).count = pos
  THEN Append(Front(fl), [Last(fl) EXCEPT !.count = (@ + count) % CursorMod])
  ELSE Append(fl, [pos |-> pos, count |-> count % CursorMod])

Span(sz, bid) == IF sz[bid] = 0 THEN 1 ELSE sz[bid]

\* Mutant: the runs that are free already are not skipped.
Rebuild_Reread(p, s) ==
  LET span == Span(s.sizes, s.bid)
      isRun == s.left # <<>> /\ Head(s.left).pos = s.bid
  IN
  CASE s.bid >= max_blocks -> s
    [] s.bid < max_blocks /\ isRun ->
         [s EXCEPT !.left = Tail(@), !.free = Join(@, s.bid, Head(s.left).count)]
    [] s.bid < max_blocks /\ ~ isRun /\ s.bid \in bmp[p] ->
         [s EXCEPT !.bid = @ + span]
    [] OTHER ->
         [s EXCEPT !.bid = @ + span, !.free = Join(@, s.bid, span), !.sizes[s.bid] = 0]

\* The body of the loop, at block bid, with the old runs left, the new list and
\* the sizes: a run that was free already, a marked block, one that is not.  The
\* merged count may be 0 modulo CursorMod: then it goes back to the start of the
\* run.
Rebuild(p, s) ==
  LET span == Span(s.sizes, s.bid)
      isRun == s.left # <<>> /\ Head(s.left).pos = s.bid
      joined == Join(s.free, s.bid, Head(s.left).count)
  IN
  CASE s.bid >= max_blocks -> s
    [] s.bid < max_blocks /\ isRun ->
         [s EXCEPT !.bid = Last(joined).pos + Last(joined).count,
                   !.left = Tail(@), !.free = joined]
    [] s.bid < max_blocks /\ ~ isRun /\ s.bid \in bmp[p] ->
         [s EXCEPT !.bid = @ + span]
    [] OTHER ->
         [s EXCEPT !.bid = @ + span, !.free = Join(@, s.bid, span), !.sizes[s.bid] = 0]

\* The runs left.
Left(p) == SubSeq(free[p], current[p] + 1, Len(free[p]))

\* Each round passes a block or a run, and the start is gone back to once at most.
Rounds(p) == 2 * max_blocks + Len(free[p])

Walk(p) ==
  LET walk[n \in Nat] ==
        IF n = 0
        THEN [bid |-> FirstBlock, left |-> Left(p), free |-> <<>>, sizes |-> sizes[p]]
        ELSE Rebuild(p, walk[n - 1])
  IN walk

Flush(p) == Walk(p)[Rounds(p)]

\* The page as an allocation, or a statistic, finds it: flushed if need be.
Found(p) ==
  IF need_flush[p]
  THEN LET f == Flush(p) IN [free |-> f.free, current |-> 0, sizes |-> f.sizes]
  ELSE [free |-> free[p], current |-> current[p], sizes |-> sizes[p]]

-----------------------------------------------------------------------------
\* gc_alloc_fixed takes the first run left; gc_alloc_var the first that has room.
Room(found, n) ==
  { k \in (found.current + 1)..Len(found.free) :
      IF HasSizes THEN found.free[k].count >= n ELSE k = found.current + 1 }

FirstOf(S) == CHOOSE k \in S : \A j \in S : k <= j

\* Mutant: a run that is used up is not passed.
Taken_Stay(found, k, n) ==
  [free |-> [found.free EXCEPT ![k] =
               [pos |-> (@.pos + n) % CursorMod, count |-> (@.count - n) % CursorMod]],
   current |-> found.current]

\* n blocks are taken off run k.  The count of runs passed goes up when the
\* run is used up, be it another one than the first left.
Taken(found, k, n) ==
  LET run == found.free[k]
      taken == [pos |-> (run.pos + n) % CursorMod,
                count |-> (run.count - n) % CursorMod]
  IN [free |-> [found.free EXCEPT ![k] = taken],
      current |-> IF taken.count = 0 THEN found.current + 1 ELSE found.current]

\* An allocation has its size at its first block.
SizesWith(sz, bid, n) ==
  IF HasSizes
  THEN [b \in BlockId |-> IF b = bid THEN n
                          ELSE IF b \in RunOf(bid, n) THEN 0 ELSE sz[b]]
  ELSE sz

\* The pages that are looked at before page i of the list of candidates.
Candidates ==
  IF free_page = NoPage THEN <<>>
  ELSE SubSeq(pages, FirstOf({i \in DOMAIN pages : pages[i] = free_page}), Len(pages))

HasRoom(n) == {i \in DOMAIN Candidates : Room(Found(Candidates[i]), n) # {}}

\* The pages of S are flushed; page p gets the list fl, used up to cur, and
\* the size n at bid.
Write(S, p, fl, cur, sz) ==
  /\ free' = [q \in Page |-> IF q = p THEN fl
                             ELSE IF q \in S THEN Found(q).free ELSE free[q]]
  /\ current' = [q \in Page |-> IF q = p THEN cur
                                ELSE IF q \in S THEN Found(q).current ELSE current[q]]
  /\ sizes' = [q \in Page |-> IF q = p THEN sz
                              ELSE IF q \in S THEN Found(q).sizes ELSE sizes[q]]
  /\ need_flush' = [q \in Page |-> need_flush[q] /\ q # p /\ q \notin S]

\* The program gets n blocks of page p, from bid on.
Give(p, bid, n) ==
  /\ bmp' = [bmp EXCEPT ![p] = IF HasSizes THEN @ \cup {bid} ELSE @]
  /\ free_page' = p
  /\ used' = used \cup {[page |-> p, bid |-> bid, size |-> n]}
  /\ owed' = IF kind = "finalizer"
               THEN owed \cup {[page |-> p, bid |-> bid, size |-> n]} ELSE owed
  /\ UNCHANGED <<kind, max_blocks, profile, status>>

AllocInPage(n) ==
  /\ status = "ok" /\ HasRoom(n) # {}
  /\ LET i == FirstOf(HasRoom(n))
         p == Candidates[i]
         found == Found(p)
         k == FirstOf(Room(found, n))
         taken == Taken(found, k, n)
         bid == found.free[k].pos
     IN /\ Write({Candidates[j] : j \in 1..i}, p, taken.free, taken.current,
                 SizesWith(found.sizes, bid, n))
        /\ Give(p, bid, n)
  /\ UNCHANGED pages

\* gc_allocator_new_page
Exhausted == (Len(pages) + 1) * max_blocks > Memory

AllocNewPage(n, p) ==
  /\ status = "ok" /\ p \in Page \ InUse /\ ~ Exhausted /\ HasRoom(n) = {}
  /\ LET first == [pos |-> FirstBlock, count |-> (max_blocks - FirstBlock) % CursorMod]
         left == [pos |-> first.pos + n, count |-> (first.count - n) % CursorMod]
     IN Write(ToSet(Candidates), p, <<left>>, 0, SizesWith(NoSizes, FirstBlock, n))
  /\ pages' = <<p>> \o pages
  /\ Give(p, FirstBlock, n)

-----------------------------------------------------------------------------
\* A page as the mark finds it: gc_free_memory flushes it.
AtMark(p) ==
  IF profile /\ p \in InUse THEN Found(p)
  ELSE [free |-> free[p], current |-> current[p], sizes |-> sizes[p]]

\* gc_allocator_get_block_id, with interior pointers resolved.
IsBlock(p, b) ==
  p \in InUse /\ b \in Blocks /\ (HasSizes => AtMark(p).sizes[b] # 0)

\* What the program uses is marked, and perhaps a few blocks it does not use.
Stale == { x \in Page \X BlockId :
             IsBlock(x[1], x[2]) /\ ~ \E u \in used : u.page = x[1] /\ u.bid = x[2] }

Marks ==
  { [p \in Page |-> {u.bid : u \in {v \in used : v.page = p}}
                      \cup {x[2] : x \in {y \in s : y[1] = p}}] :
      s \in UNION {kSubset(k, Stale) : k \in 0..MaxStale} }

\* Mutant: the size of a finalized block is left.
Finalized_Keep(m) == [p \in Page |-> AtMark(p).sizes]

\* gc_call_finalizers: the sizes of the finalized blocks are cleared.
Finalized(m) ==
  [p \in Page |-> IF kind = "finalizer" /\ p \in InUse
                  THEN [b \in BlockId |-> IF b \in m[p] THEN AtMark(p).sizes[b] ELSE 0]
                  ELSE AtMark(p).sizes]

\* The finalizers that are called.
Called(m) ==
  { o \in owed : o.bid \notin m[o.page] /\ AtMark(o.page).sizes[o.bid] # 0 }

\* Mutant: a page is empty when no allocation of it is new.
Empty_Flushed(m) == {p \in InUse : m[p] = {} \/ need_flush[p]}

\* gc_flush_empty_pages
Empty(m) == {p \in InUse : m[p] = {}}

\* The pages that are kept, of the first n.
Keep(m) ==
  LET keep[n \in Nat] ==
        IF n = 0 THEN <<>>
        ELSE IF pages[n] \in Empty(m) THEN keep[n - 1]
        ELSE Append(keep[n - 1], pages[n])
  IN keep
Kept(m) == Keep(m)[Len(pages)]

Collect(m) ==
  /\ pages' = Kept(m)
  /\ free_page' = IF Kept(m) = <<>> THEN NoPage ELSE Head(Kept(m))
  /\ need_flush' = [p \in Page |-> p \in InUse \ Empty(m)]
  /\ bmp' = m
  /\ sizes' = [p \in Page |-> IF p \in Empty(m) THEN NoSizes ELSE Finalized(m)[p]]
  /\ free' = [p \in Page |-> IF p \in Empty(m) THEN <<>> ELSE AtMark(p).free]
  /\ current' = [p \in Page |-> IF p \in Empty(m) THEN 0 ELSE AtMark(p).current]
  /\ owed' = owed \ Called(m)
  /\ UNCHANGED <<kind, max_blocks, profile, used>>

\* gc_major
Major ==
  /\ status = "ok" /\ pages # <<>>
  /\ \E m \in Marks : Collect(m)
  /\ UNCHANGED status

\* gc_alloc_page gets no memory: it collects, and goes on only if a page was
\* allocated meanwhile.
OutOfMemory(n) ==
  /\ status = "ok" /\ Exhausted /\ HasRoom(n) = {}
  /\ \E m \in Marks : Collect(m)
  /\ status' = "fatal"

\* The program uses an allocation no more.
Drop(u) ==
  /\ status = "ok"
  /\ used' = used \ {u}
  /\ UNCHANGED <<kind, max_blocks, profile, pages, free_page, pageVars, status, owed>>

Next ==
  \/ \E n \in 1..(max_blocks - FirstBlock - 1) :
       /\ HasSizes \/ n = 1
       /\ \/ AllocInPage(n) \/ OutOfMemory(n)
          \/ \E p \in Page : AllocNewPage(n, p)
  \/ Major
  \/ \E u \in used : Drop(u)

Spec == Init /\ [][Next]_vars

\* With GC_PROFILE_MEM a list may be rebuilt, and not used before it is rebuilt
\* again: one run of as many blocks as a cursor counts is then read as an empty one,
\* and its blocks are listed twice.  HeapSpec leaves this case out.
CursorSuffices == profile /\ ~ HasSizes => max_blocks < CursorMod
HeapSpec == Init /\ CursorSuffices /\ [][Next]_vars

-----------------------------------------------------------------------------
\* The allocations the program uses lie apart, in pages that are there.
HeapIntact ==
  /\ \A u \in used : /\ u.page \in InUse
                     /\ RunOf(u.bid, u.size) \subseteq Blocks
                     /\ HasSizes => sizes[u.page][u.bid] = u.size
  /\ \A u, v \in used :
       u # v /\ u.page = v.page => RunOf(u.bid, u.size) \cap RunOf(v.bid, v.size) = {}

Runs(fl) == {fl[k] : k \in DOMAIN fl}
\* gc_alloc_fixed takes blocks off a run until its count is 0 again.
Count(run) == IF run.count = 0 /\ ~ HasSizes THEN CursorMod ELSE run.count
FreeBlocks(run) == RunOf(run.pos, Count(run))
Listed(fl) == UNION {FreeBlocks(run) : run \in Runs(fl)}
RunsApart(fl) ==
  \A j, k \in DOMAIN fl : j # k => FreeBlocks(fl[j]) \cap FreeBlocks(fl[k]) = {}

\* What an allocation can take from a page, flushed first if it is due, is in
\* the page, nobody uses it, and it is there once.
FreeIsFree ==
  \A p \in InUse : \E found \in {Found(p)} :
    \E left \in {SubSeq(found.free, found.current + 1, Len(found.free))} :
      /\ Listed(left) \subseteq Blocks /\ RunsApart(left)
      /\ \A u \in used : u.page = p => RunOf(u.bid, u.size) \cap Listed(left) = {}

\* The assertions of flush_free_list: it has passed every run that was free,
\* and the blocks it lists are those that are not marked, or were free before.
FlushExact ==
  \A p \in InUse : need_flush[p] =>
    \E f \in {Flush(p)} : \E listed \in {Listed(f.free)} :
      /\ Listed(f.left) = {}
      /\ listed \subseteq Blocks /\ RunsApart(f.free)
      /\ \A b \in Blocks :
           IF b \in listed
           THEN b \notin bmp[p] \/ b \in Listed(Left(p))
           ELSE \E m \in bmp[p] \ listed : b \in RunOf(m, Span(f.sizes, m))

\* The allocations of finalized blocks that have their size are those whose
\* finalizer is still to be called: it is called once, before the block is
\* reused and its page freed, and not while the program uses the block.
FinalizersOwed ==
  kind = "finalizer" =>
    /\ used \subseteq owed
    /\ owed = { o \in [page : Page, bid : BlockId, size : 1..CursorMod] :
                  sizes[o.page][o.bid] = o.size }

\* A block that is not on the free list is part of an allocation.
NothingForgotten ==
  \A p \in InUse : ~ need_flush[p] /\ HasSizes =>
    \A b \in Blocks :
      \/ b \in Listed(Left(p))
      \/ \E c \in Blocks : b \in RunOf(c, sizes[p][c])

\* Memory is exhausted only if no page came free.
ExhaustedOnlyIfFull == status = "fatal" => Exhausted
-----------------------------------------------------------------------------
(* The inductive invariant.  A page is looked at as a record: as it is      *)
(* stored, or as Found or AtMark returns it.                               *)

Stored(p) == [free |-> free[p], current |-> current[p], sizes |-> sizes[p]]

Ahead(x) == (x.current + 1)..Len(x.free)

\* The runs left are in the page and in order.  An allocation of several blocks
\* leaves a run that it has used up in the list, where it may be behind the page.
RunsInOrder(x) ==
  \A k \in Ahead(x) :
    /\ IF x.free[k].pos \in Blocks
       THEN x.free[k].pos + Count(x.free[k]) <= max_blocks
       ELSE HasSizes /\ x.free[k].count = 0
    /\ \A j \in Ahead(x) :
         j < k /\ x.free[k].pos \in Blocks =>
           /\ x.free[j].pos \in Blocks
           /\ x.free[j].pos + Count(x.free[j]) <= x.free[k].pos

\* Allocations, used or not, are in the page and do not overlap.
ObjectsApart(sz) ==
  IF HasSizes
  THEN \A b \in BlockId : sz[b] > 0 =>
         /\ b \in Blocks /\ b + sz[b] <= max_blocks
         /\ \A c \in b + 1..b + sz[b] - 1 : sz[c] = 0
  ELSE sz = NoSizes

\* No run has a block of an allocation, and none begins in one.
RunsFree(p, x) ==
  \A k \in Ahead(x) : x.free[k].pos \in Blocks =>
    /\ \A b \in BlockId : x.sizes[b] > 0 =>
         \/ b + x.sizes[b] <= x.free[k].pos
         \/ x.free[k].pos + Count(x.free[k]) <= b
    /\ ~ HasSizes => \A u \in used : u.page = p => u.bid \notin FreeBlocks(x.free[k])

UsedKept(p, x) ==
  \A u \in used : u.page = p =>
    IF HasSizes THEN x.sizes[u.bid] = u.size ELSE u.bid \in Blocks /\ u.size = 1

Sound(p, x) ==
  RunsInOrder(x) /\ ObjectsApart(x.sizes) /\ RunsFree(p, x) /\ UsedKept(p, x)

\* A run of all that a cursor counts is not left by an allocation.
StartTaken(p) ==
  ~ HasSizes /\ max_blocks = CursorMod =>
    \A k \in Ahead(Stored(p)) : free[p][k].pos > 0

\* What the flush goes by.
MarksHold(p) ==
  need_flush[p] =>
    /\ bmp[p] \subseteq Blocks
    /\ \A u \in used : u.page = p => u.bid \in bmp[p]
    /\ HasSizes => \A b \in bmp[p] : sizes[p][b] > 0
    /\ kind = "finalizer" => \A b \in BlockId : sizes[p][b] > 0 => b \in bmp[p]

PageIsEmpty(p) ==
  /\ free[p] = <<>> /\ current[p] = 0 /\ ~ need_flush[p] /\ sizes[p] = NoSizes
  /\ \A u \in used : u.page # p

IInv ==
  /\ TypeOK /\ CursorSuffices
  /\ pages # <<>> => FirstBlock + 1 < max_blocks
  /\ \A p \in InUse : Sound(p, Stored(p)) /\ StartTaken(p) /\ MarksHold(p)
  /\ \A p \in Page \ InUse : PageIsEmpty(p)
  /\ FinalizersOwed
=============================================================================
