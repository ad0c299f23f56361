--------------------------- MODULE MCMarkThreads ----------------------------
(* An instance of MarkThreads for TLC: two workers, seven blocks.          *)
EXTENDS MarkThreads

CONSTANTS w1, w2, o1, o2, o3, o4, o5, o6, o7

TwoWorkers == {w1, w2}
Objects == {o1, o2, o3, o4, o5, o6, o7}
RawObjects == {o7}
NativeRoots == {o1, o2}
ForeignRoots == {o5, o6}

\* A block with several children, so that a worker has something to hand over,
\* and one they share; then a cycle through a deferred root, and a block that
\* only Python reaches.
Heaps ==
  { [o \in Objects |-> CASE o = o1 -> {o3, o4, o5}
                         [] o = o2 -> {o5}
                         [] o = o3 -> {o6, o7}
                         [] o = o5 -> {o1}
                         [] OTHER  -> {}],
    [o \in Objects |-> CASE o = o1 -> {o1}
                         [] o = o5 -> {o3, o4, o2}
                         [] o = o6 -> {o7, o4}
                         [] o = o4 -> {o5}
                         [] OTHER  -> {}] }
=============================================================================
