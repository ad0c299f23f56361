---------------------------- MODULE StoppedWorld ----------------------------
(***************************************************************************)
(* What the collector's thread handshake promises, without saying how:     *)
(* HL threads run HL code (they read and write heap references) or they    *)
(* do not, and one collector at a time marks the heap.  Nothing runs HL    *)
(* code while the heap is marked.  StopWorld, the translation of           *)
(* src/src/gc.c, implements this specification.                            *)
(***************************************************************************)
CONSTANT Thread

VARIABLES
  running,    \* the threads that run HL code
  marking     \* is the heap being marked?

avars == <<running, marking>>

\* Some of the threads may be running when the heap is first in use.
AInit ==
  /\ running \subseteq Thread
  /\ marking = FALSE

\* A thread starts, or resumes, HL code: never while the heap is marked.
Resume(t) ==
  /\ ~ marking
  /\ running' = running \cup {t}
  /\ UNCHANGED marking

\* A thread leaves HL code: it enters the runtime, a blocking call, or ends.
Pause(t) ==
  /\ running' = running \ {t}
  /\ UNCHANGED marking

BeginMark ==
  /\ running = {}
  /\ marking' = TRUE
  /\ UNCHANGED running

EndMark ==
  /\ marking' = FALSE
  /\ UNCHANGED running

ANext ==
  \/ \E t \in Thread : Resume(t) \/ Pause(t)
  \/ BeginMark
  \/ EndMark

ASpec == AInit /\ [][ANext]_avars
=============================================================================
