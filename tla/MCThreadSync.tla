---------------------------- MODULE MCThreadSync ----------------------------
(* Instances of ThreadSync: main() and two threads it starts. *)
EXTENDS ThreadSync

\* What meets in one object is explored in one program; what does not, in several.
Mixes ==
  {{"new", "add", "push", "pop"}, {"release", "wait"}, {"mutex", "global"}}
=============================================================================
