--------------------------- MODULE MCHookDispatch ----------------------------
(***************************************************************************)
(* Instances for TLC of the two halves of the hooks, which share no state: *)
(* each behaviour is one of the calls that a thread nests, or of the       *)
(* detours that are installed in natives.                                  *)
(*                                                                         *)
(* Calls nest deeply enough for the hooks of two functions to be passed    *)
(* through at once.  Threads meet only in the registry of hooks, which     *)
(* changes at any moment here: one thread is enough.  Of three natives two *)
(* share a function; four stubs make a chain longer than resolve_jmp_chain *)
(* follows, when the record of an installed detour is wanting.             *)
(***************************************************************************)
EXTENDS HookDispatch, NativeHook, TLC

CONSTANTS Shared, Single

VARIABLE part   \* what this behaviour is about

Targets == <<Shared, Shared, Single>>

\* Each half starts from its own initial state, and the other stays there.
MCInit == part \in {"calls", "detours"} /\ Init /\ DetourInit

MCNext ==
  /\ UNCHANGED part
  /\ \/ part = "calls" /\ Next /\ UNCHANGED detourVars
     \/ part = "detours" /\ DetourNext /\ UNCHANGED vars

MCSpec == MCInit /\ [][MCNext]_<<vars, part, detourVars>>

Symmetry == Permutations(Function)
==============================================================================
