----------------------------- MODULE NativeHook ------------------------------
(***************************************************************************)
(* The detours that make natives hookable (src/src/native_hook.c): the     *)
(* entry of the C function is overwritten with a jump to a landing stub,   *)
(* which dispatches the hook of its native and else goes on in a copy of   *)
(* what was overwritten.  Natives may share a function: all that an        *)
(* optional library lacks are hl_prim_not_loaded.  Installing is done      *)
(* under the GIL and is one step here; any allocation in it may fail.      *)
(***************************************************************************)
EXTENDS Integers, Sequences, FiniteSets

CONSTANTS
  Native,     \* findexes of natives
  CFunction,  \* C functions
  Target,     \* g_module->functions_ptrs
  Own,        \* the entry holds the instructions it was compiled with
  MaxHops,    \* of resolve_jmp_chain
  MaxStubs    \* bound on the landing stubs

ASSUME NativeAssumption ==
  /\ Target \in [Native -> CFunction]
  /\ MaxHops \in Nat \ {0} /\ MaxStubs \in Nat

\* Functions and stubs, which are numbered, are different places.
ASSUME PlaceAssumption == CFunction \cap Nat = {} /\ Own \notin Nat

VARIABLES
  entry,      \* of each function and each stub: Own, or the stub it jumps to
  stubs,      \* the landing stubs, in order: the native, and its resume code
  installed,  \* g_installed_native_hooks
  hooked      \* the natives with a hook (hook_slots)

detourVars == <<entry, stubs, installed, hooked>>

DetourTypeOK ==
  /\ stubs \in Seq([native : Native,
                     resume : [first : {Own} \cup Nat, then : CFunction \cup Nat]])
  /\ entry \in [CFunction \cup DOMAIN stubs -> {Own} \cup DOMAIN stubs]
  /\ installed \subseteq Native /\ hooked \subseteq Native

DetourInit ==
  /\ entry = [c \in CFunction |-> Own]
  /\ stubs = <<>>
  /\ installed = {}
  /\ hooked = {}
-----------------------------------------------------------------------------
\* resolve_jmp_chain
Resolve(c) ==
  LET hop[n \in Nat] ==
        IF n = 0 THEN c
        ELSE IF entry[hop[n - 1]] = Own THEN hop[n - 1] ELSE entry[hop[n - 1]]
  IN hop[MaxHops]

\* Mutant: the prologue is copied when the entry has been patched.
Resume_Late(c) == [first |-> Len(stubs) + 1, then |-> c]

\* The instructions of an entry are copied, followed by a jump behind them.
Resume(c) == [first |-> entry[c], then |-> c]

\* Mutant: the record is made before the patch, which may then fail.
Ensure_RecordFirst(f) ==
  \/ f \in installed /\ UNCHANGED <<entry, stubs, installed>>
  \/ /\ f \notin installed
     /\ installed' = installed \cup {f}
     /\ UNCHANGED <<entry, stubs>>

\* hlmod_native_hook_ensure_installed succeeds: at once, or after the entry has
\* been patched, for which it must begin with instructions that can be moved and
\* not with a jump; the record may be wanting.
Ensure(f) ==
  \/ f \in installed /\ UNCHANGED <<entry, stubs, installed>>
  \/ LET c == Resolve(Target[f])
         landing == Len(stubs) + 1
     IN /\ f \notin installed
        /\ entry[c] = Own
        /\ landing <= MaxStubs
        /\ stubs' = Append(stubs, [native |-> f, resume |-> Resume(c)])
        /\ entry' = [p \in DOMAIN entry \cup {landing} |->
                       IF p = c THEN landing
                       ELSE IF p = landing THEN Own ELSE entry[p]]
        /\ installed' \in {installed, installed \cup {f}}

\* hlmod_register_hook of a native.
RegisterNative(f) == f \notin hooked /\ Ensure(f) /\ hooked' = hooked \cup {f}

\* It is refused, or one of its allocations fails, up to the change of the
\* protection of the page: what was allocated is freed and nothing is left.
RegisterFails(f) == f \notin hooked \cup installed /\ UNCHANGED detourVars

\* hlmod_py_unregister_hook: the detour stays.
UnregisterNative(f) ==
  /\ f \in hooked
  /\ hooked' = hooked \ {f}
  /\ UNCHANGED <<entry, stubs, installed>>

DetourNext ==
  \E f \in Native : RegisterNative(f) \/ RegisterFails(f) \/ UnregisterNative(f)

DetourSpec == DetourInit /\ [][DetourNext]_detourVars
-----------------------------------------------------------------------------
\* Where the processor is: at the entry of a function or stub, or past it.  A
\* stub dispatches the hook of its native and goes on with its resume code.
Enter(c) == [at |-> "entry", of |-> c]
Past(c) == [at |-> "past", of |-> c]
Jump(c) == IF entry[c] = Own THEN Past(c) ELSE Enter(entry[c])
Follow(pos) ==
  IF pos.at = "entry" THEN Jump(pos.of)
  ELSE IF pos.of \in CFunction THEN pos
  ELSE LET resume == stubs[pos.of].resume
       IN IF resume.first = Own THEN Past(resume.then) ELSE Enter(resume.first)

\* The places a call of a native comes through, when no hook takes it over.
Route(f) ==
  LET walk[n \in Nat] == IF n = 0 THEN Enter(Target[f]) ELSE Follow(walk[n - 1])
  IN {walk[n] : n \in 0 .. 2 * Len(stubs) + 2}

\* native_hook.c:13, 'a copy of the overwritten bytes plus a jump back past them
\* becomes the "call original" path': through any number of detours of a function
\* that several natives share, or that one is installed on twice for want of its
\* record, every call comes to the body of its own function.
BodyIsReached == \A f \in Native : Past(Target[f]) \in Route(f)

\* A registration that was accepted has its effect: calls of the native come to
\* a stub that dispatches its hook, also when an earlier attempt failed half way.
HookIsReached ==
  \A f \in hooked : \E n \in DOMAIN stubs :
    stubs[n].native = f /\ Past(n) \in Route(f)
-----------------------------------------------------------------------------
(* The inductive invariant.                                                *)

\* Every stub goes on behind the place whose entry jumps to it, which was there
\* before it: nothing that was patched is copied, and no place patched twice.
StubsChained ==
  /\ \A n \in DOMAIN stubs :
       /\ stubs[n].resume.first = Own
       /\ stubs[n].resume.then \in CFunction \cup 1 .. n - 1
       /\ entry[stubs[n].resume.then] = n
  /\ \A p \in DOMAIN entry : entry[p] # Own => stubs[entry[p]].resume.then = p

\* The jumps from place c lead to place p.
LeadsTo(jumps, c, p) ==
  \A S \in SUBSET DOMAIN jumps :
    c \in S /\ (\A q \in S : jumps[q] # Own => jumps[q] \in S) => p \in S

\* Every stub is on the way from the function of its native, and a native that
\* is hooked or installed has one.
StubsOnTheWay ==
  /\ \A n \in DOMAIN stubs : LeadsTo(entry, Target[stubs[n].native], n)
  /\ \A f \in hooked \cup installed : \E n \in DOMAIN stubs : stubs[n].native = f

DetourInv ==
  /\ DetourTypeOK
  /\ StubsChained
  /\ StubsOnTheWay
=============================================================================
