---------------------------- MODULE HookDispatch -----------------------------
(***************************************************************************)
(* The dispatch of HL calls to Python: hooks (src/src/hlmod_jit_hook.c,    *)
(* hook_registry.c), methods that a Python subclass overrides              *)
(* (hlmod_python_dispatch), and the calls that Python makes back into HL   *)
(* (hlmod_invoke), as they nest on the stack of each thread.  Every HL     *)
(* function begins with a call of jit_dispatch_hook (jit_hook_call); a     *)
(* hooked native begins with one since its entry was patched.              *)
(*                                                                         *)
(* What runs under the GIL and calls no Python code is one step.  Which    *)
(* thread has the GIL, and the blocking regions, are in GilWorld: here     *)
(* Python code of different threads is interleaved in any order.           *)
(***************************************************************************)
EXTENDS Integers, Sequences, FiniteSets

CONSTANTS
  Thread,
  Function,    \* HL functions and natives, by findex
  Callback,    \* Python callables, by address
  None,        \* -1, NULL
  MaxDepth     \* bound on the frames of a stack

ASSUME NoneAssumption == None \notin Function \cup Callback
ASSUME DepthAssumption == MaxDepth \in Nat
ASSUME FiniteAssumption == IsFiniteSet(Thread) /\ IsFiniteSet(Function)

VARIABLES
  stack,        \* of each thread, its frames, the innermost last
  passthrough,  \* g_passthrough_stack
  bypass,       \* hlmod_python_bypass
  return,       \* g_return_value_int/double: the depth of the frame that stored
                \* it, or 0 when it has been read
  slot,         \* hook_slots: the callback of each function
  refs          \* the Python references to each callback

vars == <<stack, passthrough, bypass, return, slot, refs>>

\* The frame of an HL function: its dispatch, then its body.
\*   enter    at the call of jit_dispatch_hook
\*   wait     the function is hooked: waiting for the GIL
\*   hook     the callback runs, with a reference of its own
\*   release, fail   its result is stored, or its exception taken, and the GIL
\*            is given up; the end of a Python thread state may run destructors
\*   override the method of a Python subclass runs
\*   return   the dispatch has returned 1: the JIT reads the return value
\*   body     the function itself runs
Stage == {"enter", "wait", "hook", "release", "fail", "override", "return", "body"}

HLFrame ==
  [at : Stage, fun : Function, callback : Callback \cup {None}, saved : Nat]

\* The frame of hlmod_invoke: the arguments are converted, then the call is on.
InvokeFrame ==
  [at : {"convert", "call"}, fun : Function,
   original : Function \cup {None}, direct : Function \cup {None},
   bypass : Function \cup {None}, saved : Nat, raised : BOOLEAN]

Frame == HLFrame \cup InvokeFrame

TypeOK ==
  /\ stack \in [Thread -> Seq(Frame)]
  /\ \A t \in Thread : Len(stack[t]) <= MaxDepth
  /\ passthrough \in [Thread -> Seq(Function)]
  /\ bypass \in [Thread -> Function \cup {None}]
  /\ return \in [Thread -> Nat]
  /\ slot \in [Function -> Callback \cup {None}]
  /\ refs \in [Callback -> Int]

Init ==
  /\ stack = [t \in Thread |-> <<>>]
  /\ passthrough = [t \in Thread |-> <<>>]
  /\ bypass = [t \in Thread |-> None]
  /\ return = [t \in Thread |-> 0]
  /\ slot = [f \in Function |-> None]
  /\ refs = [c \in Callback |-> 0]

Depth(t) == Len(stack[t])
Top(t) == stack[t][Depth(t)]
TopIs(t, stages) == Depth(t) > 0 /\ Top(t).at \in stages
Push(t, frame) ==
  /\ Depth(t) < MaxDepth
  /\ stack' = [stack EXCEPT ![t] = Append(@, frame)]
Pop(t) == stack' = [stack EXCEPT ![t] = SubSeq(@, 1, Len(@) - 1)]
Become(t, frame) == stack' = [stack EXCEPT ![t] = [@ EXCEPT ![Depth(t)] = frame]]
Goto(t, at) == Become(t, [Top(t) EXCEPT !.at = at])

\* HL code runs: a function, or what calls the first one of the thread; and
\* Python code: a callback, a destructor, or what a thread of Python runs.
RunsHL(t) == Depth(t) = 0 \/ TopIs(t, {"body"})
RunsPython(t) ==
  Depth(t) = 0 \/ TopIs(t, {"hook", "release", "fail", "override", "convert"})

Entered(f) == [at |-> "enter", fun |-> f, callback |-> None, saved |-> 0]
-----------------------------------------------------------------------------
(* The registry: any Python code may call it, of a hook or of another      *)
(* thread such as the REPL.                                                *)

\* hlmod_register_hook.  The callback is published by the flag after it is
\* stored; both are under the GIL and a reader of the flag takes the GIL next.
Register(f, c) ==
  /\ slot[f] = None
  /\ slot' = [slot EXCEPT ![f] = c]
  /\ refs' = [refs EXCEPT ![c] = @ + 1]
  /\ UNCHANGED <<stack, passthrough, bypass, return>>

\* hlmod_py_unregister_hook.
Unregister(f) ==
  /\ slot[f] # None
  /\ slot' = [slot EXCEPT ![f] = None]
  /\ refs' = [refs EXCEPT ![slot[f]] = @ - 1]
  /\ UNCHANGED <<stack, passthrough, bypass, return>>
-----------------------------------------------------------------------------
(* jit_dispatch_hook, at the head of every function.                       *)

\* HL code calls a function.
Call(t, f) ==
  /\ RunsHL(t)
  /\ Push(t, Entered(f))
  /\ UNCHANGED <<passthrough, bypass, return, slot, refs>>

\* Mutant: only the innermost passthrough call is looked at.
Passes_Innermost(t, f) ==
  passthrough[t] # <<>> /\ passthrough[t][Len(passthrough[t])] = f

\* is_passthrough
Passes(t, f) == \E i \in DOMAIN passthrough[t] : passthrough[t][i] = f

\* The function is called as the original, or nobody has hooked it: its body.
DispatchBody(t) ==
  /\ TopIs(t, {"enter"})
  /\ LET f == Top(t).fun IN
     /\ Passes(t, f) \/ slot[f] = None
     /\ bypass' = IF ~ Passes(t, f) /\ bypass[t] = f
                  THEN [bypass EXCEPT ![t] = None] ELSE bypass
  /\ Goto(t, "body")
  /\ UNCHANGED <<passthrough, return, slot, refs>>

\* hlmod_python_dispatch: the receiver is of a Python type that overrides the
\* method, unless the bypass says that this call is the one for the original.
DispatchOverride(t) ==
  /\ TopIs(t, {"enter"})
  /\ ~ Passes(t, Top(t).fun)
  /\ bypass[t] # Top(t).fun
  /\ Goto(t, "override")
  /\ UNCHANGED <<passthrough, bypass, return, slot, refs>>

\* The flag is seen without the GIL, for which the thread then waits.
DispatchHook(t) ==
  /\ TopIs(t, {"enter"})
  /\ LET f == Top(t).fun IN
     /\ ~ Passes(t, f)
     /\ slot[f] # None
     /\ bypass' = IF bypass[t] = f THEN [bypass EXCEPT ![t] = None] ELSE bypass
  /\ Goto(t, "wait")
  /\ UNCHANGED <<passthrough, return, slot, refs>>

\* Mutant: the dispatch borrows the reference of the slot.
Fetch_Borrowed(t) ==
  /\ TopIs(t, {"wait"})
  /\ LET f == Top(t).fun IN
     IF slot[f] = None
     THEN Goto(t, "body")
     ELSE Become(t, [Top(t) EXCEPT !.at = "hook", !.callback = slot[f],
                                   !.saved = return[t]])
  /\ UNCHANGED <<passthrough, bypass, return, slot, refs>>

\* hlmod_hook_callback under the GIL: the hook may have gone since.
Fetch(t) ==
  /\ TopIs(t, {"wait"})
  /\ LET f == Top(t).fun IN
     IF slot[f] = None
     THEN Goto(t, "body") /\ UNCHANGED refs
     ELSE /\ Become(t, [Top(t) EXCEPT !.at = "hook", !.callback = slot[f],
                                      !.saved = return[t]])
          /\ refs' = [refs EXCEPT ![slot[f]] = @ + 1]
  /\ UNCHANGED <<passthrough, bypass, return, slot>>

\* The callback returns, and its result is a value of the type: it is stored
\* when all references have been given up.
HookReturn(t) ==
  /\ TopIs(t, {"hook"})
  /\ Goto(t, "release")
  /\ return' = [return EXCEPT ![t] = Depth(t)]
  /\ refs' = [refs EXCEPT ![Top(t).callback] = @ - 1]
  /\ UNCHANGED <<passthrough, bypass, slot>>

\* The callback raises, or its result cannot be converted.
HookRaise(t) ==
  /\ TopIs(t, {"hook"})
  /\ Goto(t, "fail")
  /\ return' = [return EXCEPT ![t] = Top(t).saved]
  /\ refs' = [refs EXCEPT ![Top(t).callback] = @ - 1]
  /\ UNCHANGED <<passthrough, bypass, slot>>

Released(t) ==
  /\ TopIs(t, {"release"})
  /\ Goto(t, "return")
  /\ UNCHANGED <<passthrough, bypass, return, slot, refs>>

\* hlmod_python_invoke returns, the GIL given up; its result is stored.
OverrideReturn(t) ==
  /\ TopIs(t, {"override"})
  /\ Goto(t, "return")
  /\ return' = [return EXCEPT ![t] = Depth(t)]
  /\ UNCHANGED <<passthrough, bypass, slot, refs>>

\* The function returns, with the stored value, which is not read again, or from
\* its body.
Return(t) ==
  /\ TopIs(t, {"return", "body"})
  /\ Pop(t)
  /\ return' = IF TopIs(t, {"return"}) THEN [return EXCEPT ![t] = 0] ELSE return
  /\ UNCHANGED <<passthrough, bypass, slot, refs>>

\* hl_throw, by the body or at the end of a failed dispatch: the frames of HL
\* functions are left up to one that catches, up to a call from Python
\* (hl_dyn_call_safe), or all of them.
Throw(t) ==
  /\ TopIs(t, {"body", "fail", "override"})
  /\ \E d \in 0 .. Depth(t) - 1 :
       /\ \A i \in d + 1 .. Depth(t) - 1 : stack[t][i].at = "body"
       /\ \/ d = 0 /\ stack' = [stack EXCEPT ![t] = <<>>]
          \/ /\ d > 0
             /\ stack[t][d].at = "body"
             /\ stack' = [stack EXCEPT ![t] = SubSeq(@, 1, d)]
          \/ /\ d > 0
             /\ stack[t][d].at = "call"
             /\ stack' = [stack EXCEPT ![t] =
                            Append(SubSeq(@, 1, d - 1),
                                   [@[d] EXCEPT !.raised = TRUE])]
  /\ UNCHANGED <<passthrough, bypass, return, slot, refs>>
-----------------------------------------------------------------------------
(* hlmod_invoke: Python code calls HL.                                     *)

Calling(f, original, direct) ==
  [at |-> "convert", fun |-> f, original |-> original, direct |-> direct,
   bypass |-> None, saved |-> 0, raised |-> FALSE]

\* Mutant: the bypass is set before the arguments are converted.
Invoke_BypassFirst(t, f, original, direct) ==
  /\ RunsPython(t)
  /\ Push(t, Calling(f, original, direct))
  /\ bypass' = IF direct # None THEN [bypass EXCEPT ![t] = direct] ELSE bypass
  /\ UNCHANGED <<passthrough, return, slot, refs>>

\* The arguments are converted: this may run Python code (__index__, __bool__).
Invoke(t, f, original, direct) ==
  /\ RunsPython(t)
  /\ Push(t, Calling(f, original, direct))
  /\ UNCHANGED <<passthrough, bypass, return, slot, refs>>

\* A conversion raises.
InvokeRefused(t) ==
  /\ TopIs(t, {"convert"})
  /\ Pop(t)
  /\ UNCHANGED <<passthrough, bypass, return, slot, refs>>

\* HlHook.call_original; a call of a function (hlmod_py_call), which is not to
\* be redirected to the Python subclass it comes from; and of a closure.
CallOriginal(t, f) == Invoke(t, f, f, f)
CallFunction(t, f) == Invoke(t, f, None, f)
CallClosure(t, f) == Invoke(t, f, None, None)

\* push_passthrough, the bypass, what is to be restored; the GIL is given up and
\* the function called.
InvokeEnter(t) ==
  /\ TopIs(t, {"convert"})
  /\ Depth(t) < MaxDepth
  /\ LET top == Top(t) IN
     /\ passthrough' = IF top.original = None THEN passthrough
                       ELSE [passthrough EXCEPT ![t] = Append(@, top.original)]
     /\ bypass' = IF top.direct = None THEN bypass
                  ELSE [bypass EXCEPT ![t] = top.direct]
     /\ stack' = [stack EXCEPT ![t] =
                    Append(SubSeq(@, 1, Len(@) - 1),
                           [top EXCEPT !.at = "call", !.bypass = bypass[t],
                                       !.saved = return[t]])
                    \o <<Entered(top.fun)>>]
  /\ UNCHANGED <<return, slot, refs>>

\* Mutant: an exception is reported before the passthrough is taken back.
InvokeReturn_Early(t) ==
  /\ TopIs(t, {"call"})
  /\ Pop(t)
  /\ return' = [return EXCEPT ![t] = Top(t).saved]
  /\ bypass' = [bypass EXCEPT ![t] = Top(t).bypass]
  /\ passthrough' = IF Top(t).original = None \/ Top(t).raised THEN passthrough
                    ELSE [passthrough EXCEPT ![t] = SubSeq(@, 1, Len(@) - 1)]
  /\ UNCHANGED <<slot, refs>>

\* Mutant: the return value is not restored.
InvokeReturn_Clobber(t) ==
  /\ TopIs(t, {"call"})
  /\ Pop(t)
  /\ bypass' = [bypass EXCEPT ![t] = Top(t).bypass]
  /\ passthrough' = IF Top(t).original = None THEN passthrough
                    ELSE [passthrough EXCEPT ![t] = SubSeq(@, 1, Len(@) - 1)]
  /\ UNCHANGED <<return, slot, refs>>

\* The call is back, with a result or an exception; the GIL is taken again, and
\* all is restored before the result is converted or the exception raised.
InvokeReturn(t) ==
  /\ TopIs(t, {"call"})
  /\ Pop(t)
  /\ return' = [return EXCEPT ![t] = Top(t).saved]
  /\ bypass' = [bypass EXCEPT ![t] = Top(t).bypass]
  /\ passthrough' = IF Top(t).original = None THEN passthrough
                    ELSE [passthrough EXCEPT ![t] = SubSeq(@, 1, Len(@) - 1)]
  /\ UNCHANGED <<slot, refs>>
-----------------------------------------------------------------------------
Next ==
  \/ \E f \in Function : Unregister(f) \/ \E c \in Callback : Register(f, c)
  \/ \E t \in Thread :
       \/ DispatchBody(t) \/ DispatchOverride(t) \/ DispatchHook(t)
       \/ Fetch(t) \/ HookReturn(t) \/ HookRaise(t) \/ Released(t)
       \/ OverrideReturn(t) \/ Return(t) \/ Throw(t)
       \/ InvokeRefused(t) \/ InvokeEnter(t) \/ InvokeReturn(t)
       \/ \E f \in Function :
            Call(t, f) \/ CallOriginal(t, f) \/ CallFunction(t, f) \/ CallClosure(t, f)

Spec == Init /\ [][Next]_vars
-----------------------------------------------------------------------------
\* A call of an original, and how many there are among the first i frames.
Passing(frame) == frame.at = "call" /\ frame.original # None
Rank(frames, i) == Cardinality({j \in 1 .. i : Passing(frames[j])})

\* The findexes on the passthrough stack are those that the calls in progress
\* on this thread, and no others, pass through: an exception that leaves HL or
\* Python frames takes back what they pushed.
PassthroughMatches ==
  \A t \in Thread :
    /\ Len(passthrough[t]) = Rank(stack[t], Depth(t))
    /\ \A i \in DOMAIN stack[t] :
         Passing(stack[t][i]) =>
           passthrough[t][Rank(stack[t], i)] = stack[t][i].original

\* hlmod_internal.h:20, "so a passthrough call never re-triggers its own hook":
\* not even from a function the original calls, through the hook of another.
NoRetrigger ==
  \A t \in Thread : \A i, j \in DOMAIN stack[t] :
    /\ i < j
    /\ stack[t][i].at = "call"
    /\ stack[t][j].at \in {"wait", "hook", "override"}
    => stack[t][i].original # stack[t][j].fun

\* The bypass is spent on the call it was set for: the dispatch that would take
\* it is the first one of the call from Python, with nothing between.
BypassHitsItsCall ==
  \A t \in Thread :
    TopIs(t, {"enter"}) /\ bypass[t] = Top(t).fun /\ ~ Passes(t, Top(t).fun) =>
      /\ Depth(t) > 1
      /\ LET caller == stack[t][Depth(t) - 1] IN
         caller.at = "call" /\ caller.direct = Top(t).fun

\* The JIT returns what this dispatch stored: not what was stored by a dispatch
\* that was nested in it, by destructors too that run after it.
ReturnIsOwn ==
  \A t \in Thread : TopIs(t, {"return"}) => return[t] = Depth(t)

\* The dispatches that run a callback: thread and frame.
Runs(t, i, c) ==
  i \in DOMAIN stack[t] /\ stack[t][i].at = "hook" /\ stack[t][i].callback = c
Running(c) == {p \in Thread \X (1 .. MaxDepth) : Runs(p[1], p[2], c)}

\* "In-flight calls own their callback": the references to a callback are those
\* of the slots and of the dispatches that run it, so that it lives while it runs
\* and is freed after.
RefsExact ==
  \A c \in Callback :
    refs[c] = Cardinality({f \in Function : slot[f] = c}) + Cardinality(Running(c))
-----------------------------------------------------------------------------
(* The inductive invariant.                                                *)

\* A call can be of the function itself, directly, or of no one in particular.
Directed ==
  \A t \in Thread : \A i \in DOMAIN stack[t] :
    stack[t][i].at \in {"convert", "call"} =>
      stack[t][i].direct \in {stack[t][i].fun, None}

\* Nothing else has been pushed.
NothingElsePasses ==
  \A t \in Thread : \A k \in DOMAIN passthrough[t] :
    \E i \in DOMAIN stack[t] :
      Passing(stack[t][i]) /\ Rank(stack[t], i) = k

\* A bypass that is not for the call about to be dispatched is one for a
\* function that is passed through, by which it is not taken; likewise those
\* that are to be restored.
BypassIsAhead(t) ==
  bypass[t] # None =>
    \/ Passes(t, bypass[t])
    \/ /\ TopIs(t, {"enter"}) /\ Depth(t) > 1
       /\ Top(t).fun = bypass[t]
       /\ stack[t][Depth(t) - 1].at = "call"
       /\ stack[t][Depth(t) - 1].direct = bypass[t]
SavedPasses(F) ==
  \A i \in 1 .. Len(F) :
    F[i].at = "call" /\ F[i].bypass # None =>
      \E k \in 1 .. i - 1 : Passing(F[k]) /\ F[k].original = F[i].bypass
BypassWaits == \A t \in Thread : BypassIsAhead(t) /\ SavedPasses(stack[t])

\* With the frames F the return value is r: what a dispatch has stored is in
\* place when no call from Python is on above it, and is otherwise what the
\* lowest such call will restore.
Storing(frame) == frame.at \in {"release", "return"}
AllConvert(F, i, j) == \A k \in i + 1 .. j : F[k].at = "convert"
Keeps(F, r) ==
  \A i \in 1 .. Len(F) : Storing(F[i]) =>
    /\ \A j \in i + 1 .. Len(F) :
         AllConvert(F, i, j - 1) =>
           F[j].at = "convert" \/ (F[j].at = "call" /\ F[j].saved = i)
    /\ AllConvert(F, i, Len(F)) => r = i
ReturnIsKept == \A t \in Thread : Keeps(stack[t], return[t])

IInv ==
  /\ TypeOK
  /\ Directed
  /\ PassthroughMatches
  /\ NothingElsePasses
  /\ NoRetrigger
  /\ BypassWaits
  /\ ReturnIsKept
  /\ RefsExact
=============================================================================
