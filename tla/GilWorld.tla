------------------------------ MODULE GilWorld ------------------------------
(***************************************************************************)
(* HL threads that call Python mods: the global interpreter lock (GIL) of  *)
(* the embedded CPython beside the collector's handshake of StopWorld.     *)
(*                                                                         *)
(* An HL thread takes the GIL when a hook, a native callback or the REPL   *)
(* calls Python (jit_dispatch_hook, hlmod_python_invoke, hlmod_repl_call), *)
(* gives it back when Python calls HL code (hlmod_invoke), and takes it    *)
(* again when that call returns.  These waits are bracketed by             *)
(* hl_blocking.  CPython itself gives the GIL up inside Python code and    *)
(* waits to have it back, as do Py_BEGIN/END_ALLOW_THREADS of hlmod_api.c  *)
(* and the end of main: these waits are bare, gc_blocking stays 0.         *)
(***************************************************************************)
EXTENDS StopWorld

CONSTANT Main     \* the thread of main()

ASSUME MainAssumption == Main \in Thread

VARIABLES
  gil,            \* the thread that holds the GIL, NoThread when it is free
  phase,          \* what each thread is doing with it
  returned        \* has the program's entry point returned to main()?

gilVars == <<gil, phase, returned>>
allVars == <<vars, gil, phase, returned>>

Phase == {"hl",        \* runs HL code, without the GIL
          "take",      \* in hl_blocking, waits for the GIL
          "took",      \* in hl_blocking, has it
          "py",        \* runs Python code, or converts values for it
          "drop",      \* in hl_blocking, about to release it
          "dropped",   \* in hl_blocking, released it
          "allow",     \* hlmod_api.c released it around a call of the runtime
          "away",      \* CPython released it around a call that may block
          "bare"}      \* waits for it outside of hl_blocking

Holding == {"took", "py", "drop"}

GilTypeOK ==
  /\ TypeOK
  /\ gil \in Thread \cup {NoThread}
  /\ phase \in [Thread -> Phase]
  /\ returned \in BOOLEAN

\* Every thread has been registered and runs HL code.
GilInit ==
  /\ threads = Thread
  /\ alive = Thread
  /\ rooted = [s \in Slot |-> Thread]
  /\ gc_blocking = [t \in Thread |-> 0]
  /\ stopping_world = FALSE
  /\ owner = NoThread
  /\ unseen = {}
  /\ fresh = [t \in Thread |-> FALSE]
  /\ pc = [t \in Thread |-> "hl"]
  /\ job = [t \in Thread |-> "none"]
  /\ gil = NoThread
  /\ phase = [t \in Thread |-> "hl"]
  /\ returned = FALSE

Become(t, p) == phase' = [phase EXCEPT ![t] = p]
-----------------------------------------------------------------------------
(* The bracketed crossings between HL and Python.                          *)

\* Mutant: the wait for the GIL counts as HL execution.
WaitForGil_NotBlocking(t) ==
  /\ phase[t] = "hl"
  /\ RunsHL(t)
  /\ Become(t, "take")
  /\ UNCHANGED <<vars, gil, returned>>

\* Mutant: a callback of the collector drops a Python reference itself.
WaitForGil_InCollector(t) ==
  /\ phase[t] = "hl"
  /\ \/ RunsHL(t) /\ BlockingTrue(t)
     \/ pc[t] = "mark" /\ UNCHANGED vars
  /\ Become(t, "take")
  /\ UNCHANGED <<gil, returned>>

\* A hook, a callback or a REPL command wants Python, or HL code called by
\* Python returns to it: hl_blocking(true) comes first.
WaitForGil(t) ==
  /\ phase[t] = "hl"
  /\ RunsHL(t)
  /\ BlockingTrue(t)
  /\ Become(t, "take")
  /\ UNCHANGED <<gil, returned>>

\* PyGILState_Ensure or PyEval_RestoreThread returns.
TakeGil(t) ==
  /\ phase[t] = "take"
  /\ pc[t] = "hl"
  /\ gil = NoThread
  /\ gil' = t
  /\ Become(t, "took")
  /\ UNCHANGED <<vars, returned>>

\* hl_blocking(false): conversions and Python code follow.
EnterPython(t) ==
  /\ phase[t] = "took"
  /\ BlockingFalse(t)
  /\ Become(t, "py")
  /\ UNCHANGED <<gil, returned>>

\* The callback is over: hl_blocking(true) before PyGILState_Release.
LeavePython(t) ==
  /\ phase[t] = "py"
  /\ RunsHL(t)
  /\ BlockingTrue(t)
  /\ Become(t, "drop")
  /\ UNCHANGED <<gil, returned>>

DropGil(t) ==
  /\ phase[t] = "drop"
  /\ pc[t] = "hl"
  /\ gil' = NoThread
  /\ Become(t, "dropped")
  /\ UNCHANGED <<vars, returned>>

BackToHL(t) ==
  /\ phase[t] = "dropped"
  /\ BlockingFalse(t)
  /\ Become(t, "hl")
  /\ UNCHANGED <<gil, returned>>

\* Mutant: HL code is called with the GIL held.
CallHL_KeepsGil(t) ==
  /\ phase[t] = "py"
  /\ RunsHL(t)
  /\ Become(t, "hl")
  /\ UNCHANGED <<vars, gil, returned>>

\* Python calls an HL function (PyEval_SaveThread in hlmod_invoke), or the hook
\* was removed while its caller waited and the GIL is given back at once.
CallHL(t) ==
  /\ phase[t] = "py"
  /\ RunsHL(t)
  /\ gil' = NoThread
  /\ Become(t, "hl")
  /\ UNCHANGED <<vars, returned>>
-----------------------------------------------------------------------------
(* The bare waits.                                                         *)

\* Py_BEGIN_ALLOW_THREADS in hlmod_api.c.
AllowThreads(t) ==
  /\ phase[t] = "py"
  /\ RunsHL(t)
  /\ gil' = NoThread
  /\ Become(t, "allow")
  /\ UNCHANGED <<vars, returned>>

\* What hlmod_api.c does meanwhile: hl_gc_major.
AllowedMajor(t) ==
  /\ phase[t] = "allow"
  /\ Major(t)
  /\ UNCHANGED gilVars

\* Py_END_ALLOW_THREADS.
EndAllowThreads(t) ==
  /\ phase[t] = "allow"
  /\ pc[t] = "hl"
  /\ Become(t, "bare")
  /\ UNCHANGED <<vars, gil, returned>>

\* Python code blocks by itself (a socket, input, sleep), or its switch interval
\* is over: CPython releases the GIL, and gc_blocking stays 0.
GoAway(t) ==
  /\ phase[t] = "py"
  /\ RunsHL(t)
  /\ gil' = NoThread
  /\ Become(t, "away")
  /\ UNCHANGED <<vars, returned>>

\* If that call ends.
ComeBack(t) ==
  /\ phase[t] = "away"
  /\ pc[t] = "hl"
  /\ Become(t, "bare")
  /\ UNCHANGED <<vars, gil, returned>>

\* hl_dyn_call_safe of the entry point returns; main() wants the GIL for the
\* shutdown of Python.
MainReturns ==
  /\ ~ returned
  /\ phase[Main] = "hl"
  /\ RunsHL(Main)
  /\ returned' = TRUE
  /\ Become(Main, "bare")
  /\ UNCHANGED <<vars, gil>>

\* A bare wait ends.
RetakeGil(t) ==
  /\ phase[t] = "bare"
  /\ gil = NoThread
  /\ gil' = t
  /\ Become(t, "py")
  /\ UNCHANGED <<vars, returned>>
-----------------------------------------------------------------------------
\* What HL code, and natives and conversions called by Python, do by themselves.
HeapUse(t) ==
  /\ phase[t] \in {"hl", "py"}
  /\ \/ Mutate(t)
     \/ Alloc(t)
     \/ Major(t)
     \/ BlockingTrue(t)
     \/ BlockingFalse(t)
  /\ UNCHANGED gilVars

\* The collector's handshake, whatever the thread is doing.
Handshake(t) == (Collector(t) \/ Runtime(t)) /\ UNCHANGED gilVars

Crossing(t) ==
  \/ WaitForGil(t)
  \/ TakeGil(t)
  \/ EnterPython(t)
  \/ LeavePython(t)
  \/ DropGil(t)
  \/ BackToHL(t)
  \/ CallHL(t)

BareCrossing(t) ==
  \/ AllowThreads(t)
  \/ AllowedMajor(t)
  \/ EndAllowThreads(t)
  \/ GoAway(t)
  \/ ComeBack(t)
  \/ RetakeGil(t)

GilNext ==
  \/ MainReturns
  \/ \E t \in Thread :
       HeapUse(t) \/ Handshake(t) \/ Crossing(t) \/ BareCrossing(t)

GilSpec == GilInit /\ [][GilNext]_allVars

(***************************************************************************)
(* Fairness.  As in StopWorld, plus: a thread that waits for a free GIL    *)
(* gets it in the end, a crossing is straight-line code, as is what        *)
(* hlmod_api.c does without the GIL, and the only blocking region entered  *)
(* with the GIL held is the bounded sleep of hlmod_repl_stop.  An HL       *)
(* thread may stay in a blocking region for ever, and nothing is assumed   *)
(* of Python code: it may keep the GIL, or block without it, for ever, and *)
(* need not come to an allocation of HL, nor leave.                        *)
(***************************************************************************)
StraightLine(t) ==
  \/ Handshake(t)
  \/ EnterPython(t)
  \/ DropGil(t)
  \/ BackToHL(t)
  \/ EndAllowThreads(t)
  \/ phase[t] = "py" /\ BlockingFalse(t) /\ UNCHANGED gilVars

ComesToRuntime(t) ==
  /\ phase[t] = "hl"
  /\ RunsHL(t)
  /\ \/ (Alloc(t) \/ Major(t) \/ BlockingTrue(t)) /\ UNCHANGED gilVars
     \/ WaitForGil(t)

GilFairness ==
  \A t \in Thread :
    /\ WF_allVars(StraightLine(t))
    /\ SF_allVars(TakeGil(t) \/ RetakeGil(t) \/ ComesToRuntime(t))

GilFairSpec == GilSpec /\ GilFairness
-----------------------------------------------------------------------------
\* A collector spins on t, t waits for the GIL, and the GIL's holder is that
\* collector or waits for the lock the collector owns.
CircularWait(t) ==
  /\ t \in unseen
  /\ phase[t] \in {"take", "bare"}
  /\ pc[t] = "hl"
  /\ gc_blocking[t] = 0
  /\ gil # NoThread
  /\ pc[gil] \in {"stop", "acquire"}

\* Waiting for the GIL never holds up a collection ("Waiting for the GIL is a
\* GC-safe blocking region, not HL execution.", hlmod_ptr.c).
NoCircularWait == \A t \in Thread : ~ CircularWait(t)

\* A wait that hl_blocking brackets is one the collector walks past.
BracketedWaitIsSafe ==
  \A t \in Thread : phase[t] = "take" /\ pc[t] = "hl" => gc_blocking[t] > 0

\* The GIL and the collector's lock have an order: nobody waits for the GIL
\* while it owns the lock, so no callback of the collector may need Python
\* ("Do not touch Python or acquire its GIL", hlmod_python.c).
NoGilUnderLock ==
  \A t \in Thread : phase[t] \in {"take", "bare"} => owner # t

\* The collector spins on t, which has not left Python since it entered it, in a
\* call that CPython or hlmod_api.c gave the GIL up for or not.
HeldUpByPython(t) ==
  /\ t \in unseen
  /\ gc_blocking[t] = 0
  /\ phase[t] \in {"py", "away", "allow", "bare"}

\* A collection that never ends (gc_stop_world spins until each registered thread
\* is blocked) is held up by one of two things for ever: a bare wait that closes a
\* circle, or a thread whose Python code runs, or blocks by itself, without end.
\* The bracketed waits, what hlmod_api.c does without the GIL, HL code, and a bare
\* wait for a thread that goes on, never hold it up.
CollectionEndsOrStuck ==
  <>[]stopping_world =>
    \E t \in Thread :
      \/ <>[](phase[t] = "bare" /\ CircularWait(t))
      \/ <>[]HeldUpByPython(t) /\ []<>(phase[t] \in {"py", "away"})
-----------------------------------------------------------------------------
(* The inductive invariant: whose the GIL is, and the regions around it.   *)

GilOwned == \A t \in Thread : phase[t] \in Holding <=> gil = t

\* A thread between two hl_blocking calls of a crossing runs no HL code.
CrossingBlocked ==
  \A t \in Thread :
    phase[t] \in {"take", "took", "drop", "dropped"} =>
      /\ pc[t] \in {"enter", "hl"}
      /\ pc[t] = "hl" => gc_blocking[t] > 0

BareIdle == \A t \in Thread : phase[t] = "bare" => pc[t] = "hl"

GilInv == IInv /\ GilTypeOK /\ GilOwned /\ CrossingBlocked /\ BareIdle
=============================================================================
