----------------------------- MODULE MCGilWorld -----------------------------
(***************************************************************************)
(* Instances of GilWorld for TLC.  A behaviour of MCSpec is either one of  *)
(* StopWorld, in which no thread calls Python, and those that main()       *)
(* starts register and end, or one of GilWorld, in which two do.           *)
(***************************************************************************)
EXTENDS GilWorld, TLC

CONSTANTS t1, t2, t3

VARIABLE python   \* do they call Python?

TwoThreads == {t1, t2}
ThreeThreads == {t1, t2, t3}

\* The threads of GilInit, when the others are not registered.
Registered(ts) ==
  /\ threads = ts
  /\ alive = ts
  /\ rooted = [s \in Slot |-> ts]
  /\ pc = [t \in Thread |-> IF t \in ts THEN "hl" ELSE "absent"]
  /\ gc_blocking = [t \in Thread |-> 0]
  /\ stopping_world = FALSE /\ owner = NoThread /\ unseen = {}
  /\ fresh = [t \in Thread |-> FALSE]
  /\ job = [t \in Thread |-> "none"]

MCInit ==
  /\ \/ python = FALSE /\ Registered({Main})
     \/ python = TRUE /\ Registered(TwoThreads)
  /\ gil = NoThread /\ phase = [t \in Thread |-> "hl"] /\ returned = FALSE

\* main() has registered itself before it starts others, and outlives them.
MainStays == job'[Main] # "unreg1"

\* One of the threads, main(), enters blocking regions from within others.
OneNests ==
  \A t \in Thread \ {t1} :
    pc[t] = "hl" /\ gc_blocking[t] > 0 => gc_blocking'[t] <= gc_blocking[t]

MCNext ==
  /\ \/ ~ python /\ Next /\ UNCHANGED gilVars
     \/ python /\ GilNext
  /\ MainStays /\ OneNests
  /\ UNCHANGED python

\* Fairness of StopWorld while no thread calls Python, GilFairness while some do.
MCFairness ==
  /\ \A t \in Thread :
       /\ WF_vars(~ python /\ (Collector(t) \/ Runtime(t)))
       /\ WF_vars(~ python /\ EntersRuntime(t))
  /\ \A t \in TwoThreads :
       /\ WF_allVars(python /\ StraightLine(t))
       /\ SF_allVars(python /\ (TakeGil(t) \/ RetakeGil(t) \/ ComesToRuntime(t)))

MCSpec == MCInit /\ [][MCNext]_<<allVars, python>> /\ MCFairness
=============================================================================
