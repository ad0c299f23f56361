------------------------------ MODULE ModOrder -------------------------------
(***************************************************************************)
(* The order in which mods are loaded (src/python/mod_sorter.py), and      *)
(* their loading (src/src/main.c): an ordering by dependencies, one mod at *)
(* a time taken from a queue, then one call of the framework for each.     *)
(***************************************************************************)
EXTENDS Naturals, FiniteSets, Sequences, SequencesExt

CONSTANTS
  Id,        \* what mods are called
  MaxFound   \* bound on the modules found in the directories

ASSUME FoundAssumption == MaxFound \in Nat

VARIABLES
  found,     \* the files with a MOD_INFO, in the order of the directories
  stage,     \* "collect", "sort", "load", "ready", or "halted"
  mods,      \* the ids of the enabled mods, in that order
  indegree,  \* of each, on how many it still waits
  ready,     \* those that wait on none
  order,     \* the load order, so far
  loaded     \* how many of it the framework has loaded

modVars == <<found, stage, mods, indegree, ready, order, loaded>>

\* What get_mod_info makes of a file; disabled mods' dependencies are not used.
Info ==
  [id : Id, enabled : {TRUE}, deps : SUBSET Id]
    \cup [id : Id, enabled : {FALSE}, deps : {{}}]

\* A file that does not parse, or whose MOD_INFO is not a literal dictionary with
\* an id, a list of ids and a flag: it is refused, and so is no mod at all.
Malformed == [enabled |-> FALSE]

File == Info \cup {Malformed}

\* Those of s that are in S, in their order.
Only(s, S) ==
  LET kept[n \in 0 .. Len(s)] ==
        IF n = 0 THEN <<>>
        ELSE IF s[n] \in S THEN Append(kept[n - 1], s[n])
        ELSE kept[n - 1]
  IN kept[Len(s)]

ModsInit ==
  /\ found \in SeqOf(File, MaxFound)
  /\ stage = "collect" /\ mods = <<>>
  /\ indegree = <<>> /\ ready = <<>> /\ order = <<>> /\ loaded = 0

Enabled == Only(found, {info \in Info : info.enabled})
Ids(infos) == [i \in DOMAIN infos |-> infos[i].id]

\* The dependencies of an enabled mod.
Deps(id) ==
  UNION {info.deps : info \in {i \in ToSet(found) : i.enabled /\ i.id = id}}

\* A file that is refused or a duplicate raises; a dependency that is not there, or
\* is not enabled, is an error.
CollectFails ==
  /\ stage = "collect"
  /\ \/ Malformed \in ToSet(found)
     \/ ~ IsInjective(Ids(Enabled))
     \/ \E info \in ToSet(Enabled) : ~ info.deps \subseteq ToSet(Ids(Enabled))
  /\ stage' = "halted"
  /\ UNCHANGED <<found, mods, indegree, ready, order, loaded>>

CollectMods ==
  LET ids == Ids(Enabled) IN
  /\ stage = "collect"
  /\ Malformed \notin ToSet(found)
  /\ IsInjective(ids)
  /\ \A info \in ToSet(Enabled) : info.deps \subseteq ToSet(ids)
  /\ stage' = "sort"
  /\ mods' = ids
  /\ indegree' = [id \in ToSet(ids) |-> Cardinality(Deps(id))]
  /\ ready' = Only(ids, {id \in Id : Deps(id) = {}})
  /\ UNCHANGED <<found, order, loaded>>

\* Mutant: a mod is ready with the first of its dependencies.
Pop_Any ==
  /\ stage = "sort" /\ ready # <<>>
  /\ LET id == Head(ready)
         dependents == Only(mods, {d \in Id : id \in Deps(d)})
     IN
     /\ indegree' = [d \in DOMAIN indegree |->
                       IF d \in ToSet(dependents) THEN 0 ELSE indegree[d]]
     /\ ready' = Tail(ready) \o
                 Only(dependents, {d \in ToSet(mods) : indegree[d] > 0})
     /\ order' = Append(order, id)
  /\ UNCHANGED <<found, stage, mods, loaded>>

\* The next mod of the order: those that waited on it alone are ready.
Pop ==
  /\ stage = "sort" /\ ready # <<>>
  /\ LET id == Head(ready)
         dependents == Only(mods, {d \in Id : id \in Deps(d)})
     IN
     /\ indegree' = [d \in DOMAIN indegree |->
                       IF d \in ToSet(dependents) THEN indegree[d] - 1
                                                  ELSE indegree[d]]
     /\ ready' = Tail(ready) \o Only(dependents, {d \in ToSet(mods) : indegree'[d] = 0})
     /\ order' = Append(order, id)
  /\ UNCHANGED <<found, stage, mods, loaded>>

\* Nothing is ready any more: a cycle blocks those that are not in the order.
SortEnds ==
  /\ stage = "sort" /\ ready = <<>>
  /\ stage' = IF Len(order) = Len(mods) THEN "load" ELSE "halted"
  /\ UNCHANGED <<found, mods, indegree, ready, order, loaded>>

\* load_mod; the first that fails ends the start.
Load ==
  /\ stage = "load" /\ loaded < Len(order)
  /\ \/ loaded' = loaded + 1 /\ UNCHANGED stage
     \/ stage' = "halted" /\ UNCHANGED loaded
  /\ UNCHANGED <<found, mods, indegree, ready, order>>

\* finish_loading, which may raise.
Finish ==
  /\ stage = "load" /\ loaded = Len(order)
  /\ stage' \in {"ready", "halted"}
  /\ UNCHANGED <<found, mods, indegree, ready, order, loaded>>

ModsNext == CollectFails \/ CollectMods \/ Pop \/ SortEnds \/ Load \/ Finish

ModsSpec == ModsInit /\ [][ModsNext]_modVars
-----------------------------------------------------------------------------
Loaded == {order[i] : i \in 1 .. loaded}

\* A mod that waits on itself, over others perhaps.
Circular(ids) ==
  \E cycle \in (SUBSET ids) \ {{}} :
    \A id \in cycle : Deps(id) \cap cycle # {}

\* A mod is loaded once, and after all it depends on; when the game starts every
\* enabled mod is; and the order is refused only if there is no such order.
LoadsInOrder ==
  /\ IsInjective(order)
  /\ \A i \in 1 .. loaded : Deps(order[i]) \subseteq {order[j] : j \in 1 .. i - 1}
  /\ stage = "ready" => Loaded = ToSet(Ids(Enabled))
  /\ stage \in {"load", "ready"} => ~ Circular(ToSet(mods))
  /\ stage = "halted" /\ mods # <<>> /\ Len(order) < Len(mods)
       => Circular(ToSet(mods))
-----------------------------------------------------------------------------
(* The inductive invariant.                                                *)

\* What the variables hold.
ModsTypeOK ==
  /\ found \in Seq(File)
  /\ stage \in {"collect", "sort", "load", "ready", "halted"}
  /\ {mods, ready, order} \subseteq Seq(Id)
  /\ indegree \in [ToSet(mods) -> Nat]
  /\ loaded \in 0 .. Len(order)

\* The mods to be sorted are the enabled ones, with all they depend on.
ModsCollected ==
  /\ stage = "collect" => mods = <<>>
  /\ stage \in {"sort", "load", "ready"} => mods = Ids(Enabled)
  /\ IsInjective(mods)
  /\ \A id \in ToSet(mods) : Deps(id) \subseteq ToSet(mods)

\* What is in the order has its dependencies there before it; what is ready is
\* what waits on nothing that is not in the order yet.
OrderedSoFar ==
  /\ IsInjective(order) /\ IsInjective(ready)
  /\ ToSet(order) \subseteq ToSet(mods)
  /\ \A i \in 1 .. Len(order) : Deps(order[i]) \subseteq {order[j] : j \in 1 .. i - 1}
  /\ \A d \in ToSet(mods) : indegree[d] = Cardinality(Deps(d) \ ToSet(order))
  /\ ToSet(ready) = {d \in ToSet(mods) \ ToSet(order) : indegree[d] = 0}

\* What each stage leaves.
StageLeaves ==
  /\ stage \in {"collect", "sort"} => loaded = 0
  /\ stage \in {"load", "ready", "halted"} => ready = <<>>
  /\ stage \in {"load", "ready"} => Len(order) = Len(mods)
  /\ stage = "ready" => loaded = Len(order)

ModsInv == ModsTypeOK /\ ModsCollected /\ OrderedSoFar /\ StageLeaves
==============================================================================
