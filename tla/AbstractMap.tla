---------------------------- MODULE AbstractMap -----------------------------
(***************************************************************************)
(* What a map (src/src/std/maps.h) is to a program: a partial function     *)
(* from keys to values.                                                    *)
(***************************************************************************)
CONSTANTS Key, Value

VARIABLE map

AInit == map \in [{} -> Value]

ASet ==
  \E k \in Key, v \in Value :
    map' = [l \in DOMAIN map \cup {k} |-> IF l = k THEN v ELSE map[l]]

ARemove == \E k \in DOMAIN map : map' = [l \in DOMAIN map \ {k} |-> map[l]]

AClear == map' \in [{} -> Value]

ASpec == AInit /\ [][ASet \/ ARemove \/ AClear]_map
=============================================================================
