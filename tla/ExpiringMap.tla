----------------------------- MODULE ExpiringMap -----------------------------
(***************************************************************************)
(* What a user of a cache may rely on: a map in which a key holds the last *)
(* datum stored for it, and from which any entry may vanish at any moment  *)
(* (it expired, it was scanned away, or somebody invalidated it).  Nothing *)
(* else ever changes the map: no entry comes back and none turns into an   *)
(* older datum.  TimedCache implements this specification; FileOps uses    *)
(* the two caches of Connection as such maps.                              *)
(***************************************************************************)
EXTENDS Integers, PartialMaps

CONSTANT Keys

VARIABLES
  map,     \* what a lookup serves: a number on each visible key
  stored   \* how many data have been stored under each key

Init ==
  /\ map = EmptyMap
  /\ stored = [k \in Keys |-> 0]

\* Entries vanish.
Drop ==
  /\ \E S \in SUBSET Keys : map' = Without(map, S)
  /\ UNCHANGED stored

\* The next datum is stored under k; other entries (and, when the store takes
\* long, this one too) may vanish in the same step.
Put(k) ==
  /\ stored' = [stored EXCEPT ![k] = @ + 1]
  /\ \E S \in SUBSET Keys : map' = Without(With(map, k, stored[k] + 1), S)

Next == Drop \/ \E k \in Keys : Put(k)

Spec == Init /\ [][Next]_<<map, stored>>
=============================================================================
