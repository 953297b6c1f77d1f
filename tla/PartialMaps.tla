----------------------------- MODULE PartialMaps -----------------------------
(* Maps with a varying set of keys: a std::unordered_map is a function whose *)
(* domain is the set of keys it contains.                                  *)
EXTENDS Functions

EmptyMap == [k \in {} |-> k]

\* m with v stored under k, as m[k] = v does.
With(m, k, v) == [x \in DOMAIN m \cup {k} |-> IF x = k THEN v ELSE m[x]]

\* m with the entries of n stored one after the other.
Overlaid(m, n) == [x \in DOMAIN m \cup DOMAIN n |-> IF x \in DOMAIN n THEN n[x] ELSE m[x]]

\* What m holds under the keys of S.
Only(m, S) == Restrict(m, DOMAIN m \cap S)

\* m with the keys of S erased.
Without(m, S) == Restrict(m, DOMAIN m \ S)
=============================================================================
