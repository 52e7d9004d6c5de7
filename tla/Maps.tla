-------------------------------- MODULE Maps --------------------------------
(***************************************************************************)
(* The hash maps of the Java and C++ code, as functions whose domain is    *)
(* the set of keys present.  A Java put replaces the value of a key, a     *)
(* C++ emplace keeps it: the difference matters when a key is reused.      *)
(***************************************************************************)
EXTENDS Integers, FiniteSets, Functions

EmptyMap == [k \in {} |-> 0]

\* java.util.Map.put: the new value wins.
MapPut(m, k, v) == [x \in DOMAIN m \cup {k} |-> IF x = k THEN v ELSE m[x]]

\* java.util.Map.remove / unordered_map::erase of every key in ks.
MapRemove(m, ks) == Restrict(m, DOMAIN m \ ks)

\* unordered_map::emplace: the value already stored under k wins.
MapEmplace(m, k, v) == IF k \in DOMAIN m THEN m ELSE MapPut(m, k, v)

\* The keys mapped to v: what a linear search of the entries can return.
KeysOf(m, v) == {k \in DOMAIN m : m[k] = v}

\* The orders in which an iterator can visit the entries.
Iterations(m) == Bijection(1..Cardinality(DOMAIN m), DOMAIN m)

IsMap(m, K, V) == /\ DOMAIN m \subseteq K
                  /\ m \in [DOMAIN m -> V]
=============================================================================
