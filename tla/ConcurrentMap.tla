--------------------------- MODULE ConcurrentMap ---------------------------
(***************************************************************************)
(* The mutex-guarded map ConcurrentMap[K, V] that the relay uses for its   *)
(* three registries (slots, waitWS, conns).  Its source is not among the   *)
(* repository files we have; it is modelled from the spec (section 4.2):  *)
(* Get, Set and Remove are each atomic, and nothing else is atomic: a Get  *)
(* followed by a Set or a Remove is two steps that other goroutines may    *)
(* interleave with.  A map is a TLA+ function whose domain is the set of   *)
(* keys present.                                                           *)
(***************************************************************************)
EXTENDS TLC
LOCAL INSTANCE Functions

\* The empty registry (NewMap).
EmptyMap == [k \in {} |-> k]

\* Get(key) -> (value, found): found is membership of the domain.
Found(m, k) == k \in DOMAIN m

\* Set(key, value): inserts or overwrites.
MapSet(m, k, v) == (k :> v) @@ m

\* Remove(key): deletes the key if present, a no-op otherwise.
MapRemove(m, k) == Restrict(m, DOMAIN m \ {k})
=============================================================================
