-------------------------------- MODULE Lru --------------------------------
(***************************************************************************)
(* The bounded cache of the `lru` crate, as src/src/store.rs uses it: the  *)
(* six projections of `StoreInner` are all `LruCache`s.                    *)
(*                                                                         *)
(* A cache is a record of                                                  *)
(*   order      its keys, most recently used first;                        *)
(*   entry      the value under each retained key;                         *)
(*   evictions  how many values capacity pressure has pushed out.  The     *)
(*              store keeps these six numbers in `EvictionCounters` and    *)
(*              increments the matching one at every call of               *)
(*              push_with_eviction that displaces a value; here each       *)
(*              number sits with the cache it counts for.                  *)
(***************************************************************************)
EXTENDS Integers, Sequences, FiniteSets

(* LruCache::new: an empty cache; the capacity is an argument of Push.     *)
EmptyCache == [order |-> <<>>, entry |-> [k \in {} |-> 0], evictions |-> 0]

Keys(c) == DOMAIN c.entry

(* Where k stands in the recency order.                                    *)
PositionOf(s, k) == CHOOSE i \in 1..Len(s) : s[i] = k

(* The first n keys of s after k has moved to the front from place i (or   *)
(* has been put there, when i is one past the end).                        *)
ToFront(s, k, i, n) ==
  [j \in 1..n |-> IF j = 1 THEN k ELSE IF j <= i THEN s[j - 1] ELSE s[j]]

(* `get` of a retained key: the value is read, the key becomes the most    *)
(* recently used one.                                                      *)
Touch(c, k) ==
  [order     |-> ToFront(c.order, k, PositionOf(c.order, k), Len(c.order)),
   entry     |-> c.entry,
   evictions |-> c.evictions]

(* `get_mut` of a retained key, and the assignment through the reference.  *)
Update(c, k, v) ==
  [order     |-> Touch(c, k).order,
   entry     |-> [c.entry EXCEPT ![k] = v],
   evictions |-> c.evictions]

(* The key a push of k drops: none when k is retained or there is room.    *)
Displaced(c, k, cap) ==
  IF k \in Keys(c) \/ Len(c.order) < cap THEN {} ELSE {c.order[Len(c.order)]}

(* Mutant of Push: the capacity is never enforced.                         *)
PushUnbounded(c, k, v, cap) ==
  IF k \in Keys(c)
    THEN Update(c, k, v)
    ELSE [order     |-> ToFront(c.order, k, Len(c.order) + 1, Len(c.order) + 1),
          entry     |-> [x \in Keys(c) \cup {k} |-> IF x = k THEN v ELSE c.entry[x]],
          evictions |-> c.evictions]

(* Mutant of Push: the displaced value is dropped without being counted.   *)
PushSilently(c, k, v, cap) ==
  IF k \in Keys(c)
    THEN Update(c, k, v)
    ELSE [order     |-> ToFront(c.order, k, Len(c.order) + 1,
                                IF Len(c.order) < cap THEN Len(c.order) + 1 ELSE cap),
          entry     |-> [x \in (Keys(c) \ Displaced(c, k, cap)) \cup {k} |->
                           IF x = k THEN v ELSE c.entry[x]],
          evictions |-> c.evictions]

(* push_with_eviction, with the eviction counter its callers keep.         *)
Push(c, k, v, cap) ==
  IF k \in Keys(c)
    THEN Update(c, k, v)
    ELSE LET n == IF Len(c.order) < cap THEN Len(c.order) + 1 ELSE cap
             out == Displaced(c, k, cap)
         IN  [order     |-> ToFront(c.order, k, Len(c.order) + 1, n),
              entry     |-> [x \in (Keys(c) \ out) \cup {k} |->
                               IF x = k THEN v ELSE c.entry[x]],
              evictions |-> IF out = {} THEN c.evictions ELSE c.evictions + 1]

(* A cache of values V under keys K: its order lists every retained key    *)
(* exactly once and is never longer than the capacity.                     *)
CacheOK(c, K, V, cap) ==
  /\ c \in [order : Seq(K), entry : [Keys(c) -> V], evictions : Nat]
  /\ Keys(c) = {c.order[i] : i \in 1..Len(c.order)}
  /\ \A i, j \in 1..Len(c.order) : c.order[i] = c.order[j] => i = j
  /\ Len(c.order) <= cap
=============================================================================
