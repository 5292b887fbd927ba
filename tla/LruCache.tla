------------------------------ MODULE LruCache ------------------------------
(***************************************************************************)
(* utils::LruCache (src/inc/lru_cache.h): the keys of items_, most         *)
(* recently used first.  index_ holds the same keys; the values are kept   *)
(* by the module that uses the cache.                                      *)
(***************************************************************************)
EXTENDS Naturals, Sequences, SequencesExt

Keys(items) == ToSet(items)

\* splice to the front, or emplace_front of a new key.
ToFront(items, key) == <<key>> \o RemoveFirst(items, key)

get(items, key) == IF key \in Keys(items) THEN ToFront(items, key) ELSE items

\* Fault: the most recently used entry is evicted.
EvictMru(items, capacity) ==
  IF Len(items) >= capacity THEN Tail(items) ELSE items

evict_lru(items, capacity) ==
  IF Len(items) >= capacity THEN Front(items) ELSE items

put(items, key, capacity) ==
  IF key \in Keys(items) THEN ToFront(items, key)
  ELSE ToFront(evict_lru(items, capacity), key)
=============================================================================
