------------------------------ MODULE CacheMgr ------------------------------
(***************************************************************************)
(* class CacheMgr of the web UI: a bounded cache with expiring items, as   *)
(* operators on its value.  items is the record `cache`, keys the list     *)
(* `cacheItemKeys` from the least to the most recently set.                *)
(***************************************************************************)
EXTENDS Naturals, Sequences, SequencesExt, FiniteSets

CONSTANTS
    Capacity,   \* 0 for no limit
    Expire      \* lifetime of an item

ASSUME CacheAssumption == Capacity \in Nat /\ Expire \in Nat

(* Array.filter: the elements of s that are not in S, in their order.  By  *)
(* their indices, since the proof system knows nothing of SelectSeq.       *)
Without(s, S) ==
    LET kept == {i \in DOMAIN s : s[i] \notin S}
    IN [n \in 1..Cardinality(kept) |->
          s[CHOOSE i \in kept : Cardinality({j \in kept : j <= i}) = n]]

EmptyCache == [items |-> [k \in {} |-> 0], keys |-> <<>>]

(* get: what it finds (a set of at most one), and what it leaves behind:   *)
(* an expired item is removed.                                             *)
Found(cache, key, now) ==
    {cache.items[k].data : k \in {key} \cap
        {j \in DOMAIN cache.items : cache.items[j].expireAt >= now}}

RemoveKey(cache, key) ==
    [items |-> [k \in DOMAIN cache.items \ {key} |-> cache.items[k]],
     keys |-> Without(cache.keys, {key})]

AfterGet(cache, key, now) ==
    IF key \in DOMAIN cache.items /\ cache.items[key].expireAt < now
      THEN RemoveKey(cache, key)
      ELSE cache

(* The loop of set that removes the oldest keys while there are too many. *)
Evict(items, keys) ==
    LET oldest == IF Capacity = 0 THEN {}
                  ELSE ToSet(SubSeq(keys, 1, Len(keys) - Capacity))
    IN [items |-> [k \in DOMAIN items \ oldest |-> items[k]],
        keys |-> Without(keys, oldest)]

Stored(cache, key, val, now) ==
    [k \in DOMAIN cache.items \cup {key} |->
        IF k = key THEN [expireAt |-> now + Expire, data |-> val] ELSE cache.items[k]]

(* The variant of set that leaves an old position of the key in the list. *)
SetTwice(cache, key, val, now) ==
    Evict(Stored(cache, key, val, now), Append(cache.keys, key))

(* set: the key moves to the end of the list. *)
SetItem(cache, key, val, now) ==
    Evict(Stored(cache, key, val, now),
          Append(Without(cache.keys, {key}), key))

-----------------------------------------------------------------------------
(* The list of keys enumerates the items, each once, within the capacity:  *)
(* the eviction in set always finds the oldest item and never loops.       *)
KeysMatchItems(cache) ==
    /\ ToSet(cache.keys) = DOMAIN cache.items
    /\ Len(cache.keys) = Cardinality(DOMAIN cache.items)
    /\ Capacity > 0 => Len(cache.keys) <= Capacity
=============================================================================
