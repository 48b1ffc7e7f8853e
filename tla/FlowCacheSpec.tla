---------------------------- MODULE FlowCacheSpec ----------------------------
(***************************************************************************)
(* class FlowCache on its own: any sequence of calls whose asserts hold.   *)
(* The flow table uses it with capacity 0 and never calls Update; here the *)
(* capacity is a parameter and Update is an action like the others.        *)
(***************************************************************************)
EXTENDS FlowCache

CONSTANTS
    Keys,       \* FlowKeys, by hash
    Capacity,   \* m_capacity
    MaxExpire   \* bound: expiry times and clock readings are 1 .. MaxExpire

ASSUME FlowCacheAssumption ==
    /\ Capacity \in Nat
    /\ MaxExpire \in Nat \ {0}

VARIABLE cache    \* m_cacheMap and m_cacheList

CacheInit == cache = EmptyCache

\* Insert returns false and changes nothing when the cache is full.
InsertKey(key, value) ==
    /\ ~ Count(cache, key)
    /\ ~ Full(cache, Capacity)
    /\ cache' = Insert(cache, key, value)

UpdateKey(key, value) ==
    /\ Count(cache, key)
    /\ cache' = Update(cache, key, value)

DeleteKey(key) ==
    /\ Count(cache, key)
    /\ cache' = Delete(cache, key)

\* One iteration of the caller's loop over GetExpired and Delete.
DeleteExpired(now) ==
    /\ GetExpired(cache, now)
    /\ cache' = Delete(cache, Head(cache.m_cacheList).key)

CacheNext ==
    \/ \E key \in Keys, value \in 1 .. MaxExpire : InsertKey(key, value)
    \/ \E key \in Keys, value \in 1 .. MaxExpire : UpdateKey(key, value)
    \/ \E key \in Keys : DeleteKey(key)
    \/ \E now \in 1 .. MaxExpire : DeleteExpired(now)

CacheSpec == CacheInit /\ [][CacheNext]_cache

-------------------------------------------------------------------------------
(***************************************************************************)
(* Map and list hold the same keys, a key once, after any calls, and the   *)
(* iterator kept for a key points to that key's node.  Delete and Update   *)
(* erase through the iterator, so one that Update had not replaced would   *)
(* take another flow's node out of the queue, or be invalid.               *)
(***************************************************************************)
Consistent == CacheConsistent(cache)

\* The keys queued before another one.
Before(c, key) ==
    {c.m_cacheList[i].key : i \in 1 .. Iter(c, key) - 1}

(***************************************************************************)
(* Only a new or a refreshed key may be queued behind others: a key whose  *)
(* node keeps its expiry time never falls behind a key it was ahead of.    *)
(***************************************************************************)
NeverOvertaken ==
    [][\A k1, k2 \in Keyed(cache) \intersect Keyed(cache') :
         k1 \in Before(cache, k2) /\ k2 \in Before(cache', k1) =>
           cache' = Update(cache, k1, Last(cache'.m_cacheList).expire)]_cache
===============================================================================
