------------------------------ MODULE FlowCache ------------------------------
(***************************************************************************)
(* class FlowCache (flowCache.h): the expiry queue of the flow table.      *)
(* m_cacheList holds one node per flow, oldest insertion first;            *)
(* m_cacheMap maps a key to the list iterator of its node, that is to the  *)
(* node's address.  erase frees the address and push_back may be given a   *)
(* freed one, so an iterator that is kept too long finds no node at all    *)
(* or finds the node of another key.                                       *)
(*                                                                         *)
(* The operators map a cache value to a cache value, so that a caller may  *)
(* make several calls in one step.  The assert at the head of each method  *)
(* is its precondition.                                                    *)
(***************************************************************************)
EXTENDS Naturals, Sequences, SequencesExt

Node(K) == [key : K, expire : Nat, addr : Nat]

EmptyCache == [m_cacheMap |-> <<>>, m_cacheList |-> <<>>]

Keyed(cache) == DOMAIN cache.m_cacheMap

Count(cache, key) == key \in Keyed(cache)

\* The node that the iterator of a key points to, as a position in the list.
Iter(cache, key) ==
    CHOOSE i \in 1 .. Len(cache.m_cacheList) :
        cache.m_cacheList[i].addr = cache.m_cacheMap[key]

-------------------------------------------------------------------------------
\* What the allocator gives push_back: an address that no node of the list has.
FreeAddr(list) ==
    CHOOSE a \in 1 .. Len(list) + 1 : \A i \in 1 .. Len(list) : list[i].addr # a

NewNode(list, key, expire) ==
    [key |-> key, expire |-> expire, addr |-> FreeAddr(list)]

\* The map with an iterator stored under a key, and with a key erased.
Store(map, key, iter) ==
    [k \in DOMAIN map \union {key} |-> IF k = key THEN iter ELSE map[k]]

Erase(map, key) == [k \in DOMAIN map \ {key} |-> map[k]]

\* An insertion at the wrong end of the list.
InsertFront(cache, key, expire) ==
    LET new == NewNode(cache.m_cacheList, key, expire)
    IN  [ m_cacheMap  |-> Store(cache.m_cacheMap, key, new.addr),
          m_cacheList |-> <<new>> \o cache.m_cacheList ]

\* Insert with room left: push_back, and remember the iterator.
Insert(cache, key, expire) ==
    LET new == NewNode(cache.m_cacheList, key, expire)
    IN  [ m_cacheMap  |-> Store(cache.m_cacheMap, key, new.addr),
          m_cacheList |-> Append(cache.m_cacheList, new) ]

\* A deletion that leaves the list node behind.
DeleteMapOnly(cache, key) ==
    [cache EXCEPT !.m_cacheMap = Erase(@, key)]

\* A deletion that fills the gap with the youngest node.
DeleteSwap(cache, key) ==
    [ m_cacheMap  |-> Erase(cache.m_cacheMap, key),
      m_cacheList |-> Front([cache.m_cacheList EXCEPT
                               ![Iter(cache, key)] = Last(cache.m_cacheList)]) ]

\* Delete: the node the iterator points to first, then the map entry.
Delete(cache, key) ==
    [ m_cacheMap  |-> Erase(cache.m_cacheMap, key),
      m_cacheList |-> RemoveAt(cache.m_cacheList, Iter(cache, key)) ]

\* An update that forgets to store the iterator of the new node.
UpdateStale(cache, key, expire) ==
    LET rest == RemoveAt(cache.m_cacheList, Iter(cache, key))
    IN  [cache EXCEPT !.m_cacheList = Append(rest, NewNode(rest, key, expire))]

\* Update: unlink the node, link a new one at the back, store its iterator.
Update(cache, key, expire) ==
    LET rest == RemoveAt(cache.m_cacheList, Iter(cache, key))
        new  == NewNode(rest, key, expire)
    IN  [ m_cacheMap  |-> [cache.m_cacheMap EXCEPT ![key] = new.addr],
          m_cacheList |-> Append(rest, new) ]

\* GetExpired looks at the oldest node only.
GetExpired(cache, now) ==
    /\ Keyed(cache) # {}
    /\ Head(cache.m_cacheList).expire <= now

\* Capacity 0 is "no limit"; the comparison is > and not >=.
Full(cache, capacity) ==
    capacity # 0 /\ Cardinality(Keyed(cache)) > capacity

(***************************************************************************)
(* Map and list describe the same set of keys, a key has one node, and the *)
(* iterator stored for a key points to that node and to no other: it       *)
(* neither dangles nor is it shared with another key.                      *)
(***************************************************************************)
CacheConsistent(cache) ==
    LET list == cache.m_cacheList
    IN  /\ Keyed(cache) = {list[i].key : i \in 1 .. Len(list)}
        /\ \A i, j \in 1 .. Len(list) : list[i].key = list[j].key => i = j
        /\ \A i, j \in 1 .. Len(list) : list[i].addr = list[j].addr => i = j
        /\ \A i \in 1 .. Len(list) : cache.m_cacheMap[list[i].key] = list[i].addr
===============================================================================
