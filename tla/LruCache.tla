------------------------------ MODULE LruCache ------------------------------
(***************************************************************************)
(* The LRU cache of include/coredesk/index/LruCache.h as operators on a    *)
(* sequence of [key, value] entries, the most recently used entry first.   *)
(* The sequence is the list items_; the hash map entries_ only finds the   *)
(* position of a key in it and is the operator Position.  Every method     *)
(* holds mutex_ from its first line to its last, so each is one operator   *)
(* applied in one step.                                                    *)
(***************************************************************************)
EXTENDS Naturals, Sequences

Holds(cache, key) == \E i \in 1..Len(cache) : cache[i].key = key

\* The place the hash map gives for a key; meaningful only if Holds.
Position(cache, key) == CHOOSE i \in 1..Len(cache) : cache[i].key = key

Entry(key, value) == [key |-> key, value |-> value]

ValueOf(cache, key) == cache[Position(cache, key)].value

\* splice: entry e takes the front, the entries before place p move back one.
Splice(cache, p, e) ==
    [j \in 1..Len(cache) |-> IF j = 1 THEN e
                             ELSE IF j <= p THEN cache[j - 1] ELSE cache[j]]

\* emplace_front, and pop_back when that makes the list longer than capacity.
Insert(cache, e, capacity) ==
    [j \in 1..(IF Len(cache) < capacity THEN Len(cache) + 1 ELSE capacity) |->
        IF j = 1 THEN e ELSE cache[j - 1]]

\* get: a hit makes the entry the most recently used one.
AfterGet(cache, key) ==
    IF Holds(cache, key)
    THEN Splice(cache, Position(cache, key), cache[Position(cache, key)])
    ELSE cache

\* put: overwrite in place and move to the front, or insert and evict.
AfterPut(cache, key, value, capacity) ==
    IF Holds(cache, key)
    THEN Splice(cache, Position(cache, key), Entry(key, value))
    ELSE Insert(cache, Entry(key, value), capacity)

AfterClear == << >>

WellFormed(cache, capacity) ==
    /\ Len(cache) <= capacity
    /\ \A i, j \in 1..Len(cache) : cache[i].key = cache[j].key => i = j
=============================================================================
