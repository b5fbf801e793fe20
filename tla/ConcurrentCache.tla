--------------------------- MODULE ConcurrentCache ---------------------------
(***************************************************************************)
(* zim::ConcurrentCache, the cache of clusters that the threads of a       *)
(* reader share, on top of zim::lru_cache.                                 *)
(*                                                                         *)
(* The cache maps a key to a shared_future.  The thread that misses puts   *)
(* the future of its own promise into the cache under the lock and calls   *)
(* f() without it; the others wait for the future they found.  The list    *)
(* may evict an element whose promise is still pending.                    *)
(*                                                                         *)
(* Each call of getOrPut makes a promise; a promise is its position in     *)
(* promises.  A list element is named by the promise it was made with.     *)
(***************************************************************************)
EXTENDS Integers, Sequences, FiniteSets

CONSTANTS
  Keys,        \* cluster numbers
  Threads,     \* the threads that call getOrPut
  MaxEntries,  \* maxEntries of the constructor
  MayFail,     \* keys for which f() may throw
  MaxCalls     \* bound on the number of calls

ASSUME CacheAssumption ==
  /\ MaxEntries \in Nat
  /\ MaxCalls \in Nat
  /\ Keys # {}
  /\ MayFail \subseteq Keys

VARIABLES
  list,      \* _cache_items_list, most recently used first
  map,       \* _cache_items_map: key -> list element
  promises,  \* the shared states: key they are for, and how far they are
  pc,        \* where each thread is
  slot,      \* the future each thread holds (x.value())
  wanted,    \* the key each thread asked for
  result,    \* what its last call did
  lastUse    \* history: the call that last used each key

vars == <<list, map, promises, pc, slot, wanted, result, lastUse>>

-----------------------------------------------------------------------------
(* lru_cache *)

\* key_value_pair_t
Elem(k, s) == [key |-> k, slot |-> s]

\* Mutant: a hit does not count as a use.
LeaveInPlace(s) == list

\* list.splice(begin, list, it): the element of s moves to the front.
ToFront(s) ==
  LET i == CHOOSE i \in 1 .. Len(list) : list[i].slot = s
  IN  [j \in 1 .. Len(list) |-> IF j = 1 THEN list[i]
                                ELSE IF j <= i THEN list[j - 1] ELSE list[j]]

\* Mutant: the key is read after pop_back.
KeyAfterPop(l) == l[IF Len(l) > 1 THEN Len(l) - 1 ELSE 1].key

\* _cache_items_list.back().first
EvictedKey(l) == l[Len(l)].key

\* _cache_items_map.size() > _max_size
OverFull(l) == Len(l) > MaxEntries

\* lru_cache::putMissing
PutMissing(k, s) ==
  LET l == <<Elem(k, s)>> \o list
      m == [x \in DOMAIN map \cup {k} |-> IF x = k THEN s ELSE map[x]]
  IN  IF OverFull(l)
      THEN /\ map' = [x \in DOMAIN m \ {EvictedKey(l)} |-> m[x]]
           /\ list' = SubSeq(l, 1, Len(l) - 1)
      ELSE /\ map' = m
           /\ list' = l

-----------------------------------------------------------------------------
(* ConcurrentCache::getOrPut *)

\* Mutant: begin() instead of what find returned.
FrontSlot(k) == list[1].slot

\* it->second->second
FoundSlot(k) == map[k]

\* The promise is made and, under the lock, lru_cache::getOrPut is called:
\* a hit returns the future that is there ...
Hit(t, k) ==
  /\ pc[t] = "idle"
  /\ Len(promises) < MaxCalls
  /\ k \in DOMAIN map
  /\ promises' = Append(promises, [key |-> k, state |-> "unused"])
  /\ list' = ToFront(map[k])
  /\ slot' = [slot EXCEPT ![t] = FoundSlot(k)]
  /\ wanted' = [wanted EXCEPT ![t] = k]
  /\ lastUse' = [lastUse EXCEPT ![k] = Len(promises')]
  /\ pc' = [pc EXCEPT ![t] = "get"]
  /\ UNCHANGED <<map, result>>

\* ... a miss puts the future of this call's promise.
Miss(t, k) ==
  /\ pc[t] = "idle"
  /\ Len(promises) < MaxCalls
  /\ k \notin DOMAIN map
  /\ promises' = Append(promises, [key |-> k, state |-> "pending"])
  /\ PutMissing(k, Len(promises'))
  /\ slot' = [slot EXCEPT ![t] = Len(promises')]
  /\ wanted' = [wanted EXCEPT ![t] = k]
  /\ lastUse' = [lastUse EXCEPT ![k] = Len(promises')]
  /\ pc' = [pc EXCEPT ![t] = "load"]
  /\ UNCHANGED result

\* Mutant: the slot is looked up again after f().
SlotFoundAgain(t) == IF wanted[t] \in DOMAIN map THEN map[wanted[t]] ELSE slot[t]

\* valuePromise of this call
OwnSlot(t) == slot[t]

\* valuePromise.set_value(f())
Load(t) ==
  /\ pc[t] = "load"
  /\ promises' = [promises EXCEPT ![OwnSlot(t)].state = "ready"]
  /\ pc' = [pc EXCEPT ![t] = "get"]
  /\ UNCHANGED <<list, map, slot, wanted, result, lastUse>>

\* f() throws: the exception leaves getOrPut, the promise is destroyed without
\* a value and its future, wherever it is, holds broken_promise.
LoadFails(t) ==
  /\ pc[t] = "load"
  /\ wanted[t] \in MayFail
  /\ promises' = [promises EXCEPT ![slot[t]].state = "broken"]
  /\ result' = [result EXCEPT ![t] = [status |-> "threw", key |-> wanted[t]]]
  /\ pc' = [pc EXCEPT ![t] = "idle"]
  /\ UNCHANGED <<list, map, slot, wanted, lastUse>>

\* x.value().get()
Get(t) ==
  /\ pc[t] = "get"
  /\ promises[slot[t]].state \in {"ready", "broken"}
  /\ result' = [result EXCEPT ![t] =
                  [status |-> IF promises[slot[t]].state = "ready"
                              THEN "value" ELSE "brokenPromise",
                   key    |-> promises[slot[t]].key]]
  /\ pc' = [pc EXCEPT ![t] = "idle"]
  /\ UNCHANGED <<list, map, promises, slot, wanted, lastUse>>

-----------------------------------------------------------------------------
AnyKey == CHOOSE k \in Keys : TRUE

Init ==
  /\ list = <<>>
  /\ map = [k \in {} |-> 0]
  /\ promises = <<>>
  /\ pc = [t \in Threads |-> "idle"]
  /\ slot = [t \in Threads |-> 0]
  /\ wanted = [t \in Threads |-> AnyKey]
  /\ result = [t \in Threads |-> [status |-> "none", key |-> AnyKey]]
  /\ lastUse = [k \in Keys |-> 0]

Step(t) == Load(t) \/ LoadFails(t) \/ Get(t)

Call(t) == \E k \in Keys : Hit(t, k) \/ Miss(t, k)

\* No more calls: the bound is reached.
Finished == Len(promises) = MaxCalls /\ UNCHANGED vars

Next == (\E t \in Threads : Call(t) \/ Step(t)) \/ Finished

Spec == Init /\ [][Next]_vars

\* f() returns or throws, and a thread whose future is ready runs on; nobody
\* has to call getOrPut.
FairSpec == Spec /\ \A t \in Threads : WF_vars(Step(t))

-----------------------------------------------------------------------------
(* Properties *)

\* The list, the map and the threads hold promises that exist.
TypeOK ==
  /\ promises \in Seq([key : Keys, state : {"unused", "pending", "ready", "broken"}])
  /\ list \in Seq([key : Keys, slot : 1 .. Len(promises)])
  /\ DOMAIN map \subseteq Keys
  /\ \A k \in DOMAIN map : map[k] \in 1 .. Len(promises)
  /\ pc \in [Threads -> {"idle", "load", "get"}]
  /\ slot \in [Threads -> 0 .. Len(promises)]
  /\ wanted \in [Threads -> Keys]
  /\ result \in [Threads -> [status : {"none", "value", "threw", "brokenPromise"},
                             key : Keys]]
  /\ lastUse \in [Keys -> 0 .. Len(promises)]

\* The map and the list hold the same elements, never more than maxEntries,
\* each key once and with a future for that key.
MapMatchesList ==
  /\ Len(list) <= MaxEntries
  /\ DOMAIN map = {list[i].key : i \in 1 .. Len(list)}
  /\ \A i \in 1 .. Len(list) :
       /\ map[list[i].key] = list[i].slot
       /\ promises[list[i].slot].key = list[i].key
       /\ promises[list[i].slot].state # "unused"
  /\ \A i, j \in 1 .. Len(list) : list[i].key = list[j].key => i = j

\* The list is in the order of the last use of its keys: what putMissing
\* evicts is the least recently used.
LeastRecentlyUsedLast ==
  \A i, j \in 1 .. Len(list) : i < j => lastUse[list[i].key] > lastUse[list[j].key]

\* Nobody waits for a promise that nobody is going to set: as long as one is
\* pending exactly one thread is in f() for it, also when its element has been
\* evicted from the cache.
PendingHasLoader ==
  \A s \in 1 .. Len(promises) : promises[s].state = "pending" =>
    /\ \E t \in Threads : pc[t] = "load" /\ slot[t] = s
    /\ \A t, u \in Threads : pc[t] = "load" /\ slot[t] = s /\ pc[u] = "load" /\ slot[u] = s
                               => t = u

\* A call returns the value of the key it was made with, although its element
\* may have been evicted, and the key put again, in between.
ReturnsWhatWasAsked ==
  \A t \in Threads : /\ pc[t] # "idle" => promises[slot[t]].key = wanted[t]
                     /\ result[t].status = "value" /\ pc[t] = "idle" =>
                          result[t].key = wanted[t]

\* What a thread inside getOrPut holds: a promise that is in use, and, in f(),
\* one that is pending and nobody else's to set.
ThreadInv ==
  /\ \A t \in Threads : pc[t] # "idle" =>
       /\ slot[t] \in 1 .. Len(promises)
       /\ promises[slot[t]].state # "unused"
  /\ \A t \in Threads : pc[t] = "load" => promises[slot[t]].state = "pending"
  /\ \A t, u \in Threads : pc[t] = "load" /\ pc[u] = "load" /\ slot[t] = slot[u] => t = u

\* The inductive invariant behind the five safety properties above: beside
\* them, a thread in f() owns the promise it is going to set.
CInv == /\ TypeOK
        /\ MapMatchesList
        /\ LeastRecentlyUsedLast
        /\ PendingHasLoader
        /\ ReturnsWhatWasAsked
        /\ ThreadInv

\* Every call returns or throws.
CallsReturn == \A t \in Threads : pc[t] # "idle" ~> pc[t] = "idle"
=============================================================================
