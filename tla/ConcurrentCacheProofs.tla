------------------------ MODULE ConcurrentCacheProofs ------------------------
(***************************************************************************)
(* Proofs of the safety properties of ConcurrentCache for any set of keys  *)
(* and threads, any size of the cache and any number of calls.             *)
(***************************************************************************)
EXTENDS ConcurrentCache, TLAPS

PromiseType == [key : Keys, state : {"unused", "pending", "ready", "broken"}]
ElemType(n) == [key : Keys, slot : 1 .. n]

\* An empty cache satisfies the invariant.
LEMMA InitCInv == ASSUME Init PROVE CInv
<1>0. AnyKey \in Keys
  BY CacheAssumption DEF AnyKey
<1>1. TypeOK
  BY <1>0 DEF Init, TypeOK
<1>2. MapMatchesList
  BY CacheAssumption DEF Init, MapMatchesList
<1> QED
  BY <1>1, <1>2 DEF Init, CInv, LeastRecentlyUsedLast, PendingHasLoader,
                    ReturnsWhatWasAsked, ThreadInv

\* A function on 1 .. n is a sequence.
LEMMA IsSeq ==
  ASSUME NEW S, NEW n \in Nat, NEW f \in [1 .. n -> S]
  PROVE  f \in Seq(S) /\ Len(f) = n
OBVIOUS

\* What one more promise leaves alone.
LEMMA NewPromise ==
  ASSUME NEW P, NEW q \in Seq(P), NEW e \in P
  PROVE  /\ Append(q, e) \in Seq(P)
         /\ Len(Append(q, e)) = Len(q) + 1
         /\ Append(q, e)[Len(q) + 1] = e
         /\ \A s \in 1 .. Len(q) : Append(q, e)[s] = q[s]
OBVIOUS

\* The types of the parts of the state, element by element.
LEMMA Facts ==
  ASSUME CInv
  PROVE  /\ promises \in Seq(PromiseType)
         /\ Len(promises) \in Nat
         /\ \A s \in 1 .. Len(promises) : promises[s].key \in Keys
         /\ Len(list) \in Nat
         /\ list = [i \in 1 .. Len(list) |-> list[i]]
         /\ \A i \in 1 .. Len(list) : list[i] \in ElemType(Len(promises))
         /\ \A i \in 1 .. Len(list) : /\ list[i].key \in Keys
                                      /\ list[i].slot \in 1 .. Len(promises)
<1>1. promises \in Seq(PromiseType) /\ Len(promises) \in Nat
  BY DEF CInv, TypeOK, PromiseType
<1>2. \A s \in 1 .. Len(promises) : promises[s] \in PromiseType
  BY <1>1
<1>3. \A s \in 1 .. Len(promises) : promises[s].key \in Keys
  BY <1>2 DEF PromiseType
<1>4. list \in Seq(ElemType(Len(promises)))
  BY DEF CInv, TypeOK, ElemType
<1>5. /\ Len(list) \in Nat
      /\ list = [i \in 1 .. Len(list) |-> list[i]]
      /\ \A i \in 1 .. Len(list) : list[i] \in ElemType(Len(promises))
  BY <1>4
<1>6. \A i \in 1 .. Len(list) : list[i].key \in Keys /\ list[i].slot \in 1 .. Len(promises)
  BY <1>5 DEF ElemType
<1> QED
  BY <1>1, <1>3, <1>5, <1>6

\* The type invariant of the next state, from what a call does to it: one more
\* promise, a list of elements that exist, slots and uses up to the new one.
LEMMA CallKeepsTypes ==
  ASSUME CInv, NEW n \in Nat, n = Len(promises), NEW m \in Nat,
         NEW t \in Threads, NEW k \in Keys, NEW c \in {"load", "get"},
         NEW s \in 1 .. n + 1,
         promises' \in Seq(PromiseType), Len(promises') = n + 1,
         list' \in [1 .. m -> ElemType(n + 1)],
         DOMAIN map' \subseteq Keys, \A x \in DOMAIN map' : map'[x] \in 1 .. n + 1,
         slot' = [slot EXCEPT ![t] = s], wanted' = [wanted EXCEPT ![t] = k],
         lastUse' = [lastUse EXCEPT ![k] = n + 1], pc' = [pc EXCEPT ![t] = c],
         UNCHANGED result
  PROVE  TypeOK'
<1>1. list' \in Seq(ElemType(n + 1))
  BY IsSeq
<1>2. slot \in [Threads -> 0 .. n] /\ lastUse \in [Keys -> 0 .. n]
  BY DEF CInv, TypeOK
<1>3. slot' \in [Threads -> 0 .. n + 1] /\ lastUse' \in [Keys -> 0 .. n + 1]
  BY <1>2
<1>4. pc' \in [Threads -> {"idle", "load", "get"}] /\ wanted' \in [Threads -> Keys]
  BY DEF CInv, TypeOK
<1>5. result' \in [Threads -> [status : {"none", "value", "threw", "brokenPromise"},
                               key : Keys]]
  BY DEF CInv, TypeOK
<1> QED
  BY <1>1, <1>3, <1>4, <1>5 DEF TypeOK, PromiseType, ElemType

\* What a call does to the promises and the threads keeps each pending promise
\* with its loader and each thread with its key: the caller takes either a new
\* pending promise to load, or one in use, for its key, to wait for.
LEMMA CallKeepsOwners ==
  ASSUME CInv, NEW n \in Nat, n = Len(promises),
         NEW t \in Threads, NEW k \in Keys, pc[t] = "idle",
         NEW c \in {"load", "get"}, NEW s \in 1 .. n + 1,
         Len(promises') = n + 1,
         \A x \in 1 .. n : promises'[x] = promises[x],
         c = "load" => s = n + 1 /\ promises'[n + 1].state = "pending",
         c = "get" => s \in 1 .. n /\ promises'[n + 1].state = "unused",
         promises'[s].key = k, promises'[s].state # "unused",
         slot' = [slot EXCEPT ![t] = s], wanted' = [wanted EXCEPT ![t] = k],
         pc' = [pc EXCEPT ![t] = c], UNCHANGED result
  PROVE  PendingHasLoader' /\ ReturnsWhatWasAsked' /\ ThreadInv'
<1>1. /\ slot'[t] = s /\ wanted'[t] = k /\ pc'[t] = c
      /\ \A u \in Threads : u # t => slot'[u] = slot[u] /\ wanted'[u] = wanted[u] /\ pc'[u] = pc[u]
  BY DEF CInv, TypeOK
<1>2. \A u \in Threads : pc[u] # "idle" =>
        /\ u # t
        /\ slot[u] \in 1 .. n
        /\ promises'[slot[u]] = promises[slot[u]]
        /\ promises[slot[u]].key = wanted[u]
        /\ promises[slot[u]].state # "unused"
        /\ pc[u] = "load" => promises[slot[u]].state = "pending"
  BY DEF CInv, ThreadInv, ReturnsWhatWasAsked
<1>3. ThreadInv'
  <2>1. ASSUME NEW u \in Threads, pc'[u] # "idle"
        PROVE  /\ slot'[u] \in 1 .. n + 1
               /\ promises'[slot'[u]].state # "unused"
               /\ pc'[u] = "load" => promises'[slot'[u]].state = "pending"
    <3>1. CASE u = t
      BY <3>1, <1>1
    <3>2. CASE u # t
      BY <3>2, <2>1, <1>1, <1>2
    <3> QED BY <3>1, <3>2
  <2>2. ASSUME NEW u \in Threads, NEW v \in Threads,
               pc'[u] = "load", pc'[v] = "load", slot'[u] = slot'[v]
        PROVE  u = v
    <3>1. CASE u # t /\ v # t
      BY <3>1, <2>2, <1>1 DEF CInv, ThreadInv
    <3>2. CASE u = t /\ v # t
      BY <3>2, <2>2, <1>1, <1>2
    <3>3. CASE u # t /\ v = t
      BY <3>3, <2>2, <1>1, <1>2
    <3> QED BY <3>1, <3>2, <3>3
  <2> QED
    BY <2>1, <2>2 DEF ThreadInv
<1>4. PendingHasLoader'
  <2> SUFFICES ASSUME NEW x \in 1 .. n + 1, promises'[x].state = "pending"
               PROVE  \E u \in Threads : pc'[u] = "load" /\ slot'[u] = x
    BY <1>3 DEF PendingHasLoader, ThreadInv
  <2>1. CASE x \in 1 .. n
    <3>1. PICK u \in Threads : pc[u] = "load" /\ slot[u] = x
      BY <2>1 DEF CInv, PendingHasLoader
    <3> QED BY <3>1, <1>1
  <2>2. CASE x = n + 1
    BY <2>2, <1>1
  <2> QED BY <2>1, <2>2
<1>5. ReturnsWhatWasAsked'
  <2>1. ASSUME NEW u \in Threads
        PROVE  /\ pc'[u] # "idle" => promises'[slot'[u]].key = wanted'[u]
               /\ result'[u].status = "value" /\ pc'[u] = "idle" => result'[u].key = wanted'[u]
    <3>1. CASE u = t
      BY <3>1, <1>1
    <3>2. CASE u # t
      BY <3>2, <1>1, <1>2 DEF CInv, ReturnsWhatWasAsked
    <3> QED BY <3>1, <3>2
  <2> QED
    BY <2>1 DEF ReturnsWhatWasAsked
<1> QED
  BY <1>3, <1>4, <1>5

\* splice takes the element of the key that was found.
LEMMA ToFrontIs ==
  ASSUME CInv, NEW i \in 1 .. Len(list)
  PROVE  ToFront(list[i].slot) =
           [j \in 1 .. Len(list) |-> IF j = 1 THEN list[i]
                                     ELSE IF j <= i THEN list[j - 1] ELSE list[j]]
<1>1. \A j \in 1 .. Len(list) : list[j].slot = list[i].slot => j = i
  BY DEF CInv, MapMatchesList
<1>2. (CHOOSE j \in 1 .. Len(list) : list[j].slot = list[i].slot) = i
  BY <1>1
<1> QED
  BY <1>2 DEF ToFront

\* A hit moves one element to the front and makes no promise pending.
LEMMA HitStep ==
  ASSUME CInv, NEW t \in Threads, NEW k \in Keys, Hit(t, k)
  PROVE  CInv'
<1>n. PICK n \in Nat : n = Len(promises)
  BY Facts
<1>m. PICK m \in Nat : m = Len(list)
  BY Facts
<1>0. /\ list = [j \in 1 .. m |-> list[j]]
      /\ \A j \in 1 .. m : list[j] \in ElemType(n)
      /\ \A j \in 1 .. m : list[j].key \in Keys /\ list[j].slot \in 1 .. n
  BY <1>n, <1>m, Facts
<1>p. PICK e \in PromiseType : promises' = Append(promises, e) /\ e.key = k /\ e.state = "unused"
  BY DEF Hit, PromiseType
<1>1. /\ promises' \in Seq(PromiseType)
      /\ Len(promises') = n + 1
      /\ promises'[n + 1] = e
      /\ \A s \in 1 .. n : promises'[s] = promises[s]
  BY <1>n, <1>p, NewPromise, Facts
<1>2. PICK i \in 1 .. m : list[i].key = k
  BY <1>m DEF Hit, CInv, MapMatchesList
<1>3. map[k] = list[i].slot
  BY <1>m, <1>2 DEF CInv, MapMatchesList
<1>4. list' = [j \in 1 .. m |-> IF j = 1 THEN list[i]
                                ELSE IF j <= i THEN list[j - 1] ELSE list[j]]
  BY <1>m, <1>3, ToFrontIs DEF Hit
<1>5. /\ list'[1] = list[i]
      /\ \A j \in 2 .. m : list'[j] = IF j <= i THEN list[j - 1] ELSE list[j]
  BY <1>4
<1>6. \A j \in 1 .. m : \E x \in 1 .. m : list'[j] = list[x]
  BY <1>5
<1>7. \A x \in 1 .. m : \E j \in 1 .. m : list'[j] = list[x]
  <2> SUFFICES ASSUME NEW x \in 1 .. m
               PROVE  \E j \in 1 .. m : list'[j] = list[x]
    OBVIOUS
  <2>1. CASE x = i
    BY <1>5, <2>1
  <2>2. CASE x < i
    <3>1. x + 1 \in 2 .. m /\ x + 1 <= i /\ (x + 1) - 1 = x
      BY <2>2
    <3>2. list'[x + 1] = list[x]
      BY <1>5, <3>1
    <3> QED BY <3>1, <3>2
  <2>3. CASE x > i
    BY <1>5, <2>3
  <2> QED BY <2>1, <2>2, <2>3
<1>8. list' \in [1 .. m -> ElemType(n + 1)] /\ Len(list') = m
  <2>1. \A a \in ElemType(n) : a \in ElemType(n + 1)
    BY DEF ElemType
  <2>2. \A j \in 1 .. m : list'[j] \in ElemType(n + 1)
    BY <1>0, <1>6, <2>1
  <2>3. list' = [j \in 1 .. m |-> list'[j]]
    BY <1>4
  <2>4. list' \in [1 .. m -> ElemType(n + 1)]
    BY <2>2, <2>3
  <2> QED BY <2>4, IsSeq
<1>9. UNCHANGED <<map, result>> /\ pc[t] = "idle"
  BY DEF Hit
<1>10. map[k] \in 1 .. n /\ promises[map[k]].key = k /\ promises[map[k]].state # "unused"
  BY <1>0, <1>m, <1>2, <1>3 DEF CInv, MapMatchesList
<1>11. /\ slot' = [slot EXCEPT ![t] = map[k]] /\ wanted' = [wanted EXCEPT ![t] = k]
       /\ lastUse' = [lastUse EXCEPT ![k] = n + 1] /\ pc' = [pc EXCEPT ![t] = "get"]
  BY <1>1 DEF Hit, FoundSlot
<1>12. map[k] \in 1 .. n + 1
  BY <1>10
<1>13. TypeOK'
  <2>1. DOMAIN map' \subseteq Keys /\ \A x \in DOMAIN map' : map'[x] \in 1 .. n + 1
    BY <1>9, <1>n DEF CInv, TypeOK
  <2> QED
    BY <1>n, <1>1, <1>8, <1>9, <1>11, <1>12, <2>1, CallKeepsTypes
<1>14. MapMatchesList'
  <2>1. DOMAIN map' = {list'[j].key : j \in 1 .. Len(list')}
    <3>1. DOMAIN map = {list[j].key : j \in 1 .. m}
      BY <1>m DEF CInv, MapMatchesList
    <3>2. {list'[j].key : j \in 1 .. m} = {list[j].key : j \in 1 .. m}
      BY <1>6, <1>7
    <3> QED BY <1>8, <1>9, <3>1, <3>2
  <2>2. \A j \in 1 .. Len(list') :
          /\ map'[list'[j].key] = list'[j].slot
          /\ promises'[list'[j].slot].key = list'[j].key
          /\ promises'[list'[j].slot].state # "unused"
    <3> SUFFICES ASSUME NEW j \in 1 .. m
                 PROVE  /\ map[list'[j].key] = list'[j].slot
                        /\ promises'[list'[j].slot].key = list'[j].key
                        /\ promises'[list'[j].slot].state # "unused"
      BY <1>8, <1>9
    <3>1. PICK x \in 1 .. m : list'[j] = list[x]
      BY <1>6
    <3>2. /\ map[list[x].key] = list[x].slot
          /\ promises[list[x].slot].key = list[x].key
          /\ promises[list[x].slot].state # "unused"
      BY <1>m DEF CInv, MapMatchesList
    <3> QED BY <3>1, <3>2, <1>0, <1>1
  <2>3. \A j, x \in 1 .. Len(list') : list'[j].key = list'[x].key => j = x
    <3>1. \A j, x \in 1 .. m : list[j].key = list[x].key => j = x
      BY <1>m DEF CInv, MapMatchesList
    <3> QED BY <1>8, <1>4, <3>1
  <2>4. Len(list') <= MaxEntries
    BY <1>m, <1>8 DEF CInv, MapMatchesList
  <2> QED
    BY <2>1, <2>2, <2>3, <2>4 DEF MapMatchesList
<1>15. LeastRecentlyUsedLast'
  <2>1. lastUse \in [Keys -> 0 .. n]
    BY <1>n DEF CInv, TypeOK
  <2>2. /\ lastUse'[k] = n + 1
        /\ \A x \in Keys : x # k => lastUse'[x] = lastUse[x]
        /\ \A x \in Keys : lastUse[x] \in 0 .. n
    BY <1>11, <2>1
  <2>3. \A x \in 1 .. m : list[x].key = k => x = i
    BY <1>m, <1>2 DEF CInv, MapMatchesList
  <2> SUFFICES ASSUME NEW a \in 1 .. m, NEW b \in 1 .. m, a < b
               PROVE  lastUse'[list'[a].key] > lastUse'[list'[b].key]
    BY <1>8 DEF LeastRecentlyUsedLast
  <2>4. PICK y \in 1 .. m : list'[b] = list[y] /\ y # i /\ y = IF b <= i THEN b - 1 ELSE b
    <3>1. b \in 2 .. m
      OBVIOUS
    <3> QED BY <1>5, <3>1
  <2>5. lastUse'[list'[b].key] = lastUse[list[y].key] /\ lastUse[list[y].key] \in 0 .. n
    BY <1>0, <2>2, <2>3, <2>4
  <2>6. CASE a = 1
    BY <1>2, <1>5, <2>2, <2>5, <2>6
  <2>7. CASE a # 1
    <3>1. PICK x \in 1 .. m : list'[a] = list[x] /\ x # i /\ x = IF a <= i THEN a - 1 ELSE a
      <4>1. a \in 2 .. m
        BY <2>7
      <4> QED BY <1>5, <4>1
    <3>2. lastUse'[list'[a].key] = lastUse[list[x].key]
      BY <1>0, <2>2, <2>3, <3>1
    <3>3. x < y
      BY <3>1, <2>4
    <3>4. lastUse[list[x].key] > lastUse[list[y].key]
      BY <3>3, <1>m DEF CInv, LeastRecentlyUsedLast
    <3> QED BY <2>5, <3>2, <3>4
  <2> QED BY <2>6, <2>7
<1>16. PendingHasLoader' /\ ReturnsWhatWasAsked' /\ ThreadInv'
  <2>1. promises'[map[k]].key = k /\ promises'[map[k]].state # "unused"
    BY <1>1, <1>10
  <2> QED
    BY <1>n, <1>p, <1>1, <1>9, <1>10, <1>11, <1>12, <2>1, CallKeepsOwners
<1> QED
  BY <1>13, <1>14, <1>15, <1>16 DEF CInv

\* push_front, element by element.
LEMMA PushFront ==
  ASSUME NEW S, NEW q \in Seq(S), NEW e \in S
  PROVE  /\ <<e>> \o q = [j \in 1 .. Len(q) + 1 |-> IF j = 1 THEN e ELSE q[j - 1]]
         /\ Len(<<e>> \o q) = Len(q) + 1
OBVIOUS

\* A miss puts the new promise in front, and the last element out if the cache
\* is full.
LEMMA MissStep ==
  ASSUME CInv, NEW t \in Threads, NEW k \in Keys, Miss(t, k)
  PROVE  CInv'
<1>n. PICK n \in Nat : n = Len(promises)
  BY Facts
<1>m. PICK m \in Nat : m = Len(list)
  BY Facts
<1>0. /\ list = [j \in 1 .. m |-> list[j]]
      /\ \A j \in 1 .. m : list[j] \in ElemType(n)
      /\ \A j \in 1 .. m : list[j].key \in Keys /\ list[j].slot \in 1 .. n
  BY <1>n, <1>m, Facts
<1>p. PICK e \in PromiseType : promises' = Append(promises, e) /\ e.key = k /\ e.state = "pending"
  BY DEF Miss, PromiseType
<1>1. /\ promises' \in Seq(PromiseType)
      /\ Len(promises') = n + 1
      /\ promises'[n + 1] = e
      /\ \A s \in 1 .. n : promises'[s] = promises[s]
  BY <1>n, <1>p, NewPromise, Facts
<1>2. PICK w \in ElemType(n + 1) : w = Elem(k, n + 1) /\ w.key = k /\ w.slot = n + 1
  <2>1. n + 1 \in 1 .. n + 1
    OBVIOUS
  <2>2. /\ Elem(k, n + 1) \in ElemType(n + 1)
        /\ Elem(k, n + 1).key = k /\ Elem(k, n + 1).slot = n + 1
    BY <2>1 DEF Elem, ElemType
  <2> QED BY <2>2
<1>3. PICK l : l = <<w>> \o list
  OBVIOUS
<1>4. l = [j \in 1 .. m + 1 |-> IF j = 1 THEN w ELSE list[j - 1]] /\ Len(l) = m + 1
  <2>1. \A a \in ElemType(n) : a \in ElemType(n + 1)
    BY DEF ElemType
  <2>2. \A j \in 1 .. m : list[j] \in ElemType(n + 1)
    BY <1>0, <2>1
  <2>3. list \in [1 .. m -> ElemType(n + 1)]
    BY <1>0, <2>2
  <2>4. list \in Seq(ElemType(n + 1))
    BY <2>3, IsSeq
  <2> QED BY <2>4, <1>m, <1>3, PushFront
<1>5. /\ l[1] = w
      /\ \A j \in 2 .. m + 1 : j - 1 \in 1 .. m /\ l[j] = list[j - 1]
      /\ \A j \in 1 .. m : l[j + 1] = list[j] /\ j + 1 \in 2 .. m + 1
  BY <1>4
<1>6. \A j \in 1 .. m + 1 : l[j] \in ElemType(n + 1) /\ l[j].key \in Keys /\ l[j].slot \in 1 .. n + 1
  <2>1. \A j \in 1 .. m + 1 : l[j] \in ElemType(n + 1)
    <3>1. \A a \in ElemType(n) : a \in ElemType(n + 1)
      BY DEF ElemType
    <3> QED BY <1>0, <1>4, <3>1
  <2> QED BY <2>1 DEF ElemType
<1>7. PICK f : f = [x \in DOMAIN map \cup {k} |-> IF x = k THEN n + 1 ELSE map[x]]
  OBVIOUS
<1>8. k \notin DOMAIN map /\ pc[t] = "idle"
  BY DEF Miss
<1>9. DOMAIN map = {list[j].key : j \in 1 .. m} /\ m <= MaxEntries
  BY <1>m DEF CInv, MapMatchesList
<1>10. DOMAIN f = {l[j].key : j \in 1 .. m + 1}
  <2>1. \A x \in DOMAIN f : \E j \in 1 .. m + 1 : x = l[j].key
    <3> SUFFICES ASSUME NEW x \in DOMAIN f PROVE \E j \in 1 .. m + 1 : x = l[j].key
      OBVIOUS
    <3>1. CASE x = k
      BY <3>1, <1>5, <1>2
    <3>2. CASE x # k
      <4>1. PICK j \in 1 .. m : x = list[j].key
        BY <3>2, <1>7, <1>9
      <4> QED BY <4>1, <1>5
    <3> QED BY <3>1, <3>2
  <2>2. \A j \in 1 .. m + 1 : l[j].key \in DOMAIN f
    <3> SUFFICES ASSUME NEW j \in 1 .. m + 1 PROVE l[j].key \in DOMAIN f
      OBVIOUS
    <3>1. CASE j = 1
      BY <3>1, <1>5, <1>2, <1>7
    <3>2. CASE j # 1
      <4>1. j \in 2 .. m + 1
        BY <3>2
      <4>2. j - 1 \in 1 .. m /\ l[j] = list[j - 1]
        BY <4>1, <1>5
      <4> QED BY <4>2, <1>7, <1>9
    <3> QED BY <3>1, <3>2
  <2> QED BY <2>1, <2>2
<1>11. \A i, j \in 1 .. m + 1 : l[i].key = l[j].key => i = j
  <2>1. \A i, j \in 1 .. m : list[i].key = list[j].key => i = j
    BY <1>m DEF CInv, MapMatchesList
  <2>2. \A j \in 2 .. m + 1 : l[j].key # k
    BY <1>5, <1>8, <1>9
  <2> SUFFICES ASSUME NEW i \in 1 .. m + 1, NEW j \in 1 .. m + 1, l[i].key = l[j].key
               PROVE  i = j
    OBVIOUS
  <2>3. CASE i = 1
    BY <2>3, <2>2, <1>5, <1>2
  <2>4. CASE j = 1
    BY <2>4, <2>2, <1>5, <1>2
  <2>5. CASE i \in 2 .. m + 1 /\ j \in 2 .. m + 1
    <3>1. i - 1 \in 1 .. m /\ j - 1 \in 1 .. m /\ list[i - 1].key = list[j - 1].key
      BY <2>5, <1>5
    <3>2. i - 1 = j - 1
      BY <3>1, <2>1
    <3> QED BY <3>2
  <2> QED BY <2>3, <2>4, <2>5
<1>12. \A j \in 1 .. m + 1 : /\ f[l[j].key] = l[j].slot
                             /\ promises'[l[j].slot].key = l[j].key
                             /\ promises'[l[j].slot].state # "unused"
  <2> SUFFICES ASSUME NEW j \in 1 .. m + 1
               PROVE  /\ f[l[j].key] = l[j].slot
                      /\ promises'[l[j].slot].key = l[j].key
                      /\ promises'[l[j].slot].state # "unused"
    OBVIOUS
  <2>1. CASE j = 1
    BY <2>1, <1>5, <1>2, <1>7, <1>1, <1>p
  <2>2. CASE j \in 2 .. m + 1
    <3>1. PICK x \in 1 .. m : l[j] = list[x]
      BY <2>2, <1>5
    <3>2. /\ map[list[x].key] = list[x].slot
          /\ promises[list[x].slot].key = list[x].key
          /\ promises[list[x].slot].state # "unused"
      BY <1>m DEF CInv, MapMatchesList
    <3>3. list[x].key \in DOMAIN map /\ list[x].key # k
      BY <1>8, <1>9
    <3> QED BY <3>1, <3>2, <3>3, <1>7, <1>0, <1>1
  <2> QED BY <2>1, <2>2
<1>13. PICK r \in {m, m + 1} :
         /\ r <= MaxEntries
         /\ list' = [j \in 1 .. r |-> l[j]]
         /\ map' = [x \in {l[j].key : j \in 1 .. r} |-> f[x]]
  <2>1. /\ OverFull(l) => /\ map' = [x \in DOMAIN f \ {EvictedKey(l)} |-> f[x]]
                          /\ list' = SubSeq(l, 1, Len(l) - 1)
        /\ ~OverFull(l) => map' = f /\ list' = l
    BY <1>1, <1>2, <1>3, <1>7 DEF Miss, PutMissing
  <2>2. CASE OverFull(l)
    <3>1. m <= MaxEntries
      BY <1>9
    <3>2. list' = [j \in 1 .. m |-> l[j]]
      <4>1. Len(l) - 1 = m
        BY <1>4
      <4>2. SubSeq(l, 1, m) = [j \in 1 .. m |-> l[j]]
        OBVIOUS
      <4> QED BY <2>1, <2>2, <4>1, <4>2
    <3>3. {l[j].key : j \in 1 .. m + 1} \ {l[m + 1].key} = {l[j].key : j \in 1 .. m}
      BY <1>11
    <3>4. map' = [x \in {l[j].key : j \in 1 .. m} |-> f[x]]
      BY <2>1, <2>2, <3>3, <1>10, <1>4 DEF EvictedKey
    <3> QED BY <3>1, <3>2, <3>4
  <2>3. CASE ~OverFull(l)
    <3>1. m + 1 <= MaxEntries
      BY <2>3, <1>4, CacheAssumption DEF OverFull
    <3>2. list' = [j \in 1 .. m + 1 |-> l[j]]
      BY <2>1, <2>3, <1>4
    <3>3. map' = [x \in {l[j].key : j \in 1 .. m + 1} |-> f[x]]
      BY <2>1, <2>3, <1>10, <1>7
    <3> QED BY <3>1, <3>2, <3>3
  <2> QED BY <2>2, <2>3
<1>14. r \in Nat /\ \A j \in 1 .. r : j \in 1 .. m + 1
  BY <1>13
<1>15. list' \in [1 .. r -> ElemType(n + 1)] /\ Len(list') = r
  <2>1. list' \in [1 .. r -> ElemType(n + 1)]
    BY <1>6, <1>13, <1>14
  <2> QED BY <2>1, <1>14, IsSeq
<1>16. \A j \in 1 .. r : list'[j] = l[j]
  BY <1>13
<1>17. MapMatchesList'
  <2>1. DOMAIN map' = {list'[j].key : j \in 1 .. Len(list')}
    BY <1>13, <1>15, <1>16
  <2>2. \A j \in 1 .. Len(list') :
          /\ map'[list'[j].key] = list'[j].slot
          /\ promises'[list'[j].slot].key = list'[j].key
          /\ promises'[list'[j].slot].state # "unused"
    BY <1>12, <1>13, <1>14, <1>15, <1>16
  <2>3. \A j, x \in 1 .. Len(list') : list'[j].key = list'[x].key => j = x
    BY <1>11, <1>14, <1>15, <1>16
  <2> QED
    BY <2>1, <2>2, <2>3, <1>13, <1>15 DEF MapMatchesList
<1>18. /\ slot' = [slot EXCEPT ![t] = n + 1] /\ wanted' = [wanted EXCEPT ![t] = k]
       /\ lastUse' = [lastUse EXCEPT ![k] = n + 1] /\ pc' = [pc EXCEPT ![t] = "load"]
       /\ UNCHANGED result
  BY <1>1 DEF Miss
<1>19. TypeOK'
  <2>1. \A x \in DOMAIN map' : x \in Keys /\ map'[x] \in 1 .. n + 1
    BY <1>6, <1>12, <1>13, <1>14
  <2>2. n + 1 \in 1 .. n + 1
    OBVIOUS
  <2> QED
    BY <1>n, <1>1, <1>14, <1>15, <1>18, <2>1, <2>2, CallKeepsTypes
<1>20. LeastRecentlyUsedLast'
  <2>1. lastUse \in [Keys -> 0 .. n]
    BY <1>n DEF CInv, TypeOK
  <2>2. /\ lastUse'[k] = n + 1
        /\ \A x \in Keys : x # k => lastUse'[x] = lastUse[x]
        /\ \A x \in Keys : lastUse[x] \in 0 .. n
    BY <1>18, <2>1
  <2> SUFFICES ASSUME NEW a \in 1 .. m + 1, NEW b \in 1 .. m + 1, a < b
               PROVE  lastUse'[l[a].key] > lastUse'[l[b].key]
    BY <1>14, <1>15, <1>16 DEF LeastRecentlyUsedLast
  <2>3. b \in 2 .. m + 1
    OBVIOUS
  <2>4. b - 1 \in 1 .. m /\ l[b] = list[b - 1] /\ list[b - 1].key # k
    BY <2>3, <1>5, <1>8, <1>9
  <2>5. lastUse'[l[b].key] = lastUse[list[b - 1].key] /\ lastUse[list[b - 1].key] \in 0 .. n
    BY <2>2, <2>4, <1>0
  <2>6. CASE a = 1
    BY <2>2, <2>5, <2>6, <1>2, <1>5
  <2>7. CASE a \in 2 .. m + 1
    <3>1. a - 1 \in 1 .. m /\ l[a] = list[a - 1] /\ list[a - 1].key # k
      BY <2>7, <1>5, <1>8, <1>9
    <3>2. lastUse'[l[a].key] = lastUse[list[a - 1].key]
      BY <2>2, <3>1, <1>0
    <3>3. lastUse[list[a - 1].key] > lastUse[list[b - 1].key]
      <4>1. \A i, j \in 1 .. m : i < j => lastUse[list[i].key] > lastUse[list[j].key]
        BY <1>m DEF CInv, LeastRecentlyUsedLast
      <4>2. a - 1 < b - 1
        OBVIOUS
      <4> QED BY <4>1, <4>2, <3>1, <2>4
    <3> QED BY <2>5, <3>2, <3>3
  <2> QED BY <2>6, <2>7
<1>21. PendingHasLoader' /\ ReturnsWhatWasAsked' /\ ThreadInv'
  <2>1. n + 1 \in 1 .. n + 1
    OBVIOUS
  <2> QED
    BY <1>n, <1>p, <1>1, <1>8, <1>18, <2>1, CallKeepsOwners
<1> QED
  BY <1>17, <1>19, <1>20, <1>21 DEF CInv

\* The promise of a thread in f() gets a value or is broken: everything else
\* keeps its promises, and nobody else was to set this one.
LEMMA SetKeeps ==
  ASSUME CInv, NEW t \in Threads, pc[t] = "load",
         NEW v \in {"ready", "broken"}, NEW c \in {"get", "idle"},
         promises' = [promises EXCEPT ![slot[t]].state = v],
         pc' = [pc EXCEPT ![t] = c],
         UNCHANGED <<list, map, slot, wanted, lastUse>>
  PROVE  /\ promises' \in Seq(PromiseType)
         /\ Len(promises') = Len(promises)
         /\ \A x \in 1 .. Len(promises) : promises'[x].key = promises[x].key
         /\ MapMatchesList' /\ LeastRecentlyUsedLast' /\ PendingHasLoader' /\ ThreadInv'
<1>n. PICK n \in Nat : n = Len(promises)
  BY Facts
<1>s. PICK s \in 1 .. n : s = slot[t]
  BY <1>n DEF CInv, ThreadInv
<1>1. /\ promises' \in Seq(PromiseType)
      /\ Len(promises') = n
      /\ promises'[s].key = promises[s].key
      /\ promises'[s].state = v
      /\ \A x \in 1 .. n : x # s => promises'[x] = promises[x]
  <2>1. promises \in Seq(PromiseType) /\ s \in 1 .. Len(promises)
    BY <1>n, Facts
  <2>2. promises[s] \in PromiseType
    BY <2>1
  <2>3. PICK e : e = [promises[s] EXCEPT !.state = v]
    OBVIOUS
  <2>4. e \in PromiseType /\ e.key = promises[s].key /\ e.state = v
    BY <2>2, <2>3 DEF PromiseType
  <2>5. promises' = [promises EXCEPT ![s] = e]
    BY <1>s, <2>3
  <2>6. promises' \in Seq(PromiseType) /\ Len(promises') = Len(promises)
    <3>1. promises \in [1 .. n -> PromiseType]
      BY <1>n, <2>1
    <3>2. promises' \in [1 .. n -> PromiseType]
      BY <3>1, <2>4, <2>5
    <3>3. PICK r \in [1 .. n -> PromiseType] : r = promises'
      BY <3>2
    <3>4. r \in Seq(PromiseType) /\ Len(r) = n
      BY IsSeq
    <3> QED BY <1>n, <3>3, <3>4
  <2>7. promises'[s] = e /\ \A x \in 1 .. n : x # s => promises'[x] = promises[x]
    BY <1>n, <2>1, <2>5
  <2> QED
    BY <1>n, <2>4, <2>6, <2>7
<1>2. \A x \in 1 .. n : promises'[x].key = promises[x].key
  BY <1>1
<1>3. \A x \in 1 .. n : promises[x].state # "unused" => promises'[x].state # "unused"
  BY <1>1
<1>4. /\ pc'[t] = c /\ c # "load"
      /\ \A u \in Threads : u # t => pc'[u] = pc[u]
  BY DEF CInv, TypeOK
<1>5. MapMatchesList'
  <2>1. \A i \in 1 .. Len(list) :
          /\ list[i].slot \in 1 .. n
          /\ map[list[i].key] = list[i].slot
          /\ promises[list[i].slot].key = list[i].key
          /\ promises[list[i].slot].state # "unused"
    BY <1>n, Facts DEF CInv, MapMatchesList
  <2>2. \A i \in 1 .. Len(list) :
          /\ promises'[list[i].slot].key = list[i].key
          /\ promises'[list[i].slot].state # "unused"
    BY <1>2, <1>3, <2>1
  <2> QED
    BY <2>1, <2>2 DEF CInv, MapMatchesList
<1>6. LeastRecentlyUsedLast'
  BY DEF CInv, LeastRecentlyUsedLast
<1>7. \A u \in Threads : pc'[u] = "load" => u # t /\ pc[u] = "load" /\ slot[u] # s
  BY <1>4, <1>s DEF CInv, ThreadInv
<1>8. ThreadInv'
  <2>1. ASSUME NEW u \in Threads, pc'[u] # "idle"
        PROVE  slot[u] \in 1 .. n /\ promises'[slot[u]].state # "unused"
    <3>1. pc[u] # "idle"
      BY <2>1, <1>4
    <3>2. slot[u] \in 1 .. n /\ promises[slot[u]].state # "unused"
      BY <3>1, <1>n DEF CInv, ThreadInv
    <3> QED BY <3>2, <1>3
  <2>2. ASSUME NEW u \in Threads, pc'[u] = "load"
        PROVE  promises'[slot[u]].state = "pending"
    <3>1. slot[u] \in 1 .. n /\ promises[slot[u]].state = "pending"
      BY <2>2, <1>7, <1>n DEF CInv, ThreadInv
    <3> QED BY <2>2, <3>1, <1>7, <1>1
  <2>3. \A u, w \in Threads : pc'[u] = "load" /\ pc'[w] = "load" /\ slot[u] = slot[w] => u = w
    BY <1>7 DEF CInv, ThreadInv
  <2> QED
    BY <2>1, <2>2, <2>3, <1>1 DEF ThreadInv
<1>9. PendingHasLoader'
  <2> SUFFICES ASSUME NEW x \in 1 .. n, promises'[x].state = "pending"
               PROVE  \E u \in Threads : pc'[u] = "load" /\ slot[u] = x
    BY <1>1, <1>8 DEF PendingHasLoader, ThreadInv
  <2>1. x # s /\ promises[x].state = "pending"
    BY <1>1
  <2>2. PICK u \in Threads : pc[u] = "load" /\ slot[u] = x
    BY <2>1, <1>n DEF CInv, PendingHasLoader
  <2> QED BY <2>1, <2>2, <1>s, <1>4
<1> QED
  BY <1>n, <1>1, <1>2, <1>5, <1>6, <1>8, <1>9

\* The type invariant of the next state, when the number of promises stays.
LEMMA StepKeepsTypes ==
  ASSUME CInv, NEW t \in Threads, NEW c \in {"get", "idle"},
         promises' \in Seq(PromiseType), Len(promises') = Len(promises),
         pc' = [pc EXCEPT ![t] = c],
         result' \in [Threads -> [status : {"none", "value", "threw", "brokenPromise"},
                                  key : Keys]],
         UNCHANGED <<list, map, slot, wanted, lastUse>>
  PROVE  TypeOK'
<1>1. pc' \in [Threads -> {"idle", "load", "get"}]
  BY DEF CInv, TypeOK
<1> QED
  BY <1>1 DEF CInv, TypeOK, PromiseType

\* set_value(f()).
LEMMA LoadStep ==
  ASSUME CInv, NEW t \in Threads, Load(t)
  PROVE  CInv'
<1>1. /\ pc[t] = "load" /\ promises' = [promises EXCEPT ![slot[t]].state = "ready"]
      /\ pc' = [pc EXCEPT ![t] = "get"] /\ UNCHANGED <<list, map, slot, wanted, result, lastUse>>
  BY DEF Load, OwnSlot
<1>2. /\ promises' \in Seq(PromiseType)
      /\ Len(promises') = Len(promises)
      /\ \A x \in 1 .. Len(promises) : promises'[x].key = promises[x].key
      /\ MapMatchesList' /\ LeastRecentlyUsedLast' /\ PendingHasLoader' /\ ThreadInv'
  BY <1>1, SetKeeps
<1>3. result' \in [Threads -> [status : {"none", "value", "threw", "brokenPromise"}, key : Keys]]
  BY <1>1 DEF CInv, TypeOK
<1>4. TypeOK'
  BY <1>1, <1>2, <1>3, StepKeepsTypes
<1>5. ReturnsWhatWasAsked'
  <2> SUFFICES ASSUME NEW u \in Threads
               PROVE  /\ pc'[u] # "idle" => promises'[slot[u]].key = wanted[u]
                      /\ result[u].status = "value" /\ pc'[u] = "idle" => result[u].key = wanted[u]
    BY <1>1 DEF ReturnsWhatWasAsked
  <2>1. (pc'[u] = "idle") = (pc[u] = "idle")
    BY <1>1 DEF CInv, TypeOK
  <2>2. pc[u] # "idle" => slot[u] \in 1 .. Len(promises) /\ promises[slot[u]].key = wanted[u]
    BY DEF CInv, ThreadInv, ReturnsWhatWasAsked
  <2> QED BY <2>1, <2>2, <1>2 DEF CInv, ReturnsWhatWasAsked
<1> QED
  BY <1>2, <1>4, <1>5 DEF CInv

\* f() throws.
LEMMA LoadFailsStep ==
  ASSUME CInv, NEW t \in Threads, LoadFails(t)
  PROVE  CInv'
<1>1. /\ pc[t] = "load" /\ promises' = [promises EXCEPT ![slot[t]].state = "broken"]
      /\ pc' = [pc EXCEPT ![t] = "idle"] /\ UNCHANGED <<list, map, slot, wanted, lastUse>>
      /\ result' = [result EXCEPT ![t] = [status |-> "threw", key |-> wanted[t]]]
  BY DEF LoadFails
<1>2. /\ promises' \in Seq(PromiseType)
      /\ Len(promises') = Len(promises)
      /\ \A x \in 1 .. Len(promises) : promises'[x].key = promises[x].key
      /\ MapMatchesList' /\ LeastRecentlyUsedLast' /\ PendingHasLoader' /\ ThreadInv'
  BY <1>1, SetKeeps
<1>3. result' \in [Threads -> [status : {"none", "value", "threw", "brokenPromise"}, key : Keys]]
  <2>1. wanted[t] \in Keys
    BY DEF CInv, TypeOK
  <2> QED BY <1>1, <2>1 DEF CInv, TypeOK
<1>4. TypeOK'
  BY <1>1, <1>2, <1>3, StepKeepsTypes
<1>5. ReturnsWhatWasAsked'
  <2> SUFFICES ASSUME NEW u \in Threads
               PROVE  /\ pc'[u] # "idle" => promises'[slot[u]].key = wanted[u]
                      /\ result'[u].status = "value" /\ pc'[u] = "idle" => result'[u].key = wanted[u]
    BY <1>1 DEF ReturnsWhatWasAsked
  <2>1. CASE u = t
    <3>1. pc'[u] = "idle" /\ result'[u].status = "threw"
      BY <1>1, <2>1 DEF CInv, TypeOK
    <3> QED BY <3>1
  <2>2. CASE u # t
    <3>1. pc'[u] = pc[u] /\ result'[u] = result[u]
      BY <1>1, <2>2 DEF CInv, TypeOK
    <3>2. pc[u] # "idle" => slot[u] \in 1 .. Len(promises) /\ promises[slot[u]].key = wanted[u]
      BY DEF CInv, ThreadInv, ReturnsWhatWasAsked
    <3> QED BY <3>1, <3>2, <1>2 DEF CInv, ReturnsWhatWasAsked
  <2> QED BY <2>1, <2>2
<1> QED
  BY <1>2, <1>4, <1>5 DEF CInv

\* The future is ready: the call returns its value, or throws what it holds.
LEMMA GetStep ==
  ASSUME CInv, NEW t \in Threads, Get(t)
  PROVE  CInv'
<1>1. PICK v \in {"value", "brokenPromise"} :
      /\ pc[t] = "get"
      /\ pc' = [pc EXCEPT ![t] = "idle"]
      /\ UNCHANGED <<list, map, promises, slot, wanted, lastUse>>
      /\ result' = [result EXCEPT ![t] = [status |-> v, key |-> promises[slot[t]].key]]
  BY DEF Get
<1>2. promises[slot[t]].key = wanted[t] /\ wanted[t] \in Keys
  BY <1>1 DEF CInv, ReturnsWhatWasAsked, TypeOK
<1>3. result' \in [Threads -> [status : {"none", "value", "threw", "brokenPromise"}, key : Keys]]
  BY <1>1, <1>2 DEF CInv, TypeOK
<1>4. TypeOK'
  <2>1. promises' \in Seq(PromiseType) /\ Len(promises') = Len(promises)
    BY <1>1, Facts
  <2> QED BY <1>1, <1>3, <2>1, StepKeepsTypes
<1>5. /\ pc'[t] = "idle" /\ result'[t].key = wanted[t]
      /\ \A u \in Threads : u # t => pc'[u] = pc[u] /\ result'[u] = result[u]
      /\ \A u \in Threads : (pc'[u] = "load") = (pc[u] = "load")
      /\ \A u \in Threads : pc'[u] # "idle" => pc[u] # "idle"
  BY <1>1, <1>2 DEF CInv, TypeOK
<1>6. ReturnsWhatWasAsked'
  BY <1>1, <1>5 DEF CInv, ReturnsWhatWasAsked
<1>7. MapMatchesList' /\ LeastRecentlyUsedLast'
  BY <1>1 DEF CInv, MapMatchesList, LeastRecentlyUsedLast
<1>8. PendingHasLoader'
  BY <1>1, <1>5 DEF CInv, PendingHasLoader
<1>9. ThreadInv'
  BY <1>1, <1>5 DEF CInv, ThreadInv
<1> QED
  BY <1>4, <1>6, <1>7, <1>8, <1>9 DEF CInv

\* A step that changes nothing.
LEMMA StutterStep ==
  ASSUME CInv, UNCHANGED vars
  PROVE  CInv'
<1>1. TypeOK'
  BY DEF vars, CInv, TypeOK
<1>2. MapMatchesList' /\ LeastRecentlyUsedLast'
  BY DEF vars, CInv, MapMatchesList, LeastRecentlyUsedLast
<1>3. PendingHasLoader' /\ ReturnsWhatWasAsked' /\ ThreadInv'
  BY DEF vars, CInv, PendingHasLoader, ReturnsWhatWasAsked, ThreadInv
<1> QED
  BY <1>1, <1>2, <1>3 DEF CInv

-----------------------------------------------------------------------------
\* CInv holds in every reachable state of the cache, however many threads call
\* getOrPut for however many keys, also when f() throws.
THEOREM CacheInvariance == Spec => []CInv
<1>1. Init => CInv
  BY InitCInv
<1>2. CInv /\ [Next]_vars => CInv'
  <2> SUFFICES ASSUME CInv, [Next]_vars PROVE CInv'
    OBVIOUS
  <2>1. ASSUME NEW t \in Threads, Call(t) PROVE CInv'
    BY <2>1, HitStep, MissStep DEF Call
  <2>2. ASSUME NEW t \in Threads, Step(t) PROVE CInv'
    BY <2>2, LoadStep, LoadFailsStep, GetStep DEF Step
  <2>3. CASE Finished
    BY <2>3, StutterStep DEF Finished
  <2>4. CASE UNCHANGED vars
    BY <2>4, StutterStep
  <2> QED
    BY <2>1, <2>2, <2>3, <2>4 DEF Next
<1> QED
  BY <1>1, <1>2, PTL DEF Spec

\* lru_cache's list and map never disagree, and hold at most maxEntries keys,
\* each with the future of a promise for that key.
THEOREM CacheMapMatchesList == Spec => []MapMatchesList
<1>1. CInv => MapMatchesList
  BY DEF CInv
<1> QED
  BY <1>1, CacheInvariance, PTL

\* What putMissing evicts is the key whose last use is the oldest.
THEOREM CacheEvictsOldest == Spec => []LeastRecentlyUsedLast
<1>1. CInv => LeastRecentlyUsedLast
  BY DEF CInv
<1> QED
  BY <1>1, CacheInvariance, PTL

\* A pending promise has one thread in f() for it, so that no thread waits in
\* get() for a value nobody computes.
THEOREM CacheNoLostWaiter == Spec => []PendingHasLoader
<1>1. CInv => PendingHasLoader
  BY DEF CInv
<1> QED
  BY <1>1, CacheInvariance, PTL

\* getOrPut returns the value of the key it was called with, whatever is
\* evicted and put again between the lookup and the return.
THEOREM CacheReturnsWhatWasAsked == Spec => []ReturnsWhatWasAsked
<1>1. CInv => ReturnsWhatWasAsked
  BY DEF CInv
<1> QED
  BY <1>1, CacheInvariance, PTL
=============================================================================
