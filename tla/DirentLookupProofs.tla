-------------------------- MODULE DirentLookupProofs --------------------------
(***************************************************************************)
(* Proofs about DirentLookup: LookupInv is an invariant for every table,   *)
(* every order of keys and every number of threads, and with it the        *)
(* answers of find and of the namespace boundaries are right.              *)
(***************************************************************************)
EXTENDS DirentLookupInvariant, SequenceTheorems, WellFoundedInduction, TLAPS

\* The least number principle, for a set of numbers.
LEMMA NatMin == ASSUME NEW T, T \subseteq Nat, T # {} PROVE \E x \in T : \A y \in T : x <= y
<1>1. PICK x \in T : \A y \in T : ~ (<<y, x>> \in OpToRel(<, Nat))
  BY WFMin, NatLessThanWellFounded
<1>2. \A y \in T : ~ (y < x)
  BY <1>1 DEF OpToRel
<1> QED
  BY <1>2

\* The middle of a range is in it; of a range of one it is the begin.
LEMMA MiddleFacts ==
  ASSUME NEW l \in Nat, NEW u \in Nat, l < u
  PROVE  /\ Middle(l, u) \in Nat /\ l <= Middle(l, u) /\ Middle(l, u) < u
         /\ Middle(l, u) = l => u = l + 1
         /\ u - l > 1 => l < Middle(l, u)
BY DEF Middle

\* What each step of the constructor needs of the table and the grid.
LEMMA TableFacts ==
  ASSUME table \in Seq(Keys)
  PROVE  /\ Count \in Nat /\ Step \in Nat /\ Step >= 1
         /\ \A i \in 0 .. Count - 1 : KeyOf(i) \in Keys
<1>1. Count \in Nat
  BY DEF Count
<1>2. Count \div CacheEntryCount \in Int
  BY <1>1, LookupAssumption
<1>3. Step \in Nat /\ Step >= 1
  BY <1>1, <1>2 DEF Step
<1>4. \A i \in 0 .. Count - 1 : KeyOf(i) \in Keys
  BY DEF KeyOf, Count
<1> QED
  BY <1>1, <1>3, <1>4

\* The order of keys, with equality.
LEMMA OrderFacts ==
  /\ \A a, b, c \in Keys : /\ AtMost(a, b) /\ AtMost(b, c) => AtMost(a, c)
                           /\ AtMost(a, b) /\ Less(b, c) => Less(a, c)
                           /\ Less(a, b) /\ AtMost(b, c) => Less(a, c)
  /\ \A a, b \in Keys : /\ ~ (Less(a, b) /\ AtMost(b, a)) /\ (~ AtMost(a, b) <=> Less(b, a))
                        /\ AtMost(a, b) => Ns(a) <= Ns(b)
                        /\ Ns(a) \in Int
BY KeyAssumption DEF AtMost

-----------------------------------------------------------------------------
(* The cache *)

CacheEntry == [idx : Nat, dirent : Nat]

\* Taking an element out of a list keeps the others.
LEMMA RemoveAtFacts ==
  ASSUME NEW S, NEW c \in Seq(S), NEW k \in 1 .. Len(c)
  PROVE  /\ RemoveAt(c, k) \in Seq(S)
         /\ \A j \in 1 .. Len(RemoveAt(c, k)) : \E i \in 1 .. Len(c) : RemoveAt(c, k)[j] = c[i]
<1>0. Len(c) \in Nat /\ \A i \in 1 .. Len(c) : c[i] \in S
  OBVIOUS
<1>1. PICK p \in Seq(S) : p = SubSeq(c, 1, k - 1) /\ Len(p) = k - 1 /\ \A j \in 1 .. k - 1 : p[j] = c[j]
  <2>1. \A i \in 1 .. k - 1 : c[i] \in S
    BY <1>0
  <2>2. /\ SubSeq(c, 1, k - 1) \in Seq(S)
        /\ Len(SubSeq(c, 1, k - 1)) = IF 1 <= k - 1 THEN (k - 1) - 1 + 1 ELSE 0
        /\ \A i \in 1 .. (k - 1) - 1 + 1 : SubSeq(c, 1, k - 1)[i] = c[1 + i - 1]
    BY <2>1, SubSeqProperties
  <2>3. \A i \in 1 .. k - 1 : i \in 1 .. (k - 1) - 1 + 1 /\ 1 + i - 1 = i
    OBVIOUS
  <2>4. Len(SubSeq(c, 1, k - 1)) = k - 1
    BY <2>2
  <2>5. \A i \in 1 .. k - 1 : SubSeq(c, 1, k - 1)[i] = c[i]
    BY <2>2, <2>3, Zenon
  <2> QED
    BY <2>2, <2>4, <2>5, Zenon
<1>2. PICK q \in Seq(S) : q = SubSeq(c, k + 1, Len(c)) /\ Len(q) = Len(c) - k
                          /\ \A j \in 1 .. Len(c) - k : q[j] = c[k + j]
  <2>1. \A i \in k + 1 .. Len(c) : c[i] \in S
    BY <1>0
  <2>2. /\ SubSeq(c, k + 1, Len(c)) \in Seq(S)
        /\ Len(SubSeq(c, k + 1, Len(c))) = IF k + 1 <= Len(c) THEN Len(c) - (k + 1) + 1 ELSE 0
        /\ \A i \in 1 .. Len(c) - (k + 1) + 1 : SubSeq(c, k + 1, Len(c))[i] = c[(k + 1) + i - 1]
    BY <1>0, <2>1, SubSeqProperties
  <2>3. \A i \in 1 .. Len(c) - k : i \in 1 .. Len(c) - (k + 1) + 1 /\ (k + 1) + i - 1 = k + i
    BY <1>0
  <2>4. Len(SubSeq(c, k + 1, Len(c))) = Len(c) - k
    BY <1>0, <2>2
  <2>5. \A i \in 1 .. Len(c) - k : SubSeq(c, k + 1, Len(c))[i] = c[k + i]
    BY <2>2, <2>3, Zenon
  <2> QED
    BY <2>2, <2>4, <2>5, Zenon
<1>3. RemoveAt(c, k) = p \o q
  BY <1>1, <1>2 DEF RemoveAt
<1>4. /\ p \o q \in Seq(S)
      /\ Len(p \o q) = Len(p) + Len(q)
      /\ \A i \in 1 .. Len(p) + Len(q) : (p \o q)[i] = IF i <= Len(p) THEN p[i] ELSE q[i - Len(p)]
  BY ConcatProperties
<1>5. ASSUME NEW j \in 1 .. Len(p \o q) PROVE \E i \in 1 .. Len(c) : (p \o q)[j] = c[i]
  <2>1. j \in 1 .. (k - 1) + (Len(c) - k)
    BY <1>1, <1>2, <1>4
  <2>2. CASE j <= k - 1
    BY <1>0, <1>1, <1>2, <1>4, <2>1, <2>2
  <2>3. CASE j > k - 1
    <3>1. (p \o q)[j] = q[j - (k - 1)] /\ j - (k - 1) \in 1 .. Len(c) - k
      BY <1>0, <1>1, <1>2, <1>4, <2>1, <2>3
    <3>2. k + (j - (k - 1)) \in 1 .. Len(c)
      BY <1>0, <2>1, <2>3
    <3> QED
      BY <1>2, <3>1, <3>2
  <2> QED
    BY <2>1, <2>2, <2>3
<1> QED
  BY <1>3, <1>4, <1>5

\* What is in the cache after a put was there before, or is what was put.
LEMMA PutFacts ==
  ASSUME NEW c \in Seq(CacheEntry), NEW i \in Nat, NEW d \in Nat
  PROVE  /\ Put(c, i, d) \in Seq(CacheEntry)
         /\ \A k \in 1 .. Len(Put(c, i, d)) :
              \/ Put(c, i, d)[k] = [idx |-> i, dirent |-> d]
              \/ \E j \in 1 .. Len(c) : Put(c, i, d)[k] = c[j]
<1>1. PICK e \in CacheEntry : e = [idx |-> i, dirent |-> d]
  BY DEF CacheEntry
<1>2. PICK w : w = Without(c, i)
  OBVIOUS
<1>3. w \in Seq(CacheEntry) /\ \A k \in 1 .. Len(w) : \E j \in 1 .. Len(c) : w[k] = c[j]
  <2>1. CASE \E k \in 1 .. Len(c) : c[k].idx = i
    <3>1. PICK k \in 1 .. Len(c) : w = RemoveAt(c, k)
      BY <1>2, <2>1 DEF Without
    <3> QED
      BY <3>1, RemoveAtFacts
  <2>2. CASE ~ \E k \in 1 .. Len(c) : c[k].idx = i
    BY <1>2, <2>2 DEF Without
  <2> QED
    BY <2>1, <2>2
<1>4. PICK y : y = <<e>> \o w
  OBVIOUS
<1>5. /\ y \in Seq(CacheEntry) /\ Len(y) = Len(w) + 1 /\ y[1] = e
      /\ \A k \in 2 .. Len(y) : y[k] = w[k - 1]
  BY <1>3, <1>4
<1>6. \A k \in 1 .. Len(y) : y[k] = e \/ \E j \in 1 .. Len(c) : y[k] = c[j]
  <2>1. ASSUME NEW k \in 2 .. Len(y) PROVE \E j \in 1 .. Len(c) : y[k] = c[j]
    <3>1. y[k] = w[k - 1] /\ k - 1 \in 1 .. Len(w)
      BY <1>3, <1>5
    <3> QED
      BY <1>3, <3>1
  <2>2. \A k \in 1 .. Len(y) : k = 1 \/ k \in 2 .. Len(y)
    BY <1>5
  <2> QED
    BY <1>5, <2>1, <2>2
<1>7. PICK z : z = Evict(y)
  OBVIOUS
<1>8. z \in Seq(CacheEntry) /\ Len(z) <= Len(y) /\ \A k \in 1 .. Len(z) : z[k] = y[k] /\ k \in 1 .. Len(y)
  <2>1. CASE Len(y) > CacheSize
    <3>1. z = SubSeq(y, 1, Len(y) - 1) /\ Len(y) - 1 \in Nat
      BY <1>3, <1>5, <1>7, <2>1, AccessorAssumption DEF Evict
    <3> QED
      BY <1>5, <3>1
  <2>2. CASE ~ (Len(y) > CacheSize)
    BY <1>5, <1>7, <2>2 DEF Evict
  <2> QED
    BY <2>1, <2>2
<1>9. z = Put(c, i, d)
  BY <1>1, <1>2, <1>4, <1>7 DEF Put
<1> QED
  BY <1>1, <1>6, <1>8, <1>9

\* What CacheInv says of the list c.
CacheHolds(c) == /\ c \in Seq(CacheEntry)
                 /\ \A k \in 1 .. Len(c) : c[k].dirent = c[k].idx /\ c[k].idx < Count

LEMMA CacheInvHolds == CacheInv <=> CacheHolds(m_direntCache)
BY DEF CacheInv, CacheHolds, CacheEntry

\* A put of dirent i for index i keeps a list right.
LEMMA PutHolds == ASSUME NEW c, CacheHolds(c), NEW i \in Nat, i < Count PROVE CacheHolds(Put(c, i, i))
<1>1. c \in Seq(CacheEntry)
  BY DEF CacheHolds
<1>2. PICK d : d = Put(c, i, i)
  OBVIOUS
<1>3. /\ d \in Seq(CacheEntry)
      /\ \A k \in 1 .. Len(d) : d[k] = [idx |-> i, dirent |-> i] \/ \E j \in 1 .. Len(c) : d[k] = c[j]
  BY <1>1, <1>2, PutFacts
<1>4. \A k \in 1 .. Len(d) : d[k].dirent = d[k].idx /\ d[k].idx < Count
  BY <1>3 DEF CacheHolds
<1> QED
  BY <1>2, <1>3, <1>4 DEF CacheHolds

LEMMA PutKeeps ==
  ASSUME CacheInv, table' = table, NEW i \in Nat, i < Count, m_direntCache' = Put(m_direntCache, i, i)
  PROVE  CacheInv'
<1>1. PICK d : d = Put(m_direntCache, i, i)
  OBVIOUS
<1>2. CacheHolds(d)
  BY <1>1, CacheInvHolds, PutHolds
<1>3. Count' = Count
  BY DEF Count
<1> QED
  BY <1>1, <1>2, <1>3 DEF CacheInv, CacheHolds, CacheEntry

-----------------------------------------------------------------------------
(* Frames: nobody changes the table *)

\* What is said of the table alone stays true.
LEMMA TableFixed ==
  ASSUME table' = table
  PROVE  /\ Count' = Count /\ Step' = Step
         /\ \A i : KeyOf(i)' = KeyOf(i)
         /\ \A e : Brackets(e)' <=> Brackets(e)
         /\ \A c : /\ FindBounds(c)' <=> FindBounds(c)
                   /\ FindAnswer(c)' <=> FindAnswer(c)
                   /\ NamespaceBounds(c)' <=> NamespaceBounds(c)
         /\ \A ch, i : Boundary(ch, i)' <=> Boundary(ch, i)
BY DEF Count, Step, KeyOf, Brackets, FindBounds, FindAnswer, NamespaceBounds, Boundary

\* A call is what it was, once the grid is there; before there is none.
LEMMA CallFixed ==
  ASSUME table' = table, Built => Built', NEW c, NEW a, CallOf(c, a),
         Built' => Built \/ a.pc = "idle"
  PROVE  CallOf(c, a)'
<1>1. /\ Count' = Count
      /\ FindBounds(c)' <=> FindBounds(c)
      /\ FindAnswer(c)' <=> FindAnswer(c)
      /\ NamespaceBounds(c)' <=> NamespaceBounds(c)
      /\ Boundary(c.ch, c.index)' <=> Boundary(c.ch, c.index)
  BY TableFixed
<1> QED
  BY <1>1 DEF CallOf, Waiting

\* Calls neither change the grid nor, but for the boundaries, what is cached.
LEMMA GridFixed ==
  ASSUME GridInv, UNCHANGED <<table, entries, next>>
  PROVE  GridInv' /\ (Built' <=> Built)
<1>1. /\ Count' = Count /\ Step' = Step
      /\ \A i : KeyOf(i)' = KeyOf(i)
      /\ \A e : Brackets(e)' <=> Brackets(e)
  BY TableFixed
<1>2. Built' <=> Built
  BY <1>1 DEF Built
<1> QED
  BY <1>1, <1>2 DEF GridInv

LEMMA ConstructFixed ==
  ASSUME ConstructInv, UNCHANGED <<table, next, got>>,
         ~ Built => \A s \in Threads : s # Opener => acc'[s].pc = "idle"
  PROVE  ConstructInv'
<1>1. Count' = Count /\ Step' = Step /\ \A i : KeyOf(i)' = KeyOf(i)
  BY TableFixed
<1>2. Built' <=> Built
  BY <1>1 DEF Built
<1>3. \A g \in got' : g.idx \in 0 .. Count' - 1 /\ g.key = KeyOf(g.idx)'
  BY <1>1 DEF ConstructInv
<1> QED
  BY <1>2, <1>3 DEF ConstructInv

LEMMA CacheFixed == ASSUME CacheInv, UNCHANGED <<table, m_direntCache>> PROVE CacheInv'
BY DEF CacheInv, Count

LEMMA BoundariesFixed ==
  ASSUME BoundaryCacheInv, UNCHANGED <<table, namespaceBoundaryCache>>
  PROVE  BoundaryCacheInv'
<1>1. Count' = Count /\ \A ch, i : Boundary(ch, i)' <=> Boundary(ch, i)
  BY TableFixed
<1> QED
  BY <1>1 DEF BoundaryCacheInv

\* A step of thread t in its own call: it remains to look at that call.
LEMMA OneThread ==
  ASSUME LInv, UNCHANGED <<table, m_direntCache, m_bufferMutex, m_buffer, entries, next, got>>,
         NEW t \in Threads, Built \/ call[t].op # "none", NEW c \in CallType, NEW a,
         call' = [call EXCEPT ![t] = c], acc' = [acc EXCEPT ![t] = a],
         CallOf(c, a), AccessOf(t, a)
  PROVE  CacheInv' /\ AccessInv' /\ GridInv' /\ ConstructInv' /\ CallsInv'
<1>b. Built
  BY DEF LInv, CallsInv, CallOf
<1>1. CacheInv' /\ GridInv' /\ (Built' <=> Built)
  BY CacheFixed, GridFixed DEF LInv
<1>2. /\ acc' = [s \in Threads |-> acc'[s]] /\ acc'[t] = a
      /\ \A s \in Threads : s # t => acc'[s] = acc[s]
  <2>1. acc = [s \in Threads |-> acc[s]]
    BY DEF LInv, AccessInv
  <2>2. DOMAIN acc = Threads
    BY <2>1
  <2> QED
    BY <2>1, <2>2
<1>3. AccessInv'
  <2>1. Count' = Count
    BY TableFixed
  <2>2. \A s, b : AccessOf(s, b)' <=> AccessOf(s, b)
    BY <2>1 DEF AccessOf
  <2>3. \A s \in Threads : AccessOf(s, acc[s])
    BY DEF LInv, AccessInv
  <2>4. \A s \in Threads : AccessOf(s, acc'[s])
    BY <1>2, <2>3
  <2>5. \A s \in Threads : AccessOf(s, acc[s])'
    BY <2>1, <2>4 DEF AccessOf
  <2> QED
    BY <1>2, <2>5 DEF AccessInv
<1>4. /\ call' \in [Threads -> CallType] /\ call'[t] = c
      /\ \A s \in Threads : s # t => call'[s] = call[s]
  BY DEF LInv, CallsInv
<1>5. \A s \in Threads : CallOf(call'[s], acc'[s])
  BY <1>2, <1>4 DEF LInv, CallsInv
<1>6. \A s \in Threads : CallOf(call[s], acc[s])'
  <2>1. \A d : /\ FindBounds(d)' <=> FindBounds(d)
               /\ FindAnswer(d)' <=> FindAnswer(d)
               /\ NamespaceBounds(d)' <=> NamespaceBounds(d)
    BY TableFixed
  <2>2. Count' = Count /\ \A ch, i : Boundary(ch, i)' <=> Boundary(ch, i)
    BY TableFixed
  <2>3. ASSUME NEW d, NEW b, d = call', b = acc', NEW s \in Threads, CallOf(d[s], b[s]) PROVE CallOf(call[s], acc[s])'
    <3>1. CallOf(d[s], b[s])'
      BY <1>1, <2>3, CallFixed
    <3> QED
      BY <2>3, <3>1
  <2> QED
    BY <1>5, <2>3
<1>7. ConstructInv'
  BY <1>b, ConstructFixed DEF LInv
<1> QED
  BY <1>1, <1>3, <1>4, <1>6, <1>7 DEF CallsInv

-----------------------------------------------------------------------------
(* getDirent *)

\* A step of thread t inside getDirent: it goes on with the same index, and the
\* buffer changes only when no other thread uses it.
LEMMA OneAccess ==
  ASSUME LInv, UNCHANGED <<table, lookupVars>>, CacheInv',
         NEW t \in Threads, NEW a, acc' = [acc EXCEPT ![t] = a],
         a.idx = acc[t].idx, a.pc # "idle", acc[t].pc # "idle", AccessOf(t, a)',
         \/ UNCHANGED <<m_bufferMutex, m_buffer>>
         \/ \A s \in Threads : s # t => acc[s].pc \notin {"read", "init"}
  PROVE  LInv'
<1>1. GridInv' /\ (Built' <=> Built) /\ BoundaryCacheInv'
  BY GridFixed, BoundariesFixed DEF LInv, lookupVars
<1>2. /\ acc' = [s \in Threads |-> acc'[s]] /\ acc'[t] = a
      /\ \A s \in Threads : s # t => acc'[s] = acc[s]
  <2>1. acc = [s \in Threads |-> acc[s]]
    BY DEF LInv, AccessInv
  <2>2. DOMAIN acc = Threads
    BY <2>1
  <2> QED
    BY <2>1, <2>2
<1>3. AccessInv'
  <2>1. Count' = Count
    BY TableFixed
  <2>2. ASSUME NEW s \in Threads, s # t, NEW b, b = acc[s] PROVE AccessOf(s, b)'
    <3>1. AccessOf(s, b)
      BY <2>2 DEF LInv, AccessInv
    <3> QED
      BY <2>1, <2>2, <3>1 DEF AccessOf
  <2>3. \A s \in Threads : AccessOf(s, acc[s])'
    <3>1. ASSUME NEW s \in Threads, NEW b, b = acc'[s] PROVE AccessOf(s, b)'
      BY <1>2, <2>2, <3>1
    <3> QED
      BY <3>1
  <2> QED
    BY <1>2, <2>3 DEF AccessInv
<1>4. CallsInv'
  <2>1. call' = call
    BY DEF lookupVars
  <2>2. ASSUME NEW s \in Threads, NEW c, NEW b, c = call[s], b = acc'[s] PROVE CallOf(c, b)
    <3>1. CallOf(c, acc[s])
      BY <2>2 DEF LInv, CallsInv
    <3>2. CASE s = t
      BY <1>2, <2>2, <3>1, <3>2 DEF CallOf
    <3>3. CASE s # t
      BY <1>2, <2>2, <3>1, <3>3
    <3> QED
      BY <3>2, <3>3
  <2>3. ASSUME NEW s \in Threads, NEW c, NEW b, c = call[s], b = acc'[s] PROVE CallOf(c, b)'
    BY <1>1, <2>2, <2>3, CallFixed
  <2>4. \A s \in Threads : CallOf(call[s], acc[s])'
    BY <2>1, <2>3
  <2> QED
    BY <2>1, <2>4 DEF LInv, CallsInv
<1>5. ConstructInv'
  <2>1. ~ Built => \A s \in Threads : s # Opener => acc'[s].pc = "idle"
    BY <1>2 DEF LInv, ConstructInv
  <2> QED
    BY <2>1, ConstructFixed DEF LInv, lookupVars
<1> QED
  BY <1>1, <1>3, <1>4, <1>5 DEF LInv

\* What thread t does in getDirent, field by field.
FieldUpdates(t, b) ==
  \A x, y :
    /\ [acc EXCEPT ![t].pc = x]
         = [acc EXCEPT ![t] = [pc |-> x, idx |-> b.idx, bufferSize |-> b.bufferSize, dirent |-> b.dirent]]
    /\ [acc EXCEPT ![t].pc = x, ![t].dirent = y]
         = [acc EXCEPT ![t] = [pc |-> x, idx |-> b.idx, bufferSize |-> b.bufferSize, dirent |-> y]]
    /\ [acc EXCEPT ![t].pc = x, ![t].bufferSize = y]
         = [acc EXCEPT ![t] = [pc |-> x, idx |-> b.idx, bufferSize |-> y, dirent |-> b.dirent]]

LEMMA AccessUpdate ==
  ASSUME NEW t \in Threads, NEW b, b = acc[t], acc = [s \in Threads |-> acc[s]],
         b = [pc |-> b.pc, idx |-> b.idx, bufferSize |-> b.bufferSize, dirent |-> b.dirent]
  PROVE  FieldUpdates(t, b)
<1> SUFFICES ASSUME NEW x, NEW y
             PROVE  /\ [acc EXCEPT ![t].pc = x]
                         = [acc EXCEPT ![t] = [pc |-> x, idx |-> b.idx, bufferSize |-> b.bufferSize, dirent |-> b.dirent]]
                    /\ [acc EXCEPT ![t].pc = x, ![t].dirent = y]
                         = [acc EXCEPT ![t] = [pc |-> x, idx |-> b.idx, bufferSize |-> b.bufferSize, dirent |-> y]]
                    /\ [acc EXCEPT ![t].pc = x, ![t].bufferSize = y]
                         = [acc EXCEPT ![t] = [pc |-> x, idx |-> b.idx, bufferSize |-> y, dirent |-> b.dirent]]
  BY Zenon DEF FieldUpdates
<1>0. DOMAIN acc = Threads
  OBVIOUS
<1>1. PICK r : r = [b EXCEPT !.pc = x]
  OBVIOUS
<1>2. r = [pc |-> x, idx |-> b.idx, bufferSize |-> b.bufferSize, dirent |-> b.dirent]
  BY <1>1
<1>3. /\ r = [pc |-> r.pc, idx |-> r.idx, bufferSize |-> r.bufferSize, dirent |-> r.dirent]
      /\ r.pc = x /\ r.idx = b.idx /\ r.bufferSize = b.bufferSize /\ r.dirent = b.dirent
  BY <1>2
<1>4. [r EXCEPT !.dirent = y] = [pc |-> x, idx |-> b.idx, bufferSize |-> b.bufferSize, dirent |-> y]
  BY <1>3
<1>5. [r EXCEPT !.bufferSize = y] = [pc |-> x, idx |-> b.idx, bufferSize |-> y, dirent |-> b.dirent]
  BY <1>3
<1>6. PICK g : g = [acc EXCEPT ![t].pc = x]
  OBVIOUS
<1>7. g = [acc EXCEPT ![t] = r] /\ g[t] = r
  BY <1>0, <1>1, <1>6
<1>8. \A z : [g EXCEPT ![t] = z] = [acc EXCEPT ![t] = z]
  BY <1>0, <1>7
<1>9. /\ [acc EXCEPT ![t].pc = x, ![t].dirent = y] = [g EXCEPT ![t].dirent = y]
      /\ [acc EXCEPT ![t].pc = x, ![t].bufferSize = y] = [g EXCEPT ![t].bufferSize = y]
  BY <1>6
<1>10. /\ [g EXCEPT ![t].dirent = y] = [g EXCEPT ![t] = [r EXCEPT !.dirent = y]]
       /\ [g EXCEPT ![t].bufferSize = y] = [g EXCEPT ![t] = [r EXCEPT !.bufferSize = y]]
  BY <1>7
<1>11. [acc EXCEPT ![t].pc = x]
         = [acc EXCEPT ![t] = [pc |-> x, idx |-> b.idx, bufferSize |-> b.bufferSize, dirent |-> b.dirent]]
  BY <1>2, <1>6, <1>7
<1>12. [acc EXCEPT ![t].pc = x, ![t].dirent = y]
         = [acc EXCEPT ![t] = [pc |-> x, idx |-> b.idx, bufferSize |-> b.bufferSize, dirent |-> y]]
  <2>1. [acc EXCEPT ![t].pc = x, ![t].dirent = y] = [acc EXCEPT ![t] = [r EXCEPT !.dirent = y]]
    BY <1>8, <1>9, <1>10, Zenon
  <2> QED
    BY <1>4, <2>1
<1>13. [acc EXCEPT ![t].pc = x, ![t].bufferSize = y]
         = [acc EXCEPT ![t] = [pc |-> x, idx |-> b.idx, bufferSize |-> y, dirent |-> b.dirent]]
  <2>1. [acc EXCEPT ![t].pc = x, ![t].bufferSize = y] = [acc EXCEPT ![t] = [r EXCEPT !.bufferSize = y]]
    BY <1>8, <1>9, <1>10, Zenon
  <2> QED
    BY <1>5, <2>1
<1> QED
  BY <1>11, <1>12, <1>13

\* Every step of getDirent.
LEMMA AccessStep == ASSUME LInv, table \in Seq(Keys), NEW t \in Threads, Access(t) PROVE LInv'
<1>u. UNCHANGED lookupVars /\ GetDirent(t)
  BY DEF Access
<1>t. table' = table /\ Count' = Count /\ Count \in Nat
  <2>1. table' = table
    BY <1>u DEF GetDirent, GetHit, GetMiss, LockBuffer, ReadBuffer, InitDirent, PutDirent
  <2> QED
    BY <2>1, TableFixed, TableFacts
<1>c. CacheInv /\ AccessInv
  BY DEF LInv
<1>a. PICK b : b = acc[t]
  OBVIOUS
<1>b. /\ b = [pc |-> b.pc, idx |-> b.idx, bufferSize |-> b.bufferSize, dirent |-> b.dirent]
      /\ AccessOf(t, b) /\ b.idx \in Nat
  BY <1>a, <1>c DEF AccessInv, AccessOf
<1>d. acc = [s \in Threads |-> acc[s]] /\ DOMAIN acc = Threads
  <2>1. acc = [s \in Threads |-> acc[s]]
    BY <1>c DEF AccessInv
  <2> QED
    BY <2>1
<1>e. FieldUpdates(t, b)
  <2>1. b = [pc |-> b.pc, idx |-> b.idx, bufferSize |-> b.bufferSize, dirent |-> b.dirent]
    BY <1>b
  <2>2. acc = [s \in Threads |-> acc[s]]
    BY <1>d
  <2> QED
    BY <1>a, <2>1, <2>2, AccessUpdate
<1>e1. \A x : [acc EXCEPT ![t].pc = x]
               = [acc EXCEPT ![t] = [pc |-> x, idx |-> b.idx, bufferSize |-> b.bufferSize, dirent |-> b.dirent]]
  BY <1>e, Zenon DEF FieldUpdates
<1>e2. \A x, y : [acc EXCEPT ![t].pc = x, ![t].dirent = y]
                  = [acc EXCEPT ![t] = [pc |-> x, idx |-> b.idx, bufferSize |-> b.bufferSize, dirent |-> y]]
  BY <1>e, Zenon DEF FieldUpdates
<1>e3. \A x, y : [acc EXCEPT ![t].pc = x, ![t].bufferSize = y]
                  = [acc EXCEPT ![t] = [pc |-> x, idx |-> b.idx, bufferSize |-> y, dirent |-> b.dirent]]
  BY <1>e, Zenon DEF FieldUpdates
<1>1. CASE GetHit(t)
  <2>1. PICK k \in 1 .. Len(m_direntCache) :
          /\ m_direntCache[k].idx = b.idx
          /\ m_direntCache' = Put(m_direntCache, b.idx, m_direntCache[k].dirent)
          /\ acc' = [acc EXCEPT ![t].pc = "done", ![t].dirent = m_direntCache[k].dirent]
    BY <1>1, <1>a DEF GetHit, CachedAt
  <2>2. m_direntCache[k].dirent = b.idx /\ b.idx < Count
    BY <1>c, <2>1 DEF CacheInv
  <2>3. CacheInv'
    BY <1>b, <1>c, <1>t, <2>1, <2>2, PutKeeps
  <2>4. PICK a : a = [pc |-> "done", idx |-> b.idx, bufferSize |-> b.bufferSize, dirent |-> b.idx]
    OBVIOUS
  <2>5. acc' = [acc EXCEPT ![t] = a]
    <3>1. acc' = [acc EXCEPT ![t].pc = "done", ![t].dirent = b.idx]
      BY <2>1, <2>2
    <3> QED
      BY <1>e2, <2>4, <3>1, ZenonT(60)
  <2>6. AccessOf(t, a)'
    BY <1>b, <1>t, <2>2, <2>4 DEF AccessOf
  <2>7. b.pc = "get" /\ UNCHANGED <<m_bufferMutex, m_buffer>>
    BY <1>1, <1>a DEF GetHit
  <2> QED
    BY <1>a, <1>t, <1>u, <2>3, <2>4, <2>5, <2>6, <2>7, OneAccess
<1>2. CASE GetMiss(t)
  <2>1. PICK pc \in {"threw", "lock"} : /\ pc = IF b.idx >= Count THEN "threw" ELSE "lock"
                                        /\ acc' = [acc EXCEPT ![t].pc = pc]
    BY <1>2, <1>a DEF GetMiss
  <2>4. PICK a : a = [pc |-> pc, idx |-> b.idx, bufferSize |-> b.bufferSize, dirent |-> b.dirent]
    OBVIOUS
  <2>5. acc' = [acc EXCEPT ![t] = a]
    BY <1>a, <1>e1, <2>1, <2>4, ZenonT(60)
  <2>6. AccessOf(t, a)'
    BY <1>b, <1>t, <2>1, <2>4 DEF AccessOf
  <2>7. b.pc = "get" /\ UNCHANGED <<m_bufferMutex, m_buffer, m_direntCache>>
    BY <1>2, <1>a DEF GetMiss
  <2>8. CacheInv'
    BY <1>c, <1>t, <2>7, CacheFixed
  <2>9. a.pc # "idle"
    BY <2>4
  <2> QED
    BY <1>a, <1>t, <1>u, <2>4, <2>5, <2>6, <2>7, <2>8, <2>9, OneAccess
<1>3. CASE LockBuffer(t)
  <2>1. PICK z : acc' = [acc EXCEPT ![t].pc = "read", ![t].bufferSize = z]
    BY <1>3 DEF LockBuffer
  <2>4. PICK a : a = [pc |-> "read", idx |-> b.idx, bufferSize |-> z, dirent |-> b.dirent]
    OBVIOUS
  <2>5. acc' = [acc EXCEPT ![t] = a]
    BY <1>a, <1>e3, <2>1, <2>4, ZenonT(60)
  <2>7. b.pc = "lock" /\ m_bufferMutex = NoThread /\ m_bufferMutex' = t /\ UNCHANGED m_direntCache
    BY <1>3, <1>a DEF LockBuffer
  <2>6. AccessOf(t, a)'
    BY <1>b, <1>t, <2>4, <2>7 DEF AccessOf
  <2>8. CacheInv'
    BY <1>c, <1>t, <2>7, CacheFixed
  <2>9. \A s \in Threads : s # t => acc[s].pc \notin {"read", "init"}
    BY <1>c, <2>7, AccessorAssumption DEF AccessInv, AccessOf
  <2> QED
    BY <1>a, <1>t, <1>u, <2>4, <2>5, <2>6, <2>7, <2>8, <2>9, OneAccess
<1>o. b.pc \in {"read", "init"} => \A s \in Threads : s # t => acc[s].pc \notin {"read", "init"}
  BY <1>a, <1>c DEF AccessInv, AccessOf
<1>4. CASE ReadBuffer(t)
  <2>1. acc' = [acc EXCEPT ![t].pc = "init"] /\ m_buffer'.of = b.idx
    BY <1>4, <1>a DEF ReadBuffer
  <2>4. PICK a : a = [pc |-> "init", idx |-> b.idx, bufferSize |-> b.bufferSize, dirent |-> b.dirent]
    OBVIOUS
  <2>5. acc' = [acc EXCEPT ![t] = a]
    BY <1>a, <1>e1, <2>1, <2>4, ZenonT(60)
  <2>7. b.pc = "read" /\ UNCHANGED <<m_direntCache, m_bufferMutex>>
    BY <1>4, <1>a DEF ReadBuffer
  <2>6. AccessOf(t, a)'
    BY <1>b, <1>t, <2>1, <2>4, <2>7 DEF AccessOf
  <2>8. CacheInv'
    BY <1>c, <1>t, <2>7, CacheFixed
  <2> QED
    BY <1>a, <1>o, <1>t, <1>u, <2>4, <2>5, <2>6, <2>7, <2>8, OneAccess
<1>5. CASE InitDirent(t)
  <2>1. b.pc = "init" /\ UNCHANGED <<m_direntCache, m_buffer>>
    BY <1>5, <1>a DEF InitDirent
  <2>2. m_bufferMutex = t /\ m_buffer.of = b.idx /\ b.idx < Count
    BY <1>b, <2>1 DEF AccessOf
  <2>3. CacheInv'
    BY <1>c, <1>t, <2>1, CacheFixed
  <2>4. CASE initDirent(m_buffer)
    <3>1. acc' = [acc EXCEPT ![t].pc = "put", ![t].dirent = m_buffer.of]
      BY <1>5, <2>4 DEF InitDirent
    <3>2. PICK a : a = [pc |-> "put", idx |-> b.idx, bufferSize |-> b.bufferSize, dirent |-> b.idx]
      OBVIOUS
    <3>3. acc' = [acc EXCEPT ![t] = a]
      <4>1. acc' = [acc EXCEPT ![t].pc = "put", ![t].dirent = b.idx]
        BY <2>2, <3>1
      <4> QED
        BY <1>e2, <3>2, <4>1, ZenonT(60)
    <3>4. AccessOf(t, a)'
      BY <1>b, <1>t, <2>2, <3>2 DEF AccessOf
    <3> QED
      BY <1>a, <1>o, <1>t, <1>u, <2>1, <2>3, <3>2, <3>3, <3>4, OneAccess
  <2>5. CASE ~ initDirent(m_buffer)
    <3>1. acc' = [acc EXCEPT ![t].pc = "read", ![t].bufferSize = acc[t].bufferSize + BufferStep] /\ m_bufferMutex' = m_bufferMutex
      BY <1>5, <2>5 DEF InitDirent
    <3>2. PICK a : a = [pc |-> "read", idx |-> b.idx, bufferSize |-> b.bufferSize + BufferStep, dirent |-> b.dirent]
      OBVIOUS
    <3>3. acc' = [acc EXCEPT ![t] = a]
      BY <1>a, <1>e3, <3>1, <3>2, ZenonT(60)
    <3>4. AccessOf(t, a)'
      BY <1>b, <1>t, <2>2, <3>1, <3>2 DEF AccessOf
    <3> QED
      BY <1>a, <1>o, <1>t, <1>u, <2>1, <2>3, <3>2, <3>3, <3>4, OneAccess
  <2> QED
    BY <2>4, <2>5
<1>6. CASE PutDirent(t)
  <2>1. acc' = [acc EXCEPT ![t].pc = "done"] /\ m_direntCache' = Put(m_direntCache, b.idx, b.dirent)
    BY <1>6, <1>a DEF PutDirent
  <2>2. b.pc = "put" /\ UNCHANGED <<m_bufferMutex, m_buffer>>
    BY <1>6, <1>a DEF PutDirent
  <2>3. b.dirent = b.idx /\ b.idx < Count
    BY <1>b, <2>2 DEF AccessOf
  <2>4. CacheInv'
    BY <1>b, <1>c, <1>t, <2>1, <2>3, PutKeeps
  <2>5. PICK a : a = [pc |-> "done", idx |-> b.idx, bufferSize |-> b.bufferSize, dirent |-> b.dirent]
    OBVIOUS
  <2>6. acc' = [acc EXCEPT ![t] = a]
    BY <1>a, <1>e1, <2>1, <2>5, ZenonT(60)
  <2>7. AccessOf(t, a)'
    BY <1>b, <1>t, <2>3, <2>5 DEF AccessOf
  <2> QED
    BY <1>a, <1>t, <1>u, <2>2, <2>4, <2>5, <2>6, <2>7, OneAccess
<1> QED
  BY <1>u, <1>1, <1>2, <1>3, <1>4, <1>5, <1>6 DEF GetDirent

-----------------------------------------------------------------------------
(* The constructor *)

LEMMA AccessFixed ==
  ASSUME AccessInv, UNCHANGED <<table, m_bufferMutex, m_buffer, acc>>
  PROVE  AccessInv'
<1>1. Count' = Count
  BY TableFixed
<1> QED
  BY <1>1 DEF AccessInv, AccessOf

\* Nobody calls a lookup that is not there yet.
LEMMA CallsFixed ==
  ASSUME CallsInv, UNCHANGED <<table, acc, call>>, Built => Built',
         Built' => Built \/ \A s \in Threads : acc[s].pc = "idle"
  PROVE  CallsInv'
<1>1. ASSUME NEW s \in Threads, NEW c, NEW a, c = call[s], a = acc[s] PROVE CallOf(c, a)'
  <2>1. CallOf(c, a)
    BY <1>1 DEF CallsInv
  <2> QED
    BY <1>1, <2>1, CallFixed
<1>2. \A s \in Threads : CallOf(call[s], acc[s])'
  BY <1>1
<1> QED
  BY <1>2 DEF CallsInv

LEMMA GridEntry ==
  ASSUME GridInv, NEW d \in 1 .. Len(entries)
  PROVE  entries[d] \in [key : Keys, lindex : Nat] /\ entries[d].key \in Keys /\ entries[d].lindex \in Nat
<1>1. PICK S : S = [key : Keys, lindex : Nat]
  OBVIOUS
<1>2. entries \in Seq(S)
  BY <1>1 DEF GridInv
<1>3. entries[d] \in S
  BY <1>2, ElementOfSeq
<1> QED
  BY <1>1, <1>3

\* An entry behind the others that brackets its place.
LEMMA GridAppend ==
  ASSUME GridInv, table' = table, NEW e \in [key : Keys, lindex : Nat], Brackets(e),
         \A d \in 1 .. Len(entries) : entries[d].lindex < e.lindex,
         Len(entries) = 0 => e.key = KeyOf(0) /\ e.lindex = 0,
         entries' = Append(entries, e)
  PROVE  /\ entries' \in Seq([key : Keys, lindex : Nat])
         /\ Len(entries') = Len(entries) + 1 /\ Len(entries') > 0
         /\ entries'[Len(entries')] = e
         /\ \A d \in 1 .. Len(entries) : entries'[d] = entries[d]
         /\ \A d \in 1 .. Len(entries') : Brackets(entries[d])'
         /\ \A c, d \in 1 .. Len(entries') : c < d => entries'[c].lindex < entries'[d].lindex
         /\ entries'[1].key = KeyOf(0)' /\ entries'[1].lindex = 0
<1>1. entries \in Seq([key : Keys, lindex : Nat]) /\ Len(entries) \in Nat
  BY DEF GridInv
<1>2. PICK es : es = entries'
  OBVIOUS
<1>3. /\ es \in Seq([key : Keys, lindex : Nat])
      /\ Len(es) = Len(entries) + 1 /\ Len(es) > 0
      /\ es[Len(es)] = e
      /\ \A d \in 1 .. Len(entries) : es[d] = entries[d]
  BY <1>1, <1>2
<1>4. \A d \in 1 .. Len(es) : d = Len(es) \/ d \in 1 .. Len(entries)
  BY <1>1, <1>3
<1>5. \A d \in 1 .. Len(es) : Brackets(es[d])
  BY <1>3, <1>4 DEF GridInv
<1>6. \A d \in 1 .. Len(es) : Brackets(es[d])'
  BY <1>5, TableFixed
<1>7. \A c, d \in 1 .. Len(es) : c < d => es[c].lindex < es[d].lindex
  <2>1. ASSUME NEW c \in 1 .. Len(es), NEW d \in 1 .. Len(es), c < d PROVE es[c].lindex < es[d].lindex
    <3>1. c \in 1 .. Len(entries)
      BY <1>1, <1>3, <2>1
    <3>2. CASE d = Len(es)
      BY <1>3, <3>1, <3>2
    <3>3. CASE d \in 1 .. Len(entries)
      BY <1>3, <2>1, <3>1, <3>3 DEF GridInv
    <3> QED
      BY <1>4, <3>2, <3>3
  <2> QED
    BY <2>1
<1>8. es[1].key = KeyOf(0) /\ es[1].lindex = 0
  <2>1. CASE Len(entries) = 0
    BY <1>3, <2>1
  <2>2. CASE Len(entries) > 0
    <3>1. es[1] = entries[1]
      BY <1>1, <1>3, <2>2
    <3> QED
      BY <2>2, <3>1 DEF GridInv
  <2> QED
    BY <1>1, <2>1, <2>2
<1>9. KeyOf(0)' = KeyOf(0)
  BY TableFixed
<1> QED
  BY <1>2, <1>3, <1>6, <1>7, <1>8, <1>9

\* What getDirent is asked for, and what a thread outside of it does.
LEMMA RequestFacts ==
  ASSUME NEW t, NEW i \in Nat, NEW a
  PROVE  /\ a = Request(i) => AccessOf(t, a) /\ a.pc = "get" /\ a.idx = i
         /\ a = NoAccess => AccessOf(t, a) /\ a.pc = "idle"
<1>1. ASSUME a = NoAccess PROVE AccessOf(t, a) /\ a.pc = "idle"
  BY <1>1 DEF NoAccess, AccessOf
<1>2. ASSUME a = Request(i) PROVE AccessOf(t, a) /\ a.pc = "get" /\ a.idx = i
  <2>1. PICK r : r = [NoAccess EXCEPT !.pc = "get"]
    OBVIOUS
  <2>2. r = [pc |-> "get", idx |-> 0, bufferSize |-> 0, dirent |-> 0]
    BY <2>1 DEF NoAccess
  <2>3. a = [r EXCEPT !.idx = i]
    BY <1>2, <2>1 DEF Request
  <2>4. a = [pc |-> "get", idx |-> i, bufferSize |-> 0, dirent |-> 0]
    BY <2>2, <2>3
  <2> QED
    BY <2>4 DEF AccessOf
<1> QED
  BY <1>1, <1>2

\* A step of the thread that opens the archive, in or out of getDirent.
LEMMA OpenerStep ==
  ASSUME LInv, UNCHANGED <<table, m_direntCache, m_bufferMutex, m_buffer, entries, next, namespaceBoundaryCache, call>>,
         ~ Built, Opener \in Threads, NEW a, acc' = [acc EXCEPT ![Opener] = a], AccessOf(Opener, a),
         \A g \in got' : g.idx \in 0 .. Count - 1 /\ g.key = KeyOf(g.idx)
  PROVE  LInv'
<1>1. CacheInv' /\ GridInv' /\ (Built' <=> Built) /\ BoundaryCacheInv'
  BY CacheFixed, GridFixed, BoundariesFixed DEF LInv
<1>2. /\ acc' = [s \in Threads |-> acc'[s]] /\ acc'[Opener] = a
      /\ \A s \in Threads : s # Opener => acc'[s] = acc[s]
  <2>1. acc = [s \in Threads |-> acc[s]]
    BY DEF LInv, AccessInv
  <2>2. DOMAIN acc = Threads
    BY <2>1
  <2> QED
    BY <2>1, <2>2
<1>3. AccessInv'
  <2>1. Count' = Count
    BY TableFixed
  <2>2. \A s \in Threads : AccessOf(s, acc'[s])
    BY <1>2 DEF LInv, AccessInv
  <2>3. \A s \in Threads : AccessOf(s, acc[s])'
    BY <2>1, <2>2 DEF AccessOf
  <2> QED
    BY <1>2, <2>3 DEF AccessInv
<1>4. CallsInv'
  <2>1. ASSUME NEW s \in Threads, NEW c, NEW b, c = call[s], b = acc'[s] PROVE CallOf(c, b)'
    <3>1. c.op = "none"
      BY <2>1 DEF LInv, CallsInv, CallOf
    <3> QED
      BY <1>1, <3>1 DEF CallOf, Waiting
  <2>2. \A s \in Threads : CallOf(call[s], acc[s])'
    BY <2>1
  <2> QED
    BY <2>2 DEF LInv, CallsInv
<1>5. ConstructInv'
  <2>1. Count' = Count /\ \A i : KeyOf(i)' = KeyOf(i)
    BY TableFixed
  <2> QED
    BY <1>2, <2>1 DEF LInv, ConstructInv
<1> QED
  BY <1>1, <1>3, <1>4, <1>5 DEF LInv

\* The keys that the constructor has read are those of the table.
LEMMA KeyReadRight ==
  ASSUME ConstructInv, KeysRead, NEW i \in Wanted
  PROVE  KeyRead(i) = KeyOf(i)
<1>1. PICK h : h = CHOOSE g \in got : g.idx = i
  OBVIOUS
<1>2. h \in got /\ h.idx = i
  BY <1>1 DEF KeysRead
<1> QED
  BY <1>1, <1>2 DEF ConstructInv, KeyRead

\* getDirentKey asks the accessor ...
LEMMA GetDirentKeyStep ==
  ASSUME LInv, table \in Seq(Keys), NEW i \in Wanted, GetDirentKey(i)
  PROVE  LInv'
<1>t. Count \in Nat /\ next \in Nat
  BY TableFacts DEF LInv, GridInv
<1>o. Opener \in Threads
  BY LookupAssumption
<1>u. /\ UNCHANGED <<table, m_direntCache, m_bufferMutex, m_buffer, lookupVars>>
      /\ ~ Built /\ acc' = [acc EXCEPT ![Opener] = Request(i)]
  BY DEF GetDirentKey
<1>1. i \in Nat
  BY <1>t DEF Wanted
<1>2. PICK a : a = Request(i)
  OBVIOUS
<1>3. AccessOf(Opener, a)
  BY <1>1, <1>2, RequestFacts
<1>4. \A g \in got' : g.idx \in 0 .. Count - 1 /\ g.key = KeyOf(g.idx)
  BY <1>u DEF lookupVars, LInv, ConstructInv
<1>5. UNCHANGED <<entries, next, namespaceBoundaryCache, call>>
  BY <1>u DEF lookupVars
<1> QED
  BY <1>o, <1>u, <1>2, <1>3, <1>4, <1>5, OpenerStep

\* ... and gets the key.
LEMMA DirentKeyReadStep ==
  ASSUME LInv, table \in Seq(Keys), DirentKeyRead
  PROVE  LInv'
<1>t. Count \in Nat
  BY TableFacts
<1>o. Opener \in Threads
  BY LookupAssumption
<1>u. /\ UNCHANGED <<table, m_direntCache, m_bufferMutex, m_buffer, entries, next, namespaceBoundaryCache, call>>
      /\ ~ Built /\ acc' = [acc EXCEPT ![Opener] = NoAccess] /\ acc[Opener].pc = "done"
      /\ got' = got \cup {[idx |-> acc[Opener].idx, key |-> KeyOf(acc[Opener].dirent)]}
  BY DEF DirentKeyRead
<1>1. acc[Opener].dirent = acc[Opener].idx /\ acc[Opener].idx \in 0 .. Count - 1
  BY <1>t, <1>o, <1>u DEF LInv, AccessInv, AccessOf
<1>2. \A g \in got' : g.idx \in 0 .. Count - 1 /\ g.key = KeyOf(g.idx)
  BY <1>u, <1>1 DEF LInv, ConstructInv
<1>3. AccessOf(Opener, NoAccess)
  BY RequestFacts
<1> QED
  BY <1>o, <1>u, <1>2, <1>3, OpenerStep

\* The grid stays right while the constructor goes through the table.
LEMMA AddEntryStep == ASSUME LInv, table \in Seq(Keys), Sorted, AddEntry PROVE LInv'
<1>t. /\ table' = table /\ Count \in Nat /\ Step \in Nat /\ Step >= 1 /\ next \in Nat
      /\ Count' = Count /\ Step' = Step
  BY TableFacts, TableFixed DEF AddEntry, LInv, GridInv
<1>n. ~ Built /\ ~ Built' /\ next < Count - 1 /\ next' = next + Step
  BY <1>t DEF AddEntry, KeysRead, Built
<1>r. KeyRead(next) = KeyOf(next) /\ KeyRead(next + 1) = KeyOf(next + 1)
  <2>1. next \in Wanted /\ next + 1 \in Wanted
    BY <1>t, <1>n DEF Wanted
  <2> QED
    BY <2>1, KeyReadRight DEF AddEntry, LInv
<1>e. PICK e : e = [key |-> PseudoKey(next), lindex |-> next] /\ entries' = Append(entries, e)
  BY DEF AddEntry
<1>k. /\ KeyOf(next) \in Keys /\ KeyOf(next + 1) \in Keys /\ AtMost(KeyOf(next), KeyOf(next + 1))
  <2>1. next \in 0 .. Count - 1 /\ next + 1 \in 0 .. Count - 1
    BY <1>t, <1>n
  <2> QED
    BY <2>1, TableFacts DEF Sorted
<1>p. /\ PseudoKey(next) \in Keys
      /\ AtMost(KeyOf(next), PseudoKey(next)) /\ AtMost(PseudoKey(next), KeyOf(next + 1))
  <2>1. CASE entries = <<>>
    BY <1>k, <1>r, <2>1 DEF PseudoKey, AtMost
  <2>2. CASE entries # <<>>
    BY <1>k, <1>r, <2>2, BetweenAssumption DEF PseudoKey
  <2> QED
    BY <2>1, <2>2
<1>1. e \in [key : Keys, lindex : Nat] /\ Brackets(e) /\ e.lindex = next
  BY <1>t, <1>n, <1>e, <1>p DEF Brackets
<1>2. \A d \in 1 .. Len(entries) : entries[d].lindex < next
  BY <1>n DEF LInv, GridInv
<1>3. Len(entries) = 0 => e.key = KeyOf(0) /\ e.lindex = 0
  <2>1. HAVE Len(entries) = 0
  <2>2. entries = <<>> /\ next = 0
    BY <1>n, <2>1 DEF LInv, GridInv
  <2> QED
    BY <1>e, <1>r, <2>2 DEF PseudoKey
<1>4. /\ entries' \in Seq([key : Keys, lindex : Nat])
      /\ Len(entries') = Len(entries) + 1 /\ Len(entries') > 0
      /\ entries'[Len(entries')] = e
      /\ \A d \in 1 .. Len(entries) : entries'[d] = entries[d]
      /\ \A d \in 1 .. Len(entries') : Brackets(entries[d])'
      /\ \A c, d \in 1 .. Len(entries') : c < d => entries'[c].lindex < entries'[d].lindex
      /\ entries'[1].key = KeyOf(0)' /\ entries'[1].lindex = 0
  BY <1>t, <1>e, <1>1, <1>2, <1>3, GridAppend DEF LInv
<1>5. \A d \in 1 .. Len(entries') : entries'[d].lindex < next' /\ entries'[d].lindex < Count' - 1
  <2>1. Len(entries) \in Nat /\ \A d \in 1 .. Len(entries) : entries[d].lindex \in Nat /\ entries[d].lindex < Count - 1
    <3>1. entries \in Seq([key : Keys, lindex : Nat]) /\ \A d \in 1 .. Len(entries) : entries[d].lindex < Count - 1
      BY <1>n DEF LInv, GridInv
    <3> QED
      BY <3>1, GridEntry DEF LInv
  <2>2. ASSUME NEW d \in 1 .. Len(entries') PROVE entries'[d].lindex < next' /\ entries'[d].lindex < Count' - 1
    <3>1. d = Len(entries') \/ d \in 1 .. Len(entries)
      BY <1>4, <2>1
    <3>2. entries'[d].lindex <= next /\ entries'[d].lindex < Count - 1 /\ entries'[d].lindex \in Nat
      BY <1>1, <1>2, <1>4, <1>n, <1>t, <2>1, <3>1
    <3> QED
      BY <1>t, <1>n, <3>2
  <2> QED
    BY <2>2
<1>6. GridInv'
  <2>1. next' \in Nat /\ next' < Count' + Step'
    BY <1>t, <1>n
  <2> QED
    BY <1>n, <1>4, <1>5, <2>1 DEF GridInv
<1>7. CacheInv' /\ AccessInv' /\ BoundaryCacheInv'
  BY CacheFixed, AccessFixed, BoundariesFixed DEF AddEntry, LInv, accessorVars
<1>8. CallsInv'
  BY <1>n, CallsFixed DEF AddEntry, LInv, accessorVars
<1>9. ConstructInv'
  <2>1. got' = {} /\ acc' = acc
    BY DEF AddEntry, accessorVars
  <2> QED
    BY <1>n, <2>1 DEF LInv, ConstructInv
<1> QED
  BY <1>6, <1>7, <1>8, <1>9 DEF LInv

LEMMA CloseStep == ASSUME LInv, table \in Seq(Keys), Sorted, Close PROVE LInv'
<1>t. /\ table' = table /\ Count \in Nat /\ Step \in Nat /\ Step >= 1 /\ next \in Nat
      /\ Count' = Count /\ Step' = Step
  BY TableFacts, TableFixed DEF Close, LInv, GridInv
<1>n. ~ Built /\ Built' /\ Count - 1 <= next /\ next' = Count + Step
  BY <1>t DEF Close, KeysRead, Built
<1>c. CacheInv' /\ AccessInv' /\ BoundaryCacheInv'
  BY CacheFixed, AccessFixed, BoundariesFixed DEF Close, LInv, accessorVars
<1>a. CallsInv'
  <2>1. \A s \in Threads : acc[s].pc = "idle"
    BY <1>n DEF Close, KeysRead, LInv, ConstructInv
  <2> QED
    BY <1>n, <2>1, CallsFixed DEF Close, LInv, accessorVars
<1>o. ConstructInv'
  <2>1. got' = {}
    BY DEF Close
  <2> QED
    BY <1>n, <2>1 DEF ConstructInv
<1>1. CASE Count = 0
  <2>1. UNCHANGED entries
    BY <1>1 DEF Close
  <2>2. entries \in Seq([key : Keys, lindex : Nat]) /\ Len(entries) \in Nat
    BY DEF LInv, GridInv
  <2>3. Len(entries) = 0
    <3>1. \A d \in 1 .. Len(entries) : entries[d].lindex < 0 /\ entries[d].lindex \in Nat
      BY <1>1, <2>2 DEF LInv, GridInv, Brackets
    <3> QED
      BY <2>2, <3>1
  <2>4. GridInv'
    BY <1>t, <1>n, <1>1, <2>1, <2>2, <2>3 DEF GridInv
  <2> QED
    BY <1>a, <1>c, <1>o, <2>4 DEF LInv
<1>2. CASE Count > 0
  <2>e. PICK e : e = [key |-> KeyOf(Count - 1), lindex |-> Count - 1] /\ entries' = Append(entries, e)
    <3>1. KeyRead(Count - 1) = KeyOf(Count - 1)
      <4>1. Count - 1 \in Wanted
        BY <1>t, <1>n, <1>2 DEF Wanted
      <4> QED
        BY <4>1, KeyReadRight DEF Close, LInv
    <3> QED
      BY <1>t, <1>2, <3>1 DEF Close
  <2>k. Count - 1 \in 0 .. Count - 1 /\ KeyOf(Count - 1) \in Keys
    BY <1>t, <1>2, TableFacts
  <2>1. e \in [key : Keys, lindex : Nat] /\ Brackets(e) /\ e.lindex = Count - 1
    BY <1>t, <2>e, <2>k DEF Brackets, AtMost
  <2>2. \A d \in 1 .. Len(entries) : entries[d].lindex < e.lindex
    BY <1>n, <2>1 DEF LInv, GridInv
  <2>3. Len(entries) = 0 => e.key = KeyOf(0) /\ e.lindex = 0
    <3>1. HAVE Len(entries) = 0
    <3>2. next = 0
      BY <1>n, <3>1 DEF LInv, GridInv
    <3>3. Count - 1 = 0
      BY <1>2, <1>n, <1>t, <3>2
    <3> QED
      BY <2>e, <3>3
  <2>4. /\ entries' \in Seq([key : Keys, lindex : Nat])
        /\ Len(entries') > 0
        /\ entries'[Len(entries')] = e
        /\ \A d \in 1 .. Len(entries') : Brackets(entries[d])'
        /\ \A c, d \in 1 .. Len(entries') : c < d => entries'[c].lindex < entries'[d].lindex
        /\ entries'[1].key = KeyOf(0)' /\ entries'[1].lindex = 0
    BY <1>t, <2>e, <2>1, <2>2, <2>3, GridAppend DEF LInv
  <2>5. GridInv'
    BY <1>t, <1>n, <2>1, <2>4 DEF GridInv
  <2> QED
    BY <1>a, <1>c, <1>o, <2>5 DEF LInv
<1> QED
  BY <1>t, <1>1, <1>2

-----------------------------------------------------------------------------
(* getRange *)

\* The keys of the grid are in order, as those of the table are.
LEMMA GridSorted ==
  ASSUME LInv, table \in Seq(Keys), Sorted,
         NEW d \in 1 .. Len(entries), NEW e \in 1 .. Len(entries), d <= e
  PROVE  AtMost(entries[d].key, entries[e].key)
<1>1. /\ entries \in Seq([key : Keys, lindex : Nat])
      /\ Brackets(entries[d]) /\ Brackets(entries[e])
      /\ d < e => entries[d].lindex < entries[e].lindex
  BY DEF LInv, GridInv
<1>2. PICK p \in [key : Keys, lindex : Nat] : p = entries[d]
  BY GridEntry DEF LInv
<1>3. PICK q \in [key : Keys, lindex : Nat] : q = entries[e]
  BY GridEntry DEF LInv
<1>4. CASE d = e
  BY <1>4 DEF AtMost
<1>5. CASE d < e
  <2>1. p.lindex + 1 \in 0 .. Count - 1 /\ q.lindex \in 0 .. Count - 1 /\ p.lindex + 1 <= q.lindex
    BY <1>1, <1>2, <1>3, <1>5, TableFacts DEF Brackets
  <2>2. AtMost(p.key, KeyOf(p.lindex + 1)) /\ AtMost(KeyOf(q.lindex), q.key)
    BY <1>1, <1>2, <1>3, <2>1, TableFacts DEF Brackets
  <2>3. AtMost(KeyOf(p.lindex + 1), KeyOf(q.lindex))
    BY <2>1, TableFacts DEF Sorted, AtMost
  <2>4. p.key \in Keys /\ q.key \in Keys /\ KeyOf(p.lindex + 1) \in Keys /\ KeyOf(q.lindex) \in Keys
    BY <2>1, TableFacts
  <2> QED
    BY <1>2, <1>3, <2>2, <2>3, <2>4, OrderFacts
<1> QED
  BY <1>4, <1>5

\* So there is an upper bound of every key in the grid.
LEMMA UpperBound ==
  ASSUME LInv, table \in Seq(Keys), Sorted, NEW k \in Keys
  PROVE  \E m \in 0 .. Len(entries) : NotGreater(k) = 1 .. m
<1>1. entries \in Seq([key : Keys, lindex : Nat]) /\ Len(entries) \in Nat
  BY DEF LInv, GridInv
<1>2. PICK G : G = {e \in 1 .. Len(entries) + 1 : e \notin NotGreater(k)}
  OBVIOUS
<1>3. Len(entries) + 1 \in G /\ G \subseteq Nat
  BY <1>1, <1>2 DEF NotGreater
<1>4. PICK g \in G : \A e \in G : g <= e
  BY <1>3, NatMin
<1>5. g \in 1 .. Len(entries) + 1 /\ g \notin NotGreater(k)
  BY <1>2, <1>4
<1>6. \A e \in 1 .. g - 1 : e \in NotGreater(k)
  <2>1. ASSUME NEW e \in 1 .. g - 1 PROVE e \in NotGreater(k)
    <3>1. e \in 1 .. Len(entries) + 1 /\ ~ (g <= e)
      BY <1>1, <1>5
    <3> QED
      BY <1>2, <1>4, <3>1
  <2> QED
    BY <2>1
<1>7. \A e \in NotGreater(k) : e \in 1 .. g - 1
  <2>1. SUFFICES ASSUME NEW e \in NotGreater(k), g <= e PROVE FALSE
    BY <1>1, <1>5 DEF NotGreater
  <2>2. e \in 1 .. Len(entries) /\ AtMost(entries[e].key, k)
    BY DEF NotGreater
  <2>3. g \in 1 .. Len(entries)
    BY <1>1, <1>5, <2>1, <2>2
  <2>4. AtMost(entries[g].key, entries[e].key)
    BY <2>1, <2>2, <2>3, GridSorted
  <2>5. entries[g].key \in Keys /\ entries[e].key \in Keys
    BY <2>2, <2>3, GridEntry DEF LInv
  <2>6. AtMost(entries[g].key, k)
    BY <2>2, <2>4, <2>5, OrderFacts
  <2> QED
    BY <1>5, <2>3, <2>6 DEF NotGreater
<1>8. NotGreater(k) = 1 .. g - 1
  BY <1>6, <1>7
<1>9. g - 1 \in 0 .. Len(entries)
  BY <1>1, <1>5
<1> QED
  BY <1>8, <1>9

\* getRange(k): all dirents are behind the key, or it begins with one that is
\* not, and what is not in the range is on its side of the key.
LEMMA RangeFacts ==
  ASSUME LInv, table \in Seq(Keys), Sorted, Built, NEW k \in Keys, NEW r, r = getRange(k)
  PROVE  /\ r.begin \in Nat /\ r.end \in Nat
         /\ r.begin = r.end => r.begin = 0 /\ \A i \in 0 .. Count - 1 : Less(k, KeyOf(i))
         /\ r.begin # r.end => /\ r.begin < r.end /\ r.end <= Count
                               /\ AtMost(KeyOf(r.begin), k)
                               /\ \A i \in 0 .. Count - 1 : i >= r.end => Less(k, KeyOf(i))
<1>1. /\ entries \in Seq([key : Keys, lindex : Nat]) /\ Len(entries) \in Nat
      /\ \A e \in 1 .. Len(entries) : Brackets(entries[e])
  BY DEF LInv, GridInv
<1>t. Count \in Nat /\ \A i \in 0 .. Count - 1 : KeyOf(i) \in Keys
  BY TableFacts
<1>2. PICK n \in 0 .. Len(entries) :
        /\ NotGreater(k) = 1 .. n
        /\ r = IF n = 0 THEN [begin |-> 0, end |-> 0]
               ELSE [begin |-> entries[n].lindex,
                     end   |-> IF n = Len(entries) THEN entries[n].lindex + 1 ELSE entries[n + 1].lindex + 1]
  <2>1. PICK n : n = CHOOSE m \in 0 .. Len(entries) : NotGreater(k) = 1 .. m
    OBVIOUS
  <2>2. n \in 0 .. Len(entries) /\ NotGreater(k) = 1 .. n
    BY <2>1, UpperBound
  <2> QED
    BY <2>1, <2>2 DEF getRange
<1>3. CASE n = 0
  <2>1. r.begin = 0 /\ r.end = 0
    BY <1>2, <1>3
  <2>2. ASSUME NEW i \in 0 .. Count - 1 PROVE Less(k, KeyOf(i))
    <3>1. Count > 0
      BY <1>t
    <3>2. Len(entries) > 0 /\ entries[1].key = KeyOf(0) /\ 1 \in 1 .. Len(entries)
      BY <1>1, <3>1 DEF LInv, GridInv
    <3>3. 1 \notin NotGreater(k)
      BY <1>2, <1>3
    <3>4. ~ AtMost(KeyOf(0), k) /\ KeyOf(0) \in Keys /\ KeyOf(i) \in Keys
      BY <1>t, <3>1, <3>2, <3>3 DEF NotGreater
    <3>5. AtMost(KeyOf(0), KeyOf(i))
      BY <1>t DEF Sorted, AtMost
    <3> QED
      BY <3>4, <3>5, OrderFacts
  <2> QED
    BY <2>1, <2>2
<1>4. CASE n > 0
  <2>1. n \in 1 .. Len(entries) /\ n \in NotGreater(k)
    BY <1>1, <1>2, <1>4
  <2>2. PICK p \in [key : Keys, lindex : Nat] : p = entries[n]
    BY <2>1, GridEntry DEF LInv
  <2>3. Brackets(p) /\ AtMost(p.key, k)
    BY <1>1, <2>1, <2>2 DEF NotGreater
  <2>4. p.lindex \in 0 .. Count - 1 /\ AtMost(KeyOf(p.lindex), p.key)
    BY <1>t, <2>3 DEF Brackets
  <2>5. AtMost(KeyOf(p.lindex), k)
    BY <1>t, <2>3, <2>4, OrderFacts
  <2>6. CASE n = Len(entries)
    <3>1. r.begin = p.lindex /\ r.end = p.lindex + 1
      BY <1>2, <1>4, <2>2, <2>6
    <3>2. p.lindex = Count - 1
      BY <1>t, <2>2, <2>4, <2>6 DEF LInv, GridInv
    <3> QED
      BY <1>t, <2>5, <3>1, <3>2
  <2>7. CASE n # Len(entries)
    <3>1. n + 1 \in 1 .. Len(entries) /\ n + 1 \notin NotGreater(k)
      BY <1>1, <1>2, <2>7
    <3>2. PICK q \in [key : Keys, lindex : Nat] : q = entries[n + 1]
      BY <3>1, GridEntry DEF LInv
    <3>3. r.begin = p.lindex /\ r.end = q.lindex + 1
      BY <1>2, <1>4, <2>2, <2>7, <3>2
    <3>4. p.lindex < q.lindex
      BY <2>1, <2>2, <3>1, <3>2 DEF LInv, GridInv
    <3>5. Brackets(q) /\ ~ AtMost(q.key, k)
      BY <1>1, <3>1, <3>2 DEF NotGreater
    <3>6. Less(k, q.key)
      BY <3>5, OrderFacts
    <3>7. ASSUME NEW i \in 0 .. Count - 1, i >= q.lindex + 1 PROVE Less(k, KeyOf(i))
      <4>1. q.lindex + 1 \in 0 .. Count - 1
        BY <1>t, <3>7
      <4>2. AtMost(q.key, KeyOf(q.lindex + 1))
        BY <1>t, <3>5, <4>1 DEF Brackets
      <4>3. AtMost(KeyOf(q.lindex + 1), KeyOf(i))
        BY <3>7, <4>1 DEF Sorted, AtMost
      <4>4. AtMost(q.key, KeyOf(i))
        BY <1>t, <4>1, <4>2, <4>3, OrderFacts
      <4> QED
        BY <1>t, <3>6, <4>4, OrderFacts
    <3>8. q.lindex < Count
      BY <3>5 DEF Brackets
    <3> QED
      BY <1>t, <2>5, <3>3, <3>4, <3>7, <3>8
  <2> QED
    BY <2>6, <2>7
<1> QED
  BY <1>1, <1>2, <1>3, <1>4

-----------------------------------------------------------------------------
(* The calls *)

LEMMA NoCallFacts ==
  /\ NoCall \in CallType /\ NoCall.op = "none" /\ ~ NoCall.found
  /\ NoCall.l = 0 /\ NoCall.u = 0 /\ NoCall.index = 0
<1>1. (CHOOSE k \in Keys : TRUE) \in Keys
  BY LookupAssumption
<1> QED
  BY <1>1 DEF NoCall, CallType

\* What every step of a call leaves alone.
LEMMA CallStep ==
  ASSUME LInv, UNCHANGED <<table, m_direntCache, m_bufferMutex, m_buffer, entries, next, got, namespaceBoundaryCache>>,
         NEW t \in Threads, Built \/ call[t].op # "none", NEW c \in CallType, NEW a,
         call' = [call EXCEPT ![t] = c], acc' = [acc EXCEPT ![t] = a],
         CallOf(c, a), AccessOf(t, a)
  PROVE  LInv'
BY OneThread, BoundariesFixed DEF LInv

\* Thread t has no call under way.
LEMMA NoCallYet ==
  ASSUME LInv, NEW t \in Threads, call[t].op \notin Waiting, Built \/ call[t].op # "none"
  PROVE  /\ acc = [acc EXCEPT ![t] = acc[t]] /\ AccessOf(t, acc[t]) /\ acc[t].pc = "idle"
<1>1. acc = [s \in Threads |-> acc[s]]
  BY DEF LInv, AccessInv
<1>2. AccessOf(t, acc[t]) /\ acc[t].pc = "idle"
  BY DEF LInv, AccessInv, CallsInv, CallOf
<1> QED
  BY <1>1, <1>2

LEMMA FindStep ==
  ASSUME LInv, table \in Seq(Keys), Sorted, NEW t \in Threads, NEW k \in Keys, Find(t, k)
  PROVE  LInv'
<1>t. Count \in Nat
  BY TableFacts
<1>u. /\ UNCHANGED <<table, m_direntCache, m_bufferMutex, m_buffer, entries, next, got, namespaceBoundaryCache>>
      /\ Built /\ call[t].op = "none"
  BY DEF Find
<1>1. PICK r : r = getRange(k)
  OBVIOUS
<1>2. /\ r.begin \in Nat /\ r.end \in Nat
      /\ r.begin = r.end => r.begin = 0 /\ \A i \in 0 .. Count - 1 : Less(k, KeyOf(i))
      /\ r.begin # r.end => /\ r.begin < r.end /\ r.end <= Count
                            /\ AtMost(KeyOf(r.begin), k)
                            /\ \A i \in 0 .. Count - 1 : i >= r.end => Less(k, KeyOf(i))
  BY <1>1, <1>u, RangeFacts
<1>3. PICK c : c = [NoCall EXCEPT !.key = k, !.l = r.begin, !.u = r.end]
  OBVIOUS
<1>4. c \in CallType /\ c.key = k /\ c.l = r.begin /\ c.u = r.end /\ ~ c.found
  BY <1>2, <1>3, NoCallFacts DEF CallType
<1>5. CASE r.begin = r.end
  <2>1. PICK d : d = [c EXCEPT !.op = "found", !.index = r.begin]
    OBVIOUS
  <2>2. d \in CallType /\ d.op = "found" /\ d.index = 0 /\ d.key = k /\ ~ d.found
    BY <1>2, <1>4, <1>5, <2>1 DEF CallType
  <2>3. call' = [call EXCEPT ![t] = d] /\ acc' = acc
    BY <1>1, <1>3, <1>5, <2>1 DEF Find
  <2>4. /\ acc' = [acc EXCEPT ![t] = acc[t]] /\ AccessOf(t, acc[t]) /\ acc[t].pc = "idle"
    BY <1>u, <2>3, NoCallYet DEF Waiting
  <2>5. FindAnswer(d)
    BY <1>t, <1>2, <1>5, <2>2 DEF FindAnswer
  <2>6. CallOf(d, acc[t])
    BY <1>u, <2>2, <2>4, <2>5 DEF CallOf, Waiting
  <2> QED
    BY <1>u, <2>2, <2>3, <2>4, <2>6, CallStep
<1>6. CASE r.begin # r.end
  <2>1. PICK d : d = [c EXCEPT !.op = "find"]
    OBVIOUS
  <2>2. d \in CallType /\ d.op = "find" /\ d.l = r.begin /\ d.u = r.end /\ d.key = k /\ ~ d.found
    BY <1>2, <1>4, <2>1 DEF CallType
  <2>3. PICK a : a = Request(Middle(r.begin, r.end))
    OBVIOUS
  <2>4. call' = [call EXCEPT ![t] = d] /\ acc' = [acc EXCEPT ![t] = a]
    BY <1>1, <1>3, <1>6, <2>1, <2>3 DEF Find
  <2>5. AccessOf(t, a) /\ a.pc = "get" /\ a.idx = Middle(d.l, d.u)
    <3>1. Middle(r.begin, r.end) \in Nat
      BY <1>2, <1>6, MiddleFacts
    <3> QED
      BY <2>2, <2>3, <3>1, RequestFacts
  <2>6. FindBounds(d)
    BY <1>2, <1>6, <2>2 DEF FindBounds
  <2>7. CallOf(d, a)
    BY SMTT(30), <1>u, <2>2, <2>5, <2>6 DEF CallOf, Waiting
  <2> QED
    BY <1>u, <2>2, <2>4, <2>5, <2>7, CallStep
<1> QED
  BY <1>5, <1>6

\* The fields of a call, one after the other.
LEMMA CallUpdate ==
  ASSUME NEW f \in [Threads -> CallType], NEW t \in Threads
  PROVE  /\ \A x : [f EXCEPT ![t].op = x] = [f EXCEPT ![t] = [f[t] EXCEPT !.op = x]]
         /\ \A x : [f EXCEPT ![t].l = x] = [f EXCEPT ![t] = [f[t] EXCEPT !.l = x]]
         /\ \A x : [f EXCEPT ![t].u = x] = [f EXCEPT ![t] = [f[t] EXCEPT !.u = x]]
         /\ \A x, y : [f EXCEPT ![t].op = x, ![t].index = y]
                        = [f EXCEPT ![t] = [f[t] EXCEPT !.op = x, !.index = y]]
         /\ \A x, y, z : [f EXCEPT ![t].op = x, ![t].found = y, ![t].index = z]
                        = [f EXCEPT ![t] = [f[t] EXCEPT !.op = x, !.found = y, !.index = z]]
<1>0. DOMAIN f = Threads
  OBVIOUS
<1>1. /\ \A x : [f EXCEPT ![t].op = x] = [f EXCEPT ![t] = [f[t] EXCEPT !.op = x]]
      /\ \A x : [f EXCEPT ![t].l = x] = [f EXCEPT ![t] = [f[t] EXCEPT !.l = x]]
      /\ \A x : [f EXCEPT ![t].u = x] = [f EXCEPT ![t] = [f[t] EXCEPT !.u = x]]
  OBVIOUS
<1>2. ASSUME NEW x, NEW y
      PROVE  [f EXCEPT ![t].op = x, ![t].index = y] = [f EXCEPT ![t] = [f[t] EXCEPT !.op = x, !.index = y]]
  <2>1. PICK g : g = [f EXCEPT ![t].op = x, ![t].index = y]
    OBVIOUS
  <2>2. DOMAIN g = Threads /\ g = [s \in Threads |-> g[s]]
    BY <1>0, <2>1
  <2>3. g[t] = [f[t] EXCEPT !.op = x, !.index = y]
    BY <1>0, <2>1
  <2>4. \A s \in Threads : s # t => g[s] = f[s]
    BY <1>0, <2>1
  <2> QED
    BY <1>0, <2>1, <2>2, <2>3, <2>4
<1>3. ASSUME NEW x, NEW y, NEW z
      PROVE  [f EXCEPT ![t].op = x, ![t].found = y, ![t].index = z]
               = [f EXCEPT ![t] = [f[t] EXCEPT !.op = x, !.found = y, !.index = z]]
  <2>1. PICK g : g = [f EXCEPT ![t].op = x, ![t].found = y, ![t].index = z]
    OBVIOUS
  <2>2. DOMAIN g = Threads /\ g = [s \in Threads |-> g[s]]
    BY <1>0, <2>1
  <2>3. g[t] = [f[t] EXCEPT !.op = x, !.found = y, !.index = z]
    BY <1>0, <2>1
  <2>4. \A s \in Threads : s # t => g[s] = f[s]
    BY <1>0, <2>1
  <2> QED
    BY <1>0, <2>1, <2>2, <2>3, <2>4
<1> QED
  BY <1>1, <1>2, <1>3

\* One round of find: the range shrinks around the key, or the answer is there.
LEMMA CompareStep ==
  ASSUME LInv, table \in Seq(Keys), Sorted, NEW t \in Threads, Compare(t)
  PROVE  LInv'
<1>t. Count \in Nat /\ \A i \in 0 .. Count - 1 : KeyOf(i) \in Keys
  BY TableFacts
<1>u. /\ UNCHANGED <<table, m_direntCache, m_bufferMutex, m_buffer, entries, next, got, namespaceBoundaryCache>>
      /\ call[t].op = "find" /\ acc[t].pc = "done"
  BY DEF Compare
<1>f. call \in [Threads -> CallType]
  BY DEF LInv, CallsInv
<1>1. PICK c \in CallType : c = call[t]
  BY <1>f
<1>2. c.op = "find" /\ Built /\ FindBounds(c) /\ ~ c.found /\ acc[t].idx = Middle(c.l, c.u)
  BY <1>1, <1>u DEF LInv, CallsInv, CallOf
<1>3. /\ c.l \in Nat /\ c.u \in Nat /\ c.key \in Keys
      /\ c.l < c.u /\ c.u <= Count /\ AtMost(KeyOf(c.l), c.key)
      /\ \A i \in 0 .. Count - 1 : i >= c.u => Less(c.key, KeyOf(i))
  BY <1>2 DEF CallType, FindBounds
<1>4. PICK p \in Nat : p = Middle(c.l, c.u) /\ c.l <= p /\ p < c.u /\ (p = c.l => c.u = c.l + 1)
  BY <1>3, MiddleFacts
<1>5. acc[t].dirent = p
  BY <1>u, <1>2, <1>4 DEF LInv, AccessInv, AccessOf
<1>6. /\ p \in 0 .. Count - 1 /\ c.l \in 0 .. Count - 1
      /\ KeyOf(p) \in Keys /\ KeyOf(c.l) \in Keys
  BY <1>t, <1>3, <1>4
<1>7. CASE /\ Less(c.key, KeyOf(p))
           /\ call' = [call EXCEPT ![t].u = p]
           /\ acc' = [acc EXCEPT ![t] = Request(Middle(c.l, p))]
  <2>1. PICK d : d = [c EXCEPT !.u = p]
    OBVIOUS
  <2>2. d \in CallType /\ d.op = "find" /\ d.l = c.l /\ d.u = p /\ d.key = c.key /\ ~ d.found
    BY SMTT(30), <1>2, <2>1 DEF CallType
  <2>3. call' = [call EXCEPT ![t] = d]
    BY <1>f, <1>1, <1>7, <2>1, CallUpdate
  <2>4. c.l < p
    BY <1>3, <1>4, <1>6, <1>7, OrderFacts
  <2>5. \A i \in 0 .. Count - 1 : i >= p => Less(c.key, KeyOf(i))
    <3>1. ASSUME NEW i \in 0 .. Count - 1, i >= p PROVE Less(c.key, KeyOf(i))
      <4>1. AtMost(KeyOf(p), KeyOf(i))
        BY <1>6, <3>1 DEF Sorted, AtMost
      <4> QED
        BY <1>t, <1>3, <1>6, <1>7, <4>1, OrderFacts
    <3> QED
      BY <3>1
  <2>6. FindBounds(d)
    BY <1>t, <1>3, <1>4, <2>2, <2>4, <2>5 DEF FindBounds
  <2>7. PICK a : a = Request(Middle(c.l, p))
    OBVIOUS
  <2>8. AccessOf(t, a) /\ a.pc = "get" /\ a.idx = Middle(d.l, d.u)
    BY <1>3, <2>2, <2>4, <2>7, MiddleFacts, RequestFacts
  <2>9. CallOf(d, a)
    BY <1>2, <2>2, <2>6, <2>8 DEF CallOf, Waiting
  <2> QED
    BY <1>u, <1>7, <2>2, <2>3, <2>7, <2>8, <2>9, CallStep
<1>8. CASE /\ Less(KeyOf(p), c.key) /\ c.l = p
           /\ call' = [call EXCEPT ![t].op = "found", ![t].index = c.u]
           /\ acc' = [acc EXCEPT ![t] = NoAccess]
  <2>1. PICK d : d = [c EXCEPT !.op = "found", !.index = c.u]
    OBVIOUS
  <2>2. d \in CallType /\ d.op = "found" /\ d.index = c.u /\ d.key = c.key /\ ~ d.found
    BY <1>2, <1>3, <2>1 DEF CallType
  <2>3. call' = [call EXCEPT ![t] = d]
    <3>1. \A x, y : [call EXCEPT ![t].op = x, ![t].index = y] = [call EXCEPT ![t] = [call[t] EXCEPT !.op = x, !.index = y]]
      BY <1>f, CallUpdate
    <3> QED
      BY <1>1, <1>8, <2>1, <3>1, Zenon
  <2>4. ASSUME NEW i \in 0 .. Count - 1, i < c.u PROVE Less(KeyOf(i), c.key)
    <3>1. AtMost(KeyOf(i), KeyOf(p))
      BY <1>3, <1>4, <1>6, <1>8, <2>4 DEF Sorted, AtMost
    <3> QED
      BY <1>t, <1>3, <1>6, <1>8, <3>1, OrderFacts
  <2>5. \A i \in 0 .. Count - 1 : IF i < c.u THEN Less(KeyOf(i), c.key) ELSE Less(c.key, KeyOf(i))
    BY <1>3, <2>4
  <2>6. FindAnswer(d)
    BY <1>3, <2>2, <2>5 DEF FindAnswer
  <2>7. AccessOf(t, NoAccess) /\ NoAccess.pc = "idle"
    BY RequestFacts
  <2>8. CallOf(d, NoAccess)
    BY <1>2, <2>2, <2>6, <2>7 DEF CallOf, Waiting
  <2> QED
    BY <1>u, <1>8, <2>2, <2>3, <2>7, <2>8, CallStep
<1>9. CASE /\ Less(KeyOf(p), c.key) /\ c.l # p
           /\ call' = [call EXCEPT ![t].l = p]
           /\ acc' = [acc EXCEPT ![t] = Request(Middle(p, c.u))]
  <2>1. PICK d : d = [c EXCEPT !.l = p]
    OBVIOUS
  <2>2. d \in CallType /\ d.op = "find" /\ d.l = p /\ d.u = c.u /\ d.key = c.key /\ ~ d.found
    BY SMTT(30), <1>2, <2>1 DEF CallType
  <2>3. call' = [call EXCEPT ![t] = d]
    BY <1>f, <1>1, <1>9, <2>1, CallUpdate
  <2>4. FindBounds(d)
    BY <1>3, <1>4, <1>9, <2>2 DEF FindBounds, AtMost
  <2>5. PICK a : a = Request(Middle(p, c.u))
    OBVIOUS
  <2>6. AccessOf(t, a) /\ a.pc = "get" /\ a.idx = Middle(d.l, d.u)
    BY <1>3, <1>4, <2>2, <2>5, MiddleFacts, RequestFacts
  <2>7. CallOf(d, a)
    BY <1>2, <2>2, <2>4, <2>6 DEF CallOf, Waiting
  <2> QED
    BY <1>u, <1>9, <2>2, <2>3, <2>5, <2>6, <2>7, CallStep
<1>10. CASE /\ c.key = KeyOf(p)
            /\ call' = [call EXCEPT ![t].op = "found", ![t].found = TRUE, ![t].index = p]
            /\ acc' = [acc EXCEPT ![t] = NoAccess]
  <2>1. PICK d : d = [c EXCEPT !.op = "found", !.found = TRUE, !.index = p]
    OBVIOUS
  <2>2. d \in CallType /\ d.op = "found" /\ d.index = p /\ d.key = c.key /\ d.found
    BY <1>2, <1>3, <2>1 DEF CallType
  <2>3. call' = [call EXCEPT ![t] = d]
    <3>1. \A x, y, z : [call EXCEPT ![t].op = x, ![t].found = y, ![t].index = z]
                         = [call EXCEPT ![t] = [call[t] EXCEPT !.op = x, !.found = y, !.index = z]]
      BY <1>f, CallUpdate
    <3> QED
      BY <1>1, <1>10, <2>1, <3>1, Zenon
  <2>4. FindAnswer(d)
    BY <1>t, <1>6, <1>10, <2>2 DEF FindAnswer
  <2>5. AccessOf(t, NoAccess) /\ NoAccess.pc = "idle"
    BY RequestFacts
  <2>6. CallOf(d, NoAccess)
    BY <1>2, <2>2, <2>4, <2>5 DEF CallOf, Waiting
  <2> QED
    BY <1>u, <1>10, <2>2, <2>3, <2>5, <2>6, CallStep
<1> QED
  BY <1>1, <1>4, <1>5, <1>7, <1>8, <1>9, <1>10 DEF Compare

-----------------------------------------------------------------------------
(* The namespace boundaries *)

LEMMA BoundaryCachedStep ==
  ASSUME LInv, NEW t \in Threads, NEW ch \in Namespaces, BoundaryCached(t, ch)
  PROVE  LInv'
<1>u. /\ UNCHANGED <<table, m_direntCache, m_bufferMutex, m_buffer, entries, next, got, namespaceBoundaryCache>>
      /\ acc' = acc /\ Built /\ call[t].op = "none"
  BY DEF BoundaryCached, accessorVars
<1>1. PICK b \in namespaceBoundaryCache :
        /\ b.ns = ch
        /\ call' = [call EXCEPT ![t] = [NoCall EXCEPT !.op = "bounded", !.ch = ch, !.index = b.index]]
  BY DEF BoundaryCached
<1>2. b.index \in Nat /\ b.index <= Count /\ Boundary(ch, b.index)
  BY <1>1 DEF LInv, BoundaryCacheInv
<1>3. PICK d : d = [NoCall EXCEPT !.op = "bounded", !.ch = ch, !.index = b.index]
  OBVIOUS
<1>4. d \in CallType /\ d.op = "bounded" /\ d.ch = ch /\ d.index = b.index
  BY <1>2, <1>3, NoCallFacts, LookupAssumption DEF CallType
<1>5. /\ acc' = [acc EXCEPT ![t] = acc[t]] /\ AccessOf(t, acc[t]) /\ acc[t].pc = "idle"
  BY <1>u, NoCallYet DEF Waiting
<1>6. CallOf(d, acc[t])
  BY <1>u, <1>2, <1>4, <1>5 DEF CallOf, Waiting
<1> QED
  BY <1>u, <1>1, <1>3, <1>4, <1>5, <1>6, CallStep

LEMMA BoundaryMissedStep ==
  ASSUME LInv, table \in Seq(Keys), NEW t \in Threads, NEW ch \in Namespaces, BoundaryMissed(t, ch)
  PROVE  LInv'
<1>t. Count \in Nat
  BY TableFacts
<1>u. /\ UNCHANGED <<table, m_direntCache, m_bufferMutex, m_buffer, entries, next, got, namespaceBoundaryCache>>
      /\ Built /\ call[t].op = "none"
      /\ call' = [call EXCEPT ![t] = [NoCall EXCEPT !.op = "first", !.ch = ch, !.u = Count]]
      /\ acc' = [acc EXCEPT ![t] = Request(0)]
  BY DEF BoundaryMissed
<1>1. PICK d : d = [NoCall EXCEPT !.op = "first", !.ch = ch, !.u = Count]
  OBVIOUS
<1>2. d \in CallType /\ d.op = "first" /\ d.l = 0 /\ d.u = Count
  BY <1>t, <1>1, NoCallFacts, LookupAssumption DEF CallType
<1>3. PICK a : a = Request(0)
  OBVIOUS
<1>4. AccessOf(t, a) /\ a.pc = "get" /\ a.idx = 0
  BY <1>3, RequestFacts
<1>5. CallOf(d, a)
  BY <1>u, <1>2, <1>4 DEF CallOf, Waiting
<1> QED
  BY <1>u, <1>1, <1>2, <1>3, <1>4, <1>5, CallStep

\* The bisection goes on, or has found where the namespace begins.
LEMMA BisectStep ==
  ASSUME LInv, table \in Seq(Keys), Sorted, Built,
         UNCHANGED <<table, m_direntCache, m_bufferMutex, m_buffer, entries, next, got, namespaceBoundaryCache>>,
         NEW t \in Threads, NEW c \in CallType, NamespaceBounds(c), Bisect(t, c)
  PROVE  LInv'
<1>t. Count \in Nat /\ \A i \in 0 .. Count - 1 : KeyOf(i) \in Keys
  BY TableFacts
<1>1. /\ c.l \in Nat /\ c.u \in Nat /\ c.ch \in Int /\ c.first \in BOOLEAN
      /\ c.l < c.u /\ c.u <= Count
      /\ IF c.first THEN Ns(KeyOf(c.l)) < c.ch ELSE c.l = 0 /\ ~ Ns(KeyOf(0)) < c.ch
      /\ \A i \in 0 .. Count - 1 : i >= c.u => ~ Ns(KeyOf(i)) < c.ch
  BY DEF CallType, NamespaceBounds
<1>2. CASE c.u - c.l > 1
  <2>1. PICK d : d = [c EXCEPT !.op = "bisect"]
    OBVIOUS
  <2>2. d \in CallType /\ d.op = "bisect" /\ d.l = c.l /\ d.u = c.u /\ d.first = c.first /\ d.ch = c.ch
    BY <2>1 DEF CallType
  <2>3. PICK a : a = Request(Middle(c.l, c.u))
    OBVIOUS
  <2>4. call' = [call EXCEPT ![t] = d] /\ acc' = [acc EXCEPT ![t] = a]
    BY <1>2, <2>1, <2>3 DEF Bisect
  <2>5. AccessOf(t, a) /\ a.pc = "get" /\ a.idx = Middle(d.l, d.u)
    BY <1>1, <2>2, <2>3, MiddleFacts, RequestFacts
  <2>6. NamespaceBounds(d)
    BY <2>2 DEF NamespaceBounds
  <2>7. CallOf(d, a)
    BY <1>2, <2>2, <2>5, <2>6 DEF CallOf, Waiting
  <2> QED
    BY <2>2, <2>4, <2>5, <2>7, CallStep
<1>3. CASE ~ (c.u - c.l > 1)
  <2>1. c.u = c.l + 1 /\ c.l \in 0 .. Count - 1 /\ 0 \in 0 .. Count - 1
    BY <1>t, <1>1, <1>3
  <2>2. PICK n \in Nat : n = IF c.first THEN c.u ELSE c.l
    BY <1>1
  <2>3. PICK d : d = [c EXCEPT !.op = "store", !.index = n]
    OBVIOUS
  <2>4. d \in CallType /\ d.op = "store" /\ d.index = n /\ d.ch = c.ch
    BY <2>3 DEF CallType
  <2>5. call' = [call EXCEPT ![t] = d] /\ acc' = [acc EXCEPT ![t] = NoAccess]
    BY <1>3, <2>2, <2>3 DEF Bisect
  <2>6. Boundary(c.ch, n)
    <3>0. \A i \in 0 .. Count - 1 : Ns(KeyOf(i)) \in Int
      BY <1>t, OrderFacts
    <3>1. ASSUME NEW i \in 0 .. Count - 1, NEW j \in 0 .. Count - 1, i <= j PROVE Ns(KeyOf(i)) <= Ns(KeyOf(j))
      <4>1. AtMost(KeyOf(i), KeyOf(j))
        BY <3>1 DEF Sorted, AtMost
      <4> QED
        BY <1>t, <4>1, OrderFacts
    <3>2. CASE c.first
      <4>1. ASSUME NEW i \in 0 .. Count - 1, i < n PROVE Ns(KeyOf(i)) < c.ch
        <5>1. i <= c.l
          BY <1>1, <2>1, <2>2, <3>2, <4>1
        <5>2. Ns(KeyOf(i)) <= Ns(KeyOf(c.l)) /\ Ns(KeyOf(c.l)) < c.ch
          BY <1>1, <2>1, <3>1, <3>2, <5>1
        <5> QED
          BY <1>1, <2>1, <3>0, <5>2
      <4>2. ASSUME NEW i \in 0 .. Count - 1, ~ (i < n) PROVE ~ Ns(KeyOf(i)) < c.ch
        BY <1>1, <2>2, <3>2, <4>2
      <4> QED
        BY <4>1, <4>2 DEF Boundary
    <3>3. CASE ~ c.first
      <4>1. n = 0 /\ ~ Ns(KeyOf(0)) < c.ch
        BY <1>1, <2>2, <3>3
      <4>2. ASSUME NEW i \in 0 .. Count - 1 PROVE ~ Ns(KeyOf(i)) < c.ch
        <5>1. Ns(KeyOf(0)) <= Ns(KeyOf(i))
          BY <2>1, <3>1
        <5> QED
          BY <1>1, <2>1, <3>0, <4>1, <5>1
      <4> QED
        BY <4>1, <4>2 DEF Boundary
    <3> QED
      BY <1>1, <3>2, <3>3
  <2>7. n <= Count
    BY <1>t, <1>1, <2>2
  <2>8. AccessOf(t, NoAccess) /\ NoAccess.pc = "idle"
    BY RequestFacts
  <2>9. CallOf(d, NoAccess)
    BY <2>4, <2>6, <2>7, <2>8 DEF CallOf, Waiting
  <2> QED
    BY <2>4, <2>5, <2>8, <2>9, CallStep
<1> QED
  BY <1>2, <1>3

LEMMA BoundaryFirstStep ==
  ASSUME LInv, table \in Seq(Keys), Sorted, NEW t \in Threads, BoundaryFirst(t)
  PROVE  LInv'
<1>t. Count \in Nat
  BY TableFacts
<1>f. call \in [Threads -> CallType]
  BY DEF LInv, CallsInv
<1>u. /\ UNCHANGED <<table, m_direntCache, m_bufferMutex, m_buffer, entries, next, got, namespaceBoundaryCache>>
      /\ call[t].op = "first" /\ acc[t].pc = "done"
  BY DEF BoundaryFirst
<1>1. PICK c \in CallType : c = call[t]
  BY <1>f
<1>2. Built /\ acc[t].idx = 0 /\ c.l = 0 /\ c.u = Count
  BY <1>1, <1>u DEF LInv, CallsInv, CallOf
<1>3. acc[t].dirent = 0 /\ 0 < Count
  BY <1>u, <1>2 DEF LInv, AccessInv, AccessOf
<1>4. PICK first \in BOOLEAN : first = (Ns(KeyOf(0)) < c.ch)
  <2>1. CASE Ns(KeyOf(0)) < c.ch
    <3>1. TRUE = (Ns(KeyOf(0)) < c.ch)
      BY <2>1
    <3> QED
      BY <3>1
  <2>2. CASE ~ Ns(KeyOf(0)) < c.ch
    <3>1. FALSE = (Ns(KeyOf(0)) < c.ch)
      BY <2>2
    <3> QED
      BY <3>1
  <2> QED
    BY <2>1, <2>2
<1>5. PICK d : d = [c EXCEPT !.first = first]
  OBVIOUS
<1>6. /\ d \in CallType /\ d.l = 0 /\ d.u = Count /\ d.ch = c.ch
      /\ d.first <=> Ns(KeyOf(0)) < c.ch
  <2>1. d \in CallType /\ d.l = 0 /\ d.u = Count /\ d.ch = c.ch /\ d.first = first
    BY <1>2, <1>5 DEF CallType
  <2> QED
    BY <1>4, <2>1
<1>7. NamespaceBounds(d)
  BY <1>t, <1>3, <1>6 DEF NamespaceBounds
<1>8. Bisect(t, d)
  <2>1. Bisect(t, [c EXCEPT !.first = Ns(KeyOf(0)) < c.ch])
    BY <1>1, <1>3 DEF BoundaryFirst
  <2> QED
    BY <1>4, <1>5, <2>1
<1> QED
  BY <1>u, <1>2, <1>6, <1>7, <1>8, BisectStep

LEMMA BoundaryProbeStep ==
  ASSUME LInv, table \in Seq(Keys), Sorted, NEW t \in Threads, BoundaryProbe(t)
  PROVE  LInv'
<1>t. Count \in Nat /\ \A i \in 0 .. Count - 1 : KeyOf(i) \in Keys
  BY TableFacts
<1>f. call \in [Threads -> CallType]
  BY DEF LInv, CallsInv
<1>u. /\ UNCHANGED <<table, m_direntCache, m_bufferMutex, m_buffer, entries, next, got, namespaceBoundaryCache>>
      /\ call[t].op = "bisect" /\ acc[t].pc = "done"
  BY DEF BoundaryProbe
<1>1. PICK c \in CallType : c = call[t]
  BY <1>f
<1>2. Built /\ acc[t].idx = Middle(c.l, c.u) /\ NamespaceBounds(c) /\ c.u - c.l > 1
  BY <1>1, <1>u DEF LInv, CallsInv, CallOf
<1>3. /\ c.l \in Nat /\ c.u \in Nat /\ c.ch \in Int /\ c.first \in BOOLEAN
      /\ c.l < c.u /\ c.u <= Count
      /\ IF c.first THEN Ns(KeyOf(c.l)) < c.ch ELSE c.l = 0 /\ ~ Ns(KeyOf(0)) < c.ch
      /\ \A i \in 0 .. Count - 1 : i >= c.u => ~ Ns(KeyOf(i)) < c.ch
  BY <1>2 DEF CallType, NamespaceBounds
<1>4. PICK m \in Nat : m = Middle(c.l, c.u) /\ c.l < m /\ m < c.u
  BY <1>2, <1>3, MiddleFacts
<1>5. acc[t].dirent = m
  BY <1>u, <1>2, <1>4 DEF LInv, AccessInv, AccessOf
<1>6. m \in 0 .. Count - 1 /\ 0 \in 0 .. Count - 1 /\ KeyOf(m) \in Keys /\ Ns(KeyOf(m)) \in Int /\ Ns(KeyOf(0)) \in Int
  BY <1>t, <1>3, <1>4, OrderFacts
<1>s. ASSUME NEW i \in 0 .. Count - 1, NEW j \in 0 .. Count - 1, i <= j PROVE Ns(KeyOf(i)) <= Ns(KeyOf(j))
  <2>1. AtMost(KeyOf(i), KeyOf(j))
    BY <1>s DEF Sorted, AtMost
  <2> QED
    BY <1>t, <2>1, OrderFacts
<1>7. CASE Ns(KeyOf(m)) >= c.ch
  <2>1. PICK d : d = [c EXCEPT !.u = m]
    OBVIOUS
  <2>2. d \in CallType /\ d.l = c.l /\ d.u = m /\ d.first = c.first /\ d.ch = c.ch
    BY <2>1 DEF CallType
  <2>3. ASSUME NEW i \in 0 .. Count - 1, i >= m PROVE ~ Ns(KeyOf(i)) < c.ch
    <3>1. Ns(KeyOf(m)) <= Ns(KeyOf(i)) /\ Ns(KeyOf(i)) \in Int
      BY <1>t, <1>6, <1>s, <2>3, OrderFacts
    <3> QED
      BY <1>3, <1>6, <1>7, <3>1
  <2>4. NamespaceBounds(d)
    BY <1>t, <1>3, <1>4, <2>2, <2>3 DEF NamespaceBounds
  <2>5. Bisect(t, d)
    BY <1>1, <1>4, <1>5, <1>7, <2>1 DEF BoundaryProbe
  <2> QED
    BY <1>u, <1>2, <2>2, <2>4, <2>5, BisectStep
<1>8. CASE ~ (Ns(KeyOf(m)) >= c.ch)
  <2>1. PICK d : d = [c EXCEPT !.l = m]
    OBVIOUS
  <2>2. d \in CallType /\ d.l = m /\ d.u = c.u /\ d.first = c.first /\ d.ch = c.ch
    BY <2>1 DEF CallType
  <2>3. c.first /\ Ns(KeyOf(m)) < c.ch
    <3>1. Ns(KeyOf(0)) <= Ns(KeyOf(m))
      BY <1>4, <1>6, <1>s
    <3> QED
      BY <1>3, <1>6, <1>8, <3>1
  <2>4. NamespaceBounds(d)
    BY <1>3, <1>4, <2>2, <2>3 DEF NamespaceBounds
  <2>5. Bisect(t, d)
    BY <1>1, <1>4, <1>5, <1>8, <2>1 DEF BoundaryProbe
  <2> QED
    BY <1>u, <1>2, <2>2, <2>4, <2>5, BisectStep
<1> QED
  BY <1>7, <1>8

LEMMA BoundaryThrowsStep == ASSUME LInv, NEW t \in Threads, BoundaryThrows(t) PROVE LInv'
<1>f. call \in [Threads -> CallType]
  BY DEF LInv, CallsInv
<1>u. /\ UNCHANGED <<table, m_direntCache, m_bufferMutex, m_buffer, entries, next, got, namespaceBoundaryCache>>
      /\ call[t].op = "first" /\ call' = [call EXCEPT ![t].op = "threw"]
      /\ acc' = [acc EXCEPT ![t] = NoAccess]
  BY DEF BoundaryThrows
<1>1. PICK c \in CallType : c = call[t]
  BY <1>f
<1>2. Built
  BY <1>u DEF LInv, CallsInv, CallOf
<1>3. PICK d : d = [c EXCEPT !.op = "threw"]
  OBVIOUS
<1>4. d \in CallType /\ d.op = "threw"
  BY <1>3 DEF CallType
<1>5. call' = [call EXCEPT ![t] = d]
  BY <1>f, <1>u, <1>1, <1>3, CallUpdate
<1>6. AccessOf(t, NoAccess) /\ NoAccess.pc = "idle"
  BY RequestFacts
<1>7. CallOf(d, NoAccess)
  BY <1>2, <1>4, <1>6 DEF CallOf, Waiting
<1> QED
  BY <1>u, <1>4, <1>5, <1>6, <1>7, CallStep

\* The boundary goes into the cache as it was found.
LEMMA BoundaryStoreStep == ASSUME LInv, NEW t \in Threads, BoundaryStore(t) PROVE LInv'
<1>f. call \in [Threads -> CallType]
  BY DEF LInv, CallsInv
<1>u. /\ UNCHANGED <<table, m_direntCache, m_bufferMutex, m_buffer, entries, next, got>> /\ acc' = acc
      /\ call[t].op = "store" /\ call' = [call EXCEPT ![t].op = "bounded"]
  BY DEF BoundaryStore, accessorVars
<1>1. PICK c \in CallType : c = call[t]
  BY <1>f
<1>2. Built /\ c.index <= Count /\ Boundary(c.ch, c.index) /\ c.index \in Nat
  BY <1>1, <1>u DEF LInv, CallsInv, CallOf, CallType
<1>3. PICK d : d = [c EXCEPT !.op = "bounded"]
  OBVIOUS
<1>4. d \in CallType /\ d.op = "bounded" /\ d.index = c.index /\ d.ch = c.ch
  BY <1>3 DEF CallType
<1>5. call' = [call EXCEPT ![t] = d]
  BY <1>f, <1>u, <1>1, <1>3, CallUpdate
<1>6. /\ acc' = [acc EXCEPT ![t] = acc[t]] /\ AccessOf(t, acc[t]) /\ acc[t].pc = "idle"
  BY <1>u, NoCallYet DEF Waiting
<1>7. CallOf(d, acc[t])
  BY <1>2, <1>4, <1>6 DEF CallOf, Waiting
<1>8. CacheInv' /\ AccessInv' /\ GridInv' /\ ConstructInv' /\ CallsInv'
  BY <1>u, <1>4, <1>5, <1>6, <1>7, OneThread
<1>9. BoundaryCacheInv'
  <2>1. \A b \in namespaceBoundaryCache' : b \in namespaceBoundaryCache \/ b = [ns |-> c.ch, index |-> c.index]
    BY <1>1 DEF BoundaryStore
  <2>2. ASSUME NEW b \in namespaceBoundaryCache' PROVE b.index \in Nat /\ b.index <= Count /\ Boundary(b.ns, b.index)
    <3>1. CASE b \in namespaceBoundaryCache
      BY <3>1 DEF LInv, BoundaryCacheInv
    <3>2. CASE b = [ns |-> c.ch, index |-> c.index]
      BY <1>2, <3>2
    <3> QED
      BY <2>1, <3>1, <3>2
  <2>3. Count' = Count /\ \A ch, i : Boundary(ch, i)' <=> Boundary(ch, i)
    BY <1>u, TableFixed
  <2> QED
    BY <2>2, <2>3 DEF BoundaryCacheInv
<1> QED
  BY <1>8, <1>9 DEF LInv

LEMMA AnsweredStep == ASSUME LInv, NEW t \in Threads, Answered(t) PROVE LInv'
<1>u. /\ UNCHANGED <<table, m_direntCache, m_bufferMutex, m_buffer, entries, next, got, namespaceBoundaryCache>>
      /\ acc' = acc /\ call[t].op \in {"found", "bounded", "threw"} /\ call' = [call EXCEPT ![t] = NoCall]
  BY DEF Answered, accessorVars
<1>1. /\ acc' = [acc EXCEPT ![t] = acc[t]] /\ AccessOf(t, acc[t]) /\ acc[t].pc = "idle"
  BY <1>u, NoCallYet DEF Waiting
<1>2. CallOf(NoCall, acc[t])
  BY <1>1, NoCallFacts DEF CallOf, Waiting
<1> QED
  BY <1>u, <1>1, <1>2, NoCallFacts, CallStep

-----------------------------------------------------------------------------
(* Theorems *)

LEMMA LookupInit == ASSUME Init PROVE LookupInv
<1>1. table \in Seq(Keys)
  BY LookupAssumption DEF Init, AccessorInit
<1>t. Count \in Nat /\ Step \in Nat /\ Step >= 1
  BY <1>1, TableFacts
<1>2. CacheInv
  BY DEF Init, AccessorInit, CacheInv
<1>3. AccessInv
  <2>1. acc = [t \in Threads |-> NoAccess]
    BY DEF Init, AccessorInit
  <2>2. acc = [t \in Threads |-> acc[t]] /\ \A t \in Threads : acc[t] = NoAccess
    BY <2>1
  <2>3. \A t : AccessOf(t, NoAccess)
    BY RequestFacts
  <2> QED
    BY <2>2, <2>3 DEF AccessInv
<1>4. GridInv
  <2>1. next = 0 /\ entries = <<>> /\ Len(entries) = 0
    BY DEF Init
  <2>2. ~ Built /\ next < Count + Step
    BY <1>t, <2>1 DEF Built
  <2>3. entries \in Seq([key : Keys, lindex : Nat])
    BY <2>1
  <2> QED
    BY <2>1, <2>2, <2>3 DEF GridInv
<1>5. CallsInv
  <2>1. call = [t \in Threads |-> NoCall] /\ acc = [t \in Threads |-> NoAccess]
    BY DEF Init, AccessorInit
  <2>2. CallOf(NoCall, NoAccess)
    BY NoCallFacts, RequestFacts DEF CallOf, Waiting, NoAccess
  <2> QED
    <3>1. \A t \in Threads : call[t] = NoCall /\ acc[t] = NoAccess
      BY <2>1
    <3>2. \A t \in Threads : CallOf(call[t], acc[t])
      BY <2>2, <3>1
    <3> QED
      BY <2>1, <3>2, NoCallFacts DEF CallsInv
<1>6. BoundaryCacheInv
  <2>1. namespaceBoundaryCache = {}
    BY DEF Init
  <2> QED
    BY <2>1 DEF BoundaryCacheInv
<1>7. ConstructInv
  <2>1. got = {} /\ \A t \in Threads : acc[t] = NoAccess
    BY DEF Init, AccessorInit
  <2> QED
    BY <2>1 DEF ConstructInv, NoAccess
<1> QED
  BY <1>1, <1>2, <1>3, <1>4, <1>5, <1>6, <1>7 DEF LookupInv, LInv

\* Nobody changes the table.
LEMMA TableStays == ASSUME [Next]_vars PROVE table' = table
BY ZenonT(30) DEF Next, vars, Construct, GetDirentKey, DirentKeyRead, AddEntry, Close, Call, Find, BoundaryCached, BoundaryMissed,
       Lookup, Compare, BoundaryFirst, BoundaryThrows, BoundaryProbe, BoundaryStore, Answered,
       Access, GetDirent, GetHit, GetMiss, LockBuffer, ReadBuffer, InitDirent, PutDirent, Finished

LEMMA LookupNext == ASSUME LookupInv, [Next]_vars PROVE LookupInv'
<1>1. table' = table /\ table \in Seq(Keys) /\ table' \in Seq(Keys)
  BY TableStays DEF LookupInv
<1>2. Sorted' <=> Sorted
  BY <1>1, TableFixed DEF Sorted
<1>3. ASSUME Sorted PROVE LInv'
  <2>0. LInv
    BY <1>3 DEF LookupInv
  <2>1. CASE Construct
    BY <1>1, <1>3, <2>0, <2>1, GetDirentKeyStep, DirentKeyReadStep, AddEntryStep, CloseStep DEF Construct
  <2>2. ASSUME NEW t \in Threads, Call(t) PROVE LInv'
    <3>1. CASE \E k \in Keys : Find(t, k)
      BY <1>1, <1>3, <2>0, <3>1, FindStep
    <3>2. CASE \E ch \in Namespaces : BoundaryCached(t, ch) \/ BoundaryMissed(t, ch)
      BY <1>1, <1>3, <2>0, <3>2, BoundaryCachedStep, BoundaryMissedStep
    <3> QED
      BY <2>2, <3>1, <3>2 DEF Call
  <2>3. ASSUME NEW t \in Threads, Lookup(t) PROVE LInv'
    BY <1>1, <1>3, <2>0, <2>3, CompareStep, BoundaryFirstStep, BoundaryThrowsStep, BoundaryProbeStep,
       BoundaryStoreStep, AnsweredStep DEF Lookup
  <2>4. ASSUME NEW t \in Threads, Access(t) PROVE LInv'
    BY <1>1, <2>0, <2>4, AccessStep
  <2>5. CASE UNCHANGED vars
    <3>1. UNCHANGED <<table, m_direntCache, m_bufferMutex, m_buffer, acc, entries, next, got, namespaceBoundaryCache, call>>
      BY <2>5 DEF vars, accessorVars, lookupVars
    <3>2. GridInv' /\ (Built' <=> Built)
      BY <2>0, <3>1, GridFixed DEF LInv
    <3> QED
      <4>1. ConstructInv'
        BY <2>0, <3>1, ConstructFixed DEF LInv, ConstructInv
      <4> QED
        BY <2>0, <3>1, <3>2, <4>1, CacheFixed, AccessFixed, CallsFixed, BoundariesFixed DEF LInv
  <2> QED
    BY <2>1, <2>2, <2>3, <2>4, <2>5 DEF Next, Finished
<1> QED
  BY <1>1, <1>2, <1>3 DEF LookupInv

\* The cache, the shared buffer, the grid and the calls under way are as
\* LookupInv says, for any table and any number of threads.
THEOREM LookupInvariance == Spec => []LookupInv
<1>1. Init => LookupInv
  BY LookupInit
<1>2. LookupInv /\ [Next]_vars => LookupInv'
  BY LookupNext
<1> QED
  BY <1>1, <1>2, PTL DEF Spec

\* DirentLookup::find is right: it returns a dirent with the key, or where it
\* would be.
THEOREM FindIsExact == Spec => []FindExact
<1>1. LookupInv => FindExact
  BY DEF LookupInv, LInv, CallsInv, CallOf, FindAnswer, FindExact
<1> QED
  BY <1>1, LookupInvariance, PTL

\* DirentLookup::getNamespaceRangeBegin and getNamespaceRangeEnd are right, at
\* once and from the cache of boundaries.
THEOREM BoundariesAreExact == Spec => []BoundariesExact
<1>1. LookupInv => BoundariesExact
  BY DEF LookupInv, LInv, CallsInv, CallOf, BoundaryCacheInv, BoundariesExact
<1> QED
  BY <1>1, LookupInvariance, PTL
=============================================================================
