----------------------------- MODULE DirentLookup -----------------------------
(***************************************************************************)
(* zim::DirentLookup and zim::NarrowDown: where a key is, or would be, in  *)
(* the sorted table of dirents, and where a namespace begins.  The lookup  *)
(* holds a grid of every step-th key in memory, shortened where possible,  *)
(* and goes on from there by bisection with dirents from the accessor.     *)
(*                                                                         *)
(* The object is made by the constructor of FileImpl, in one thread, which *)
(* reads dirents for that as any other, and then used by all of them.      *)
(***************************************************************************)
EXTENDS DirentAccessor

CONSTANTS
  Keys,            \* namespace and url, put together
  Less(_, _),      \* the order of std::string
  Between(_, _),   \* NarrowDown::shortestStringInBetween
  Ns(_),           \* the namespace of a key
  Namespaces,      \* what may be asked for
  Opener,          \* the thread that opens the archive
  CacheEntryCount, \* ZIM_DIRENTLOOKUPCACHE
  MaxCalls         \* bound on the number of calls

AtMost(a, b) == Less(a, b) \/ a = b

ASSUME KeyAssumption ==
  /\ \A a \in Keys : ~ Less(a, a) /\ Ns(a) \in Int
  /\ \A a, b \in Keys : Less(a, b) \/ a = b \/ Less(b, a)
  /\ \A a, b, c \in Keys : Less(a, b) /\ Less(b, c) => Less(a, c)
  /\ \A a, b \in Keys : Less(a, b) => Ns(a) <= Ns(b)

\* What the grid needs of its shortened keys.
ASSUME BetweenAssumption ==
  \A a, b \in Keys : AtMost(a, b) =>
    LET p == Between(a, b) IN p \in Keys /\ AtMost(a, p) /\ AtMost(p, b)

ASSUME LookupAssumption ==
  /\ Keys # {} /\ Tables \subseteq Seq(Keys)
  /\ CacheEntryCount \in Nat \ {0}
  /\ Opener \in Threads
  /\ MaxCalls \in Nat
  /\ Namespaces \subseteq Int

VARIABLES
  entries, \* the grid: [key, lindex]
  next,    \* the constructor's i; beyond the table when it is done
  got,     \* the keys that it has read for its next entry: [idx, key]
  namespaceBoundaryCache, \* [namespace |-> index], as a set of pairs
  call,    \* what each thread is looking for
  calls    \* the number of calls made

lookupVars == <<entries, next, got, namespaceBoundaryCache, call, calls>>
vars == <<table, accessorVars, lookupVars>>

NoCall == [op |-> "none", key |-> CHOOSE k \in Keys : TRUE, ch |-> 0, l |-> 0, u |-> 0,
           first |-> FALSE, found |-> FALSE, index |-> 0]

-----------------------------------------------------------------------------
(* NarrowDown *)

\* DirentLookup(_impl, cacheEntryCount): every step-th key is in the grid.
Step == IF Count \div CacheEntryCount < 1 THEN 1 ELSE Count \div CacheEntryCount

Built == next = Count + Step

\* The keys that the constructor needs: for add those of i and i + 1, which are
\* arguments and read in either order, for close that of the last dirent.
Wanted == IF Count = 0 THEN {} ELSE IF next < Count - 1 THEN {next, next + 1} ELSE {Count - 1}

\* getDirentKey(i) asks for the dirent ...
GetDirentKey(i) ==
  /\ ~ Built /\ acc[Opener].pc = "idle"
  /\ i \in Wanted /\ \A g \in got : g.idx # i
  /\ acc' = [acc EXCEPT ![Opener] = Request(i)]
  /\ UNCHANGED <<table, m_direntCache, m_bufferMutex, m_buffer, lookupVars>>

\* ... and has it.
DirentKeyRead ==
  /\ ~ Built /\ acc[Opener].pc = "done"
  /\ got' = got \cup {[idx |-> acc[Opener].idx, key |-> KeyOf(acc[Opener].dirent)]}
  /\ acc' = [acc EXCEPT ![Opener] = NoAccess]
  /\ UNCHANGED <<table, m_direntCache, m_bufferMutex, m_buffer, entries, next,
                 namespaceBoundaryCache, call, calls>>

KeysRead == ~ Built /\ acc[Opener].pc = "idle" /\ \A i \in Wanted : \E g \in got : g.idx = i
KeyRead(i) == (CHOOSE g \in got : g.idx = i).key

\* add(key, i, nextKey): the first key is kept as it is.
PseudoKey(i) == IF entries = <<>> THEN KeyRead(i) ELSE Between(KeyRead(i), KeyRead(i + 1))

OutOfOrder(i) == \/ Less(KeyRead(i + 1), KeyRead(i))
                 \/ entries # <<>> /\ Less(PseudoKey(i), entries[Len(entries)].key)

\* The loop of the constructor
AddEntry ==
  /\ KeysRead /\ next < Count - 1
  /\ ~ OutOfOrder(next)
  /\ entries' = Append(entries, [key |-> PseudoKey(next), lindex |-> next])
  /\ next' = next + Step
  /\ got' = {}
  /\ UNCHANGED <<table, accessorVars, namespaceBoundaryCache, call, calls>>

\* close
Close ==
  /\ KeysRead /\ Count - 1 <= next
  /\ entries' = IF Count = 0 THEN entries
                ELSE Append(entries, [key |-> KeyRead(Count - 1), lindex |-> Count - 1])
  /\ next' = Count + Step
  /\ got' = {}
  /\ UNCHANGED <<table, accessorVars, namespaceBoundaryCache, call, calls>>

\* upper_bound: the entries whose key is not greater come first.
NotGreater(k) == {e \in 1 .. Len(entries) : AtMost(entries[e].key, k)}

\* getRange
getRange(k) ==
  LET n == CHOOSE m \in 0 .. Len(entries) : NotGreater(k) = 1 .. m
  IN  IF n = 0 THEN [begin |-> 0, end |-> 0]
      ELSE [begin |-> entries[n].lindex,
            end   |-> IF n = Len(entries) THEN entries[n].lindex + 1 ELSE entries[n + 1].lindex + 1]

-----------------------------------------------------------------------------
(* find(ns, url) *)

Middle(l, u) == l + (u - l) \div 2

Find(t, k) ==
  /\ Built /\ call[t].op = "none" /\ calls < MaxCalls
  /\ calls' = calls + 1
  /\ LET r == getRange(k)
         c == [NoCall EXCEPT !.key = k, !.l = r.begin, !.u = r.end]
     IN  IF r.begin = r.end
         THEN /\ call' = [call EXCEPT ![t] = [c EXCEPT !.op = "found", !.index = r.begin]]
              /\ UNCHANGED acc
         ELSE /\ call' = [call EXCEPT ![t] = [c EXCEPT !.op = "find"]]
              /\ acc' = [acc EXCEPT ![t] = Request(Middle(r.begin, r.end))]
  /\ UNCHANGED <<table, m_direntCache, m_bufferMutex, m_buffer, entries, next, got, namespaceBoundaryCache>>

\* Mutant: the range of one dirent is not the end of the search.
CompareAgain(t) ==
  /\ call[t].op = "find" /\ acc[t].pc = "done"
  /\ LET k == call[t].key  p == Middle(call[t].l, call[t].u)
         d == KeyOf(acc[t].dirent)
     IN  \/ /\ k # d
            /\ call' = [call EXCEPT ![t] = IF Less(k, d) THEN [@ EXCEPT !.u = p] ELSE [@ EXCEPT !.l = p]]
            /\ acc' = [acc EXCEPT ![t] = Request(Middle(call'[t].l, call'[t].u))]
         \/ /\ k = d
            /\ call' = [call EXCEPT ![t].op = "found", ![t].found = TRUE, ![t].index = p]
            /\ acc' = [acc EXCEPT ![t] = NoAccess]
  /\ UNCHANGED <<table, m_direntCache, m_bufferMutex, m_buffer, entries, next, got, namespaceBoundaryCache, calls>>

\* One round of the loop, when getDirent has returned dirent d for p.
Compare(t) ==
  /\ call[t].op = "find" /\ acc[t].pc = "done"
  /\ LET k == call[t].key  l == call[t].l  u == call[t].u
         p == Middle(l, u)
         d == KeyOf(acc[t].dirent)
     IN  \/ /\ Less(k, d)
            /\ call' = [call EXCEPT ![t].u = p]
            /\ acc' = [acc EXCEPT ![t] = Request(Middle(l, p))]
         \/ /\ Less(d, k) /\ l = p
            /\ call' = [call EXCEPT ![t].op = "found", ![t].index = u]
            /\ acc' = [acc EXCEPT ![t] = NoAccess]
         \/ /\ Less(d, k) /\ l # p
            /\ call' = [call EXCEPT ![t].l = p]
            /\ acc' = [acc EXCEPT ![t] = Request(Middle(p, u))]
         \/ /\ k = d
            /\ call' = [call EXCEPT ![t].op = "found", ![t].found = TRUE, ![t].index = p]
            /\ acc' = [acc EXCEPT ![t] = NoAccess]
  /\ UNCHANGED <<table, m_direntCache, m_bufferMutex, m_buffer, entries, next, got, namespaceBoundaryCache, calls>>

-----------------------------------------------------------------------------
(* getNamespaceRangeBegin(ch); getNamespaceRangeEnd(ns) asks it for ns + 1 *)

\* Under cacheAccessMutex: the boundary is known.
BoundaryCached(t, ch) ==
  /\ Built /\ call[t].op = "none" /\ calls < MaxCalls
  /\ calls' = calls + 1
  /\ \E b \in namespaceBoundaryCache :
       /\ b.ns = ch
       /\ call' = [call EXCEPT ![t] = [NoCall EXCEPT !.op = "bounded", !.ch = ch, !.index = b.index]]
  /\ UNCHANGED <<table, accessorVars, entries, next, got, namespaceBoundaryCache>>

\* getNamespaceBeginOffset begins with dirent 0.
BoundaryMissed(t, ch) ==
  /\ Built /\ call[t].op = "none" /\ calls < MaxCalls
  /\ calls' = calls + 1
  /\ \A b \in namespaceBoundaryCache : b.ns # ch
  /\ call' = [call EXCEPT ![t] = [NoCall EXCEPT !.op = "first", !.ch = ch, !.u = Count]]
  /\ acc' = [acc EXCEPT ![t] = Request(0)]
  /\ UNCHANGED <<table, m_direntCache, m_bufferMutex, m_buffer, entries, next, got, namespaceBoundaryCache>>

\* The next probe of the bisection, or its end.
Bisect(t, c) ==
  IF c.u - c.l > 1
  THEN /\ call' = [call EXCEPT ![t] = [c EXCEPT !.op = "bisect"]]
       /\ acc' = [acc EXCEPT ![t] = Request(Middle(c.l, c.u))]
  ELSE /\ call' = [call EXCEPT ![t] = [c EXCEPT !.op = "store", !.index = IF c.first THEN c.u ELSE c.l]]
       /\ acc' = [acc EXCEPT ![t] = NoAccess]

\* There is a dirent 0; first says that it is before the namespace.
BoundaryFirst(t) ==
  /\ call[t].op = "first" /\ acc[t].pc = "done"
  /\ Bisect(t, [call[t] EXCEPT !.first = Ns(KeyOf(acc[t].dirent)) < call[t].ch])
  /\ UNCHANGED <<table, m_direntCache, m_bufferMutex, m_buffer, entries, next, got, namespaceBoundaryCache, calls>>

\* An empty archive: getDirent throws.
BoundaryThrows(t) ==
  /\ call[t].op = "first" /\ acc[t].pc = "threw"
  /\ call' = [call EXCEPT ![t].op = "threw"]
  /\ acc' = [acc EXCEPT ![t] = NoAccess]
  /\ UNCHANGED <<table, m_direntCache, m_bufferMutex, m_buffer, entries, next, got, namespaceBoundaryCache, calls>>

\* Mutant: a dirent of the namespace itself counts as before it.
BoundaryProbeBehind(t) ==
  /\ call[t].op = "bisect" /\ acc[t].pc = "done"
  /\ LET m == Middle(call[t].l, call[t].u)
     IN  Bisect(t, IF Ns(KeyOf(acc[t].dirent)) > call[t].ch
                   THEN [call[t] EXCEPT !.u = m] ELSE [call[t] EXCEPT !.l = m])
  /\ UNCHANGED <<table, m_direntCache, m_bufferMutex, m_buffer, entries, next, got, namespaceBoundaryCache, calls>>

BoundaryProbe(t) ==
  /\ call[t].op = "bisect" /\ acc[t].pc = "done"
  /\ LET m == Middle(call[t].l, call[t].u)
     IN  Bisect(t, IF Ns(KeyOf(acc[t].dirent)) >= call[t].ch
                   THEN [call[t] EXCEPT !.u = m] ELSE [call[t] EXCEPT !.l = m])
  /\ UNCHANGED <<table, m_direntCache, m_bufferMutex, m_buffer, entries, next, got, namespaceBoundaryCache, calls>>

\* Under cacheAccessMutex: whoever comes last writes last.
BoundaryStore(t) ==
  /\ call[t].op = "store"
  /\ namespaceBoundaryCache' =
       {b \in namespaceBoundaryCache : b.ns # call[t].ch} \cup {[ns |-> call[t].ch, index |-> call[t].index]}
  /\ call' = [call EXCEPT ![t].op = "bounded"]
  /\ UNCHANGED <<table, accessorVars, entries, next, got, calls>>

\* The caller has the answer.
Answered(t) ==
  /\ call[t].op \in {"found", "bounded", "threw"}
  /\ call' = [call EXCEPT ![t] = NoCall]
  /\ UNCHANGED <<table, accessorVars, entries, next, got, namespaceBoundaryCache, calls>>

-----------------------------------------------------------------------------
Init ==
  /\ AccessorInit
  /\ entries = <<>>
  /\ next = 0
  /\ got = {}
  /\ namespaceBoundaryCache = {}
  /\ call = [t \in Threads |-> NoCall]
  /\ calls = 0

Construct == (\E i \in Wanted : GetDirentKey(i)) \/ DirentKeyRead \/ AddEntry \/ Close

Lookup(t) == \/ Compare(t)
             \/ BoundaryFirst(t) \/ BoundaryThrows(t) \/ BoundaryProbe(t) \/ BoundaryStore(t)
             \/ Answered(t)

Access(t) == GetDirent(t) /\ UNCHANGED lookupVars

Call(t) == \/ \E k \in Keys : Find(t, k)
           \/ \E ch \in Namespaces : BoundaryCached(t, ch) \/ BoundaryMissed(t, ch)

\* The constructor threw, or the calls are used up.
Finished == /\ \/ KeysRead /\ next < Count - 1 /\ OutOfOrder(next)
               \/ calls = MaxCalls /\ \A t \in Threads : call[t] = NoCall
            /\ UNCHANGED vars

Next == \/ Construct
        \/ \E t \in Threads : Call(t) \/ Lookup(t) \/ Access(t)
        \/ Finished

Spec == Init /\ [][Next]_vars

\* A thread inside a call goes on, and so does the constructor.
FairSpec == /\ Spec
            /\ WF_vars(Construct)
            /\ \A t \in Threads : WF_vars(Lookup(t) \/ Access(t))

-----------------------------------------------------------------------------
(* Properties *)

\* Old archives may hold an url twice.
Sorted == \A i, j \in 0 .. Count - 1 : i < j => AtMost(KeyOf(i), KeyOf(j))

\* find returns a dirent with the key, or, when there is none, the index where
\* it would be: whatever other threads read into the shared buffer, whatever
\* is in the cache, and although the grid holds other keys than the table.
FindExact ==
  \A t \in Threads : Sorted /\ call[t].op = "found" =>
    LET c == call[t]
    IN  IF c.found
        THEN c.index < Count /\ KeyOf(c.index) = c.key
        ELSE /\ c.index <= Count
             /\ \A i \in 0 .. Count - 1 : IF i < c.index THEN Less(KeyOf(i), c.key)
                                                         ELSE Less(c.key, KeyOf(i))

\* A namespace begins behind the dirents of the smaller ones, and so says the
\* cache to whoever comes later.
Boundary(ch, index) == \A i \in 0 .. Count - 1 : i < index <=> Ns(KeyOf(i)) < ch

BoundariesExact ==
  Sorted => /\ \A b \in namespaceBoundaryCache : b.index <= Count /\ Boundary(b.ns, b.index)
            /\ \A t \in Threads : call[t].op = "bounded" =>
                 call[t].index <= Count /\ Boundary(call[t].ch, call[t].index)

\* The comment in readDirent: when 256 bytes are not enough, "try again with a
\* bigger size".  A dirent that is asked for is read in the end.
BiggerSizeHelps == \A t \in Threads : acc[t].pc = "read" ~> acc[t].pc = "put"

\* The archive is opened and every call is answered: the grid is finished, the
\* bisection ends, and no thread keeps the buffer.
FindsReturn ==
  /\ Sorted ~> Built
  /\ \A t \in Threads : Sorted /\ call[t].op # "none" ~> call[t].op = "none"
=============================================================================
