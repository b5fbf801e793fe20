------------------------ MODULE DirentLookupInvariant ------------------------
(***************************************************************************)
(* An inductive invariant of DirentLookup, in named parts, for archives    *)
(* whose dirents are sorted.  The cache and the shared buffer hold what    *)
(* they say; the grid brackets the table; each call under way brackets     *)
(* what it looks for.                                                      *)
(***************************************************************************)
EXTENDS DirentLookup

\* A dirent in the cache is the one it is cached for.
CacheInv ==
  /\ m_direntCache \in Seq([idx : Nat, dirent : Nat])
  /\ \A k \in 1 .. Len(m_direntCache) :
       m_direntCache[k].dirent = m_direntCache[k].idx /\ m_direntCache[k].idx < Count

\* Only the thread with the mutex uses the buffer, so that the dirent it parses
\* is the one it has been asked for.
AccessOf(t, a) ==
  /\ a = [pc |-> a.pc, idx |-> a.idx, bufferSize |-> a.bufferSize, dirent |-> a.dirent]
  /\ a.idx \in Nat
  /\ a.pc \in {"read", "init"} => m_bufferMutex = t
  /\ a.pc = "init" => m_buffer.of = a.idx
  /\ a.pc \in {"put", "done"} => a.dirent = a.idx
  /\ a.pc \in {"lock", "read", "init", "put", "done"} => a.idx < Count

AccessInv == /\ acc = [t \in Threads |-> acc[t]]
             /\ \A t \in Threads : AccessOf(t, acc[t])

\* The comment in NarrowDown: sequence[lindex] <= pseudoKey <= sequence[lindex+1].
Brackets(e) == /\ e.lindex < Count
               /\ AtMost(KeyOf(e.lindex), e.key)
               /\ e.lindex + 1 < Count => AtMost(e.key, KeyOf(e.lindex + 1))

\* The grid covers what the constructor has seen of the table.
GridInv ==
  /\ next \in Nat
  /\ entries \in Seq([key : Keys, lindex : Nat])
  /\ \A e \in 1 .. Len(entries) : Brackets(entries[e])
  /\ \A d, e \in 1 .. Len(entries) : d < e => entries[d].lindex < entries[e].lindex
  /\ Len(entries) > 0 => entries[1].key = KeyOf(0) /\ entries[1].lindex = 0
  /\ Built /\ Count > 0 => Len(entries) > 0 /\ entries[Len(entries)].lindex = Count - 1
  /\ ~ Built => /\ next < Count + Step
                /\ Len(entries) = 0 => next = 0
                /\ \A e \in 1 .. Len(entries) : entries[e].lindex < next /\ entries[e].lindex < Count - 1

\* What the constructor has read is what is in the table; nobody else is there.
ConstructInv ==
  /\ \A g \in got : g.idx \in 0 .. Count - 1 /\ g.key = KeyOf(g.idx)
  /\ ~ Built => \A t \in Threads : t # Opener => acc[t].pc = "idle"

CallType == [op : {"none", "find", "found", "first", "bisect", "store", "bounded", "threw"},
             key : Keys, ch : Int, l : Nat, u : Nat, first : BOOLEAN, found : BOOLEAN, index : Nat]

\* find: the key is not before l and before all from u on.
FindBounds(c) ==
  /\ c.l < c.u /\ c.u <= Count
  /\ AtMost(KeyOf(c.l), c.key)
  /\ \A i \in 0 .. Count - 1 : i >= c.u => Less(c.key, KeyOf(i))

FindAnswer(c) ==
  IF c.found THEN c.index < Count /\ KeyOf(c.index) = c.key
  ELSE /\ c.index <= Count
       /\ \A i \in 0 .. Count - 1 : IF i < c.index THEN Less(KeyOf(i), c.key)
                                                   ELSE Less(c.key, KeyOf(i))

\* getNamespaceBeginOffset: the namespace begins behind l, if not at 0, and not
\* behind u.
NamespaceBounds(c) ==
  /\ c.l < c.u /\ c.u <= Count
  /\ IF c.first THEN Ns(KeyOf(c.l)) < c.ch ELSE c.l = 0 /\ ~ Ns(KeyOf(0)) < c.ch
  /\ \A i \in 0 .. Count - 1 : i >= c.u => ~ Ns(KeyOf(i)) < c.ch

Waiting == {"find", "first", "bisect"}

\* A call c and what its thread does in getDirent.
CallOf(c, a) ==
  /\ c.op # "none" => Built
  /\ Built => (c.op \in Waiting <=> a.pc # "idle")
  /\ c.op \in {"find", "bisect"} => a.idx = Middle(c.l, c.u)
  /\ c.op = "first" => a.idx = 0 /\ c.l = 0 /\ c.u = Count
  /\ c.op = "find" => FindBounds(c) /\ ~ c.found
  /\ c.op = "found" => FindAnswer(c)
  /\ c.op = "bisect" => NamespaceBounds(c) /\ c.u - c.l > 1
  /\ c.op \in {"store", "bounded"} => c.index <= Count /\ Boundary(c.ch, c.index)

CallsInv == /\ call \in [Threads -> CallType]
            /\ \A t \in Threads : CallOf(call[t], acc[t])

BoundaryCacheInv ==
  \A b \in namespaceBoundaryCache : b.index \in Nat /\ b.index <= Count /\ Boundary(b.ns, b.index)

LInv == /\ CacheInv
        /\ AccessInv
        /\ GridInv
        /\ ConstructInv
        /\ CallsInv
        /\ BoundaryCacheInv

\* The parts above, of an archive whose dirents are sorted.
LookupInv == table \in Seq(Keys) /\ (Sorted => LInv)
=============================================================================
