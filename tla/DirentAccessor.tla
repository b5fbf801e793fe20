---------------------------- MODULE DirentAccessor ----------------------------
(***************************************************************************)
(* zim::DirectDirentAccessor and zim::DirentReader: the dirents of an      *)
(* archive, read on demand by any number of threads through an LRU cache   *)
(* and one buffer that all threads share.                                  *)
(*                                                                         *)
(* A dirent is named by its index, from 0.  The reader does not know the   *)
(* size of a dirent: it reads BufferStep bytes and tries to parse them     *)
(* (initDirent finds the end of the url and of the title, or gives up),    *)
(* then reads BufferStep more.                                             *)
(***************************************************************************)
EXTENDS Integers, Sequences

CONSTANTS
  Threads,
  Tables,       \* the dirent tables an archive may have: a sequence of keys
  DirentSize,   \* the size of the dirent with a given key
  TrailerSize,  \* what follows the last dirent in the file
  BufferStep,   \* 256
  CacheSize,    \* ZIM_DIRENTCACHE
  NoThread

ASSUME AccessorAssumption ==
  /\ NoThread \notin Threads
  /\ CacheSize \in Nat
  /\ BufferStep \in Nat \ {0}
  /\ TrailerSize \in Nat

VARIABLES
  table,        \* the keys of the dirents
  m_direntCache,\* the list of the LRU cache: [idx, dirent], last used first
  m_bufferMutex,\* the thread that holds it, or NoThread
  m_buffer,     \* whose bytes it holds, and how many
  acc           \* what each thread is doing in getDirent

accessorVars == <<m_direntCache, m_bufferMutex, m_buffer, acc>>

Count == Len(table)
KeyOf(i) == table[i + 1]

NoAccess == [pc |-> "idle", idx |-> 0, bufferSize |-> 0, dirent |-> 0]

-----------------------------------------------------------------------------
(* lru_cache *)

CachedAt(i) == {k \in 1 .. Len(m_direntCache) : m_direntCache[k].idx = i}

\* The list without element k, and without the one of dirent i if there is one.
RemoveAt(c, k) == SubSeq(c, 1, k - 1) \o SubSeq(c, k + 1, Len(c))

Without(c, i) ==
  IF \E k \in 1 .. Len(c) : c[k].idx = i
  THEN RemoveAt(c, CHOOSE k \in 1 .. Len(c) : c[k].idx = i)
  ELSE c

\* putMissing evicts the element used longest ago.
Evict(c) == IF Len(c) > CacheSize THEN SubSeq(c, 1, Len(c) - 1) ELSE c

\* put: a hit is moved to the front and gets the value.
Put(c, i, d) == Evict(<<[idx |-> i, dirent |-> d]>> \o Without(c, i))

-----------------------------------------------------------------------------
(* DirectDirentAccessor::getDirent(idx), called by thread t *)

Request(i) == [NoAccess EXCEPT !.pc = "get", !.idx = i]

\* Under m_direntCacheLock: get moves a hit to the front.
GetHit(t) ==
  /\ acc[t].pc = "get"
  /\ \E k \in CachedAt(acc[t].idx) :
       LET v == m_direntCache[k].dirent
       IN  /\ m_direntCache' = Put(m_direntCache, acc[t].idx, v)
           /\ acc' = [acc EXCEPT ![t].pc = "done", ![t].dirent = v]
  /\ UNCHANGED <<table, m_bufferMutex, m_buffer>>

\* getOffset throws when there is no such dirent.
GetMiss(t) ==
  /\ acc[t].pc = "get"
  /\ CachedAt(acc[t].idx) = {}
  /\ acc' = [acc EXCEPT ![t].pc = IF acc[t].idx >= Count THEN "threw" ELSE "lock"]
  /\ UNCHANGED <<table, m_direntCache, m_bufferMutex, m_buffer>>

\* From the offset of dirent i to the end of the file.
LeftInFile[i \in Nat] ==
  IF i >= Count THEN TrailerSize ELSE DirentSize[KeyOf(i)] + LeftInFile[i + 1]

FirstSize(i) == IF LeftInFile[i] < BufferStep THEN LeftInFile[i] ELSE BufferStep

\* Mutant: the buffer is used without its mutex.
LockNothing(t) ==
  /\ acc[t].pc = "lock"
  /\ acc' = [acc EXCEPT ![t].pc = "read", ![t].bufferSize = FirstSize(acc[t].idx)]
  /\ UNCHANGED <<table, m_direntCache, m_bufferMutex, m_buffer>>

\* DirentReader::readDirent takes m_bufferMutex for all of its loop.
LockBuffer(t) ==
  /\ acc[t].pc = "lock"
  /\ m_bufferMutex = NoThread
  /\ m_bufferMutex' = t
  /\ acc' = [acc EXCEPT ![t].pc = "read", ![t].bufferSize = FirstSize(acc[t].idx)]
  /\ UNCHANGED <<table, m_direntCache, m_buffer>>

\* A read beyond the end of the file does not return: FD::readAt goes on as
\* long as pread delivers less than was asked for.
ReadBuffer(t) ==
  /\ acc[t].pc = "read"
  /\ acc[t].bufferSize <= LeftInFile[acc[t].idx]
  /\ m_buffer' = [of |-> acc[t].idx, size |-> acc[t].bufferSize]
  /\ acc' = [acc EXCEPT ![t].pc = "init"]
  /\ UNCHANGED <<table, m_direntCache, m_bufferMutex>>

\* initDirent: all of the dirent must be in the buffer.
initDirent(b) == b.size >= DirentSize[KeyOf(b.of)]

InitDirent(t) ==
  /\ acc[t].pc = "init"
  /\ IF initDirent(m_buffer)
     THEN /\ acc' = [acc EXCEPT ![t].pc = "put", ![t].dirent = m_buffer.of]
          /\ m_bufferMutex' = NoThread
     ELSE /\ acc' = [acc EXCEPT ![t].pc = "read", ![t].bufferSize = @ + BufferStep]
          /\ UNCHANGED m_bufferMutex
  /\ UNCHANGED <<table, m_direntCache, m_buffer>>

\* Under m_direntCacheLock again: another thread may have put it meanwhile.
PutDirent(t) ==
  /\ acc[t].pc = "put"
  /\ m_direntCache' = Put(m_direntCache, acc[t].idx, acc[t].dirent)
  /\ acc' = [acc EXCEPT ![t].pc = "done"]
  /\ UNCHANGED <<table, m_bufferMutex, m_buffer>>

GetDirent(t) == \/ GetHit(t) \/ GetMiss(t)
                \/ LockBuffer(t) \/ ReadBuffer(t) \/ InitDirent(t) \/ PutDirent(t)

AccessorInit ==
  /\ table \in Tables
  /\ m_direntCache = <<>>
  /\ m_bufferMutex = NoThread
  /\ m_buffer = [of |-> 0, size |-> 0]
  /\ acc = [t \in Threads |-> NoAccess]
=============================================================================
