---------------------------- MODULE ClusterReader ----------------------------
(***************************************************************************)
(* zim::Cluster and the streams it reads from.  The loader of the cluster  *)
(* cache reads the clusterInfo byte and the table of offsets; then threads *)
(* ask for blobs.  A stream can only be read forwards: getReader reads all *)
(* blobs up to the one asked for, under a mutex, and keeps them.           *)
(*                                                                         *)
(* RawStreamReader is a position in the file.  DecoderStreamReader gives   *)
(* chunks of the file to the decoder until the buffer of the caller is     *)
(* full; it does not know where the cluster ends in the file.              *)
(***************************************************************************)
EXTENDS Compressor

CONSTANTS
  Threads,
  ChunkSize,  \* CHUNK_SIZE
  Requests,   \* what may be asked for: <<blob, offset, size>>
  MaxCalls,   \* bound on the number of calls
  NoThread

ASSUME ReadersAssumption ==
  /\ NoThread \notin Threads
  /\ ChunkSize \in Nat \ {0}
  /\ Requests \subseteq Nat \X Nat \X Nat

VARIABLES
  m_blobOffsets,
  m_blobReaders,       \* what each reader delivers
  m_readerAccessMutex, \* the thread that holds it, or NoThread
  stream,              \* the IStreamReader
  rpc,                 \* how far the cluster is opened
  req,                 \* what each thread is doing in getBlob
  calls                \* the number of calls made

readerVars == <<m_blobOffsets, m_blobReaders, m_readerAccessMutex, stream, rpc, req, calls>>

NoRequest == [pc |-> "idle", n |-> 0, offset |-> 0, size |-> 0, blob |-> <<>>]

-----------------------------------------------------------------------------
(* The streams.  pos: the units of the file that were read (after the        *)
(* clusterInfo byte); chunk: avail_in; held and ended: in the decoder; buf   *)
(* and avail_out: the caller's buffer.                                       *)

Compressed == file[1][2] # "none"

\* n units of s from offset o on; nothing sensible is behind its end.
SubBuffer(s, o, n) == [i \in 1 .. n |-> IF o + i <= Len(s) THEN s[o + i] ELSE Garbage]
At(pos, n) == SubBuffer(file, pos + 1, n)
BytesLeft == Len(file) - 1 - stream.pos

\* readNextChunk
NextChunk(s) ==
  LET n == Least(ChunkSize, Len(file) - 1 - s.pos)
  IN  [s EXCEPT !.chunk = At(s.pos, n), !.pos = @ + n]

\* readImpl and RawStreamReader::sub_reader: n units for a new buffer.
StartRead(n) ==
  IF Compressed THEN [stream EXCEPT !.buf = <<>>, !.avail_out = n]
  ELSE [stream EXCEPT !.buf = At(stream.pos, n), !.pos = @ + n]

\* The units of a chunk that belong to the frame
InFrame(chunk) ==
  IF \E i \in 1 .. Len(chunk) : chunk[i] = EndOfFrame
  THEN CHOOSE i \in 1 .. Len(chunk) : chunk[i] = EndOfFrame /\ \A j \in 1 .. i - 1 : chunk[j] # EndOfFrame
  ELSE Len(chunk)

\* decodeMoreBytes: the decoder takes c units of the chunk and delivers p.  It
\* leaves input alone only when the output is full, and keeps nothing back
\* when it has seen the end of the frame.
Decode(s, c, p) ==
  LET ends == c > 0 /\ s.chunk[c] = EndOfFrame
      ended == s.ended \/ ends
      all == s.held \o [i \in 1 .. (IF ends THEN c - 1 ELSE c) |-> s.chunk[i][2]]
  IN  /\ c <= (IF s.ended THEN 0 ELSE InFrame(s.chunk))
      /\ p <= Len(all)
      /\ c < InFrame(s.chunk) /\ ~ s.ended => p = s.avail_out
      /\ ended => p = Least(Len(all), s.avail_out)
      /\ stream' = [s EXCEPT !.chunk = SubSeq(@, c + 1, Len(@)), !.ended = ended,
                             !.held = SubSeq(all, p + 1, Len(all)),
                             !.buf = @ \o SubSeq(all, 1, p), !.avail_out = @ - p]

DecodeMoreBytes ==
  /\ stream.avail_out # 0
  /\ LET s == IF stream.chunk = <<>> /\ BytesLeft > 0 THEN NextChunk(stream) ELSE stream
     IN  \E c \in 0 .. Len(s.chunk), p \in 0 .. s.avail_out : Decode(s, c, p)

-----------------------------------------------------------------------------
(* Cluster::read *)

Width == IF file[1][3] THEN 2 * OffsetUnits ELSE OffsetUnits

\* getClusterReader; then read_header reads the first offset,
OpenCluster ==
  /\ rpc = "closed" /\ wpc = "written"
  /\ LET fresh == [pos |-> 0, chunk |-> <<>>, held |-> <<>>, ended |-> FALSE, buf |-> <<>>, avail_out |-> 0]
         s == IF Compressed THEN NextChunk(fresh) ELSE fresh
     IN  stream' = IF Compressed THEN [s EXCEPT !.avail_out = Width]
                   ELSE [s EXCEPT !.buf = At(0, Width), !.pos = Width]
  /\ rpc' = "first"
  /\ UNCHANGED <<m_blobOffsets, m_blobReaders, m_readerAccessMutex, req, calls>>

\* An offset from its units
Value(units) == units[1][2]

\* which says how many more there are; for a size below 0 there is no buffer,
FirstOffset ==
  /\ rpc = "first" /\ stream.avail_out = 0
  /\ \/ /\ Value(stream.buf) >= Width
        /\ m_blobOffsets' = <<Value(stream.buf)>>
        /\ stream' = StartRead(Value(stream.buf) - Width)
        /\ rpc' = "offsets"
     \/ /\ Value(stream.buf) < Width
        /\ rpc' = "threw"
        /\ UNCHANGED <<m_blobOffsets, stream>>
  /\ UNCHANGED <<m_blobReaders, m_readerAccessMutex, req, calls>>

\* The table of offsets, when all of it is in the buffer
OffsetsRead == m_blobOffsets \o
  [i \in 1 .. m_blobOffsets[1] \div Width - 1 |->
     Value(SubSeq(stream.buf, (i - 1) * Width + 1, i * Width))]

\* ASSERT(new_offset, >=, offset)
Ascends(table) == \A i \in 1 .. Len(table) - 1 : table[i] <= table[i + 1]

\* and the others.  Where an assertion fails it throws, and so the constructor.
OtherOffsets ==
  /\ rpc = "offsets" /\ stream.avail_out = 0
  /\ \/ /\ Ascends(OffsetsRead)
        /\ m_blobOffsets' = OffsetsRead
        /\ rpc' = "open"
     \/ /\ ~ Ascends(OffsetsRead)
        /\ rpc' = "threw"
        /\ UNCHANGED m_blobOffsets
  /\ UNCHANGED <<m_blobReaders, m_readerAccessMutex, stream, req, calls>>

OpenDecodes ==
  /\ rpc \in {"first", "offsets"}
  /\ DecodeMoreBytes
  /\ UNCHANGED <<m_blobOffsets, m_blobReaders, m_readerAccessMutex, rpc, req, calls>>

-----------------------------------------------------------------------------
(* Cluster::getBlob(n, offset, size), called by thread t; getBlob(n) asks    *)
(* for all of the blob.                                                      *)

count == Len(m_blobOffsets) - 1

\* Mutant: the end of a blob counts as part of it.
BlobSizeWithEnd(n) == (m_blobOffsets[n + 2] - m_blobOffsets[n + 1]) + 1

getBlobSize(n) == m_blobOffsets[n + 2] - m_blobOffsets[n + 1]

\* The size is reduced to what is behind the offset.
SizeBehind(n, offset, size) == Least(size, getBlobSize(n) - offset)

GetBlob(t, n, offset, size) ==
  /\ rpc = "open" /\ req[t].pc = "idle" /\ calls < MaxCalls
  /\ calls' = calls + 1
  /\ LET r == [NoRequest EXCEPT !.n = n, !.offset = offset, !.size = size]
     IN  req' = [req EXCEPT ![t] = IF n < count /\ offset <= getBlobSize(n)
                                   THEN [r EXCEPT !.pc = "lock"] ELSE [r EXCEPT !.pc = "done"]]
  /\ UNCHANGED <<m_blobOffsets, m_blobReaders, m_readerAccessMutex, stream, rpc>>

\* Mutant: getReader without its lock.
LockNothing(t) ==
  /\ req[t].pc = "lock"
  /\ req' = [req EXCEPT ![t].pc = "locked"]
  /\ UNCHANGED <<m_blobOffsets, m_blobReaders, m_readerAccessMutex, stream, rpc, calls>>

\* getReader
LockReader(t) ==
  /\ req[t].pc = "lock"
  /\ m_readerAccessMutex = NoThread
  /\ m_readerAccessMutex' = t
  /\ req' = [req EXCEPT ![t].pc = "locked"]
  /\ UNCHANGED <<m_blobOffsets, m_blobReaders, stream, rpc, calls>>

\* m_reader->sub_reader for the next blob that has no reader
StartBlob(t) ==
  /\ req[t].pc = "locked"
  /\ Len(m_blobReaders) <= req[t].n
  /\ stream' = StartRead(getBlobSize(Len(m_blobReaders)))
  /\ req' = [req EXCEPT ![t].pc = "reading"]
  /\ UNCHANGED <<m_blobOffsets, m_blobReaders, m_readerAccessMutex, rpc, calls>>

BlobDecodes(t) ==
  /\ req[t].pc = "reading"
  /\ DecodeMoreBytes
  /\ UNCHANGED <<m_blobOffsets, m_blobReaders, m_readerAccessMutex, rpc, req, calls>>

AddReader(t) ==
  /\ req[t].pc = "reading" /\ stream.avail_out = 0
  /\ m_blobReaders' = Append(m_blobReaders, stream.buf)
  /\ req' = [req EXCEPT ![t].pc = "locked"]
  /\ UNCHANGED <<m_blobOffsets, m_readerAccessMutex, stream, rpc, calls>>

\* The lock is given back; get_buffer of the reader is the blob.
GetBuffer(t) ==
  /\ req[t].pc = "locked"
  /\ Len(m_blobReaders) > req[t].n
  /\ m_readerAccessMutex' = NoThread
  /\ LET r == req[t]
         size == SizeBehind(r.n, r.offset, r.size)
     IN  req' = [req EXCEPT ![t].pc = "done",
                            ![t].blob = SubBuffer(m_blobReaders[r.n + 1], r.offset, size)]
  /\ UNCHANGED <<m_blobOffsets, m_blobReaders, stream, rpc, calls>>

Answered(t) ==
  /\ req[t].pc = "done"
  /\ req' = [req EXCEPT ![t] = NoRequest]
  /\ UNCHANGED <<m_blobOffsets, m_blobReaders, m_readerAccessMutex, stream, rpc, calls>>

-----------------------------------------------------------------------------
(* The cluster is written, opened and read. *)

ReaderInit ==
  /\ m_blobOffsets = <<>> /\ m_blobReaders = <<>>
  /\ m_readerAccessMutex = NoThread
  /\ stream = <<>>
  /\ rpc = "closed"
  /\ req = [t \in Threads |-> NoRequest]
  /\ calls = 0

Init == WriterInit /\ ReaderInit

vars == <<writerVars, readerVars>>

Loader == OpenCluster \/ FirstOffset \/ OtherOffsets \/ OpenDecodes

InCall(t) == \/ LockReader(t) \/ StartBlob(t) \/ BlobDecodes(t) \/ AddReader(t)
             \/ GetBuffer(t) \/ Answered(t)

Call(t) == \E r \in Requests : GetBlob(t, r[1], r[2], r[3])

\* The calls are used up, or there is no cluster to read.
Finished == /\ calls = MaxCalls \/ rpc = "threw"
            /\ \A t \in Threads : req[t].pc = "idle"
            /\ UNCHANGED vars

Next == \/ Worker /\ UNCHANGED readerVars
        \/ Loader /\ UNCHANGED writerVars
        \/ \E t \in Threads : (Call(t) \/ InCall(t)) /\ UNCHANGED writerVars
        \/ Finished

Spec == Init /\ [][Next]_vars

\* The worker, the loader and a thread inside a call go on.
FairSpec == /\ Spec
            /\ WF_vars(Worker /\ UNCHANGED readerVars)
            /\ WF_vars(Loader /\ UNCHANGED writerVars)
            /\ \A t \in Threads : WF_vars(InCall(t) /\ UNCHANGED writerVars)

-----------------------------------------------------------------------------
(* Properties *)

\* The offsets alone fit an offset: fewer than 2^30 blobs.  The Creator closes a
\* cluster long before, since Cluster::size counts the offsets.
TableFits(cl) == Extended(cl) \/ DataStart(cl) <= OffsetMax

\* What every offset must hold fits one.  addContent does not see to that: it
\* looks at the size of each blob alone.
OffsetsFit(cl) == Extended(cl) \/ DataStart(cl) + BlobOffset(cl, Len(cl.sizes) + 1) <= OffsetMax

\* A cluster is opened unless the writer has truncated one of its offsets, and
\* then it is not; a blob that is read is the one that was added, wherever the
\* codecs and the chunks cut the stream and in whatever order the threads ask.
BlobExact ==
  TableFits(cluster) =>
    /\ rpc = "threw" => ~ OffsetsFit(cluster)
    /\ rpc = "open" => OffsetsFit(cluster)
    /\ \A t \in Threads : req[t].pc = "done" =>
         LET r == req[t]
             blob == IF r.n < Len(cluster.sizes) THEN BlobUnits(cluster, r.n + 1) ELSE <<>>
         IN  r.blob = SubSeq(blob, r.offset + 1, Least(Len(blob), r.offset + r.size))

\* Every call returns: the decoder is never asked for more than it can deliver.
CallsReturn == \A t \in Threads : req[t].pc # "idle" ~> req[t].pc = "idle"
=============================================================================
