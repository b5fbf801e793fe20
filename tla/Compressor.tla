------------------------------ MODULE Compressor ------------------------------
(***************************************************************************)
(* The content of a cluster on its way to the file: writer::Cluster gives  *)
(* it away piece by piece (write_content), zim::Compressor feeds the       *)
(* pieces to lzma or zstd and enlarges its output buffer when that is full.*)
(*                                                                         *)
(* Data is counted in units.  A unit of content is an offset, a part of    *)
(* one, or a byte of a blob, named by its place; a compressed stream has   *)
(* one unit for each unit of content and one for the end of the frame.     *)
(* How much the compression libraries (zstd, which subprojects/ holds, and *)
(* lzma, which is external) take and deliver in a call is left open as far *)
(* as their interfaces leave it open.                                      *)
(***************************************************************************)
EXTENDS Integers, Sequences, SequencesExt

CONSTANTS
  Clusters,    \* [codec, sizes]: how to compress, and the sizes of the blobs
  OffsetMax,   \* UINT32_MAX
  OffsetUnits, \* sizeof(uint32_t), in units
  FeedSize,    \* what a ContentProvider delivers at a time
  InitialSize, \* of the output buffer
  Trailer      \* how much of the file follows the cluster

VARIABLES
  cluster,     \* the cluster that is written
  given,       \* where write_content is: the next offset, the blob, and how much of that is given
  wpc,         \* where the worker is
  step,        \* CompStep
  next_in,     \* the fields of stream_t: the input that is left (avail_in) ...
  next_out,    \* ... and where the output goes
  avail_out,
  total_out,
  ret_data,    \* the output buffer
  codec,       \* inside the library: what it holds, and how far the frame is
  file         \* the archive from the cluster on

writerVars == <<cluster, given, wpc, step, next_in, next_out, avail_out, total_out,
                ret_data, codec, file>>

Garbage == <<"garbage">>
EndOfFrame == <<"end">>
Encoded(u) == <<"z", u>>
NoCodec == [held |-> <<>>, frame |-> "open", stalled |-> FALSE]

Least(a, b) == IF a < b THEN a ELSE b
Units(n) == [i \in 1 .. n |-> Garbage]

-----------------------------------------------------------------------------
(* writer::Cluster *)

\* addContent: one large blob makes the cluster extended.
Extended(cl) == \E i \in 1 .. Len(cl.sizes) : cl.sizes[i] > OffsetMax

\* sizeof(OFFSET_TYPE)
OffsetSize(cl) == IF Extended(cl) THEN 2 * OffsetUnits ELSE OffsetUnits

\* Where blob i begins among the data, from blobOffsets.
BlobOffset(cl, i) ==
  LET sum[k \in 1 .. Len(cl.sizes) + 1] == IF k = 1 THEN 0 ELSE sum[k - 1] + cl.sizes[k - 1]
  IN  sum[i]

\* delta: the size of the offsets
DataStart(cl) == (Len(cl.sizes) + 1) * OffsetSize(cl)

\* static_cast<OFFSET_TYPE>
OffsetType(cl, o) == IF Extended(cl) THEN o ELSE o % (OffsetMax + 1)

\* addContent takes any blobs.
ASSUME ClustersAssumption == Clusters \subseteq [codec : {"none", "lzma", "zstd"}, sizes : Seq(Nat)]

ASSUME SizesAssumption ==
  /\ OffsetUnits \in Nat \ {0} /\ FeedSize \in Nat \ {0} /\ InitialSize \in Nat \ {0}
  /\ OffsetMax \in Nat /\ Trailer \in Nat

\* write_offsets: what is written for the i-th offset.
OffsetUnit(cl, i) ==
  [k \in 1 .. OffsetSize(cl) |-> <<"offset", OffsetType(cl, BlobOffset(cl, i) + DataStart(cl)), k>>]

BlobUnits(cl, i) == [j \in 1 .. cl.sizes[i] |-> <<"byte", i, j>>]

ClusterInfo(cl) == <<"info", cl.codec, Extended(cl)>>

\* Cluster::write: the clusterInfo byte and the data; other things follow.
Written(data) == <<ClusterInfo(cluster)>> \o data \o Units(Trailer)

\* The writer that write_content calls: that of Cluster::write, which writes a
\* piece to the file, or that of _compress, which feeds it to the Compressor.
Writer(piece) ==
  \/ /\ cluster.codec = "none"
     /\ file' = file \o piece
     /\ UNCHANGED <<next_in, wpc>>
  \/ /\ cluster.codec # "none"
     /\ next_in' = piece
     /\ wpc' = "run"
     /\ UNCHANGED file

blobCount == Len(cluster.sizes)
OffsetsGiven == given.offset > blobCount + 1
ContentGiven == OffsetsGiven /\ given.blob > blobCount

\* A turn of the loop in write_offsets
WriteOffset ==
  /\ wpc = "content" /\ ~ OffsetsGiven
  /\ Writer(OffsetUnit(cluster, given.offset))
  /\ given' = [given EXCEPT !.offset = @ + 1]
  /\ UNCHANGED <<cluster, step, next_out, avail_out, total_out, ret_data, codec>>

\* A turn of the loop in write_data: what the provider of the blob delivers,
WriteBlob ==
  /\ wpc = "content" /\ OffsetsGiven /\ ~ ContentGiven
  /\ given.done < cluster.sizes[given.blob]
  /\ LET end == Least(given.done + FeedSize, cluster.sizes[given.blob])
     IN  /\ Writer(SubSeq(BlobUnits(cluster, given.blob), given.done + 1, end))
         /\ given' = [given EXCEPT !.done = end]
  /\ UNCHANGED <<cluster, step, next_out, avail_out, total_out, ret_data, codec>>

\* until it delivers nothing.  An empty blob has no provider.
NextProvider ==
  /\ wpc = "content" /\ OffsetsGiven /\ ~ ContentGiven
  /\ given.done = cluster.sizes[given.blob]
  /\ given' = [given EXCEPT !.blob = @ + 1, !.done = 0]
  /\ UNCHANGED <<cluster, wpc, step, next_in, next_out, avail_out, total_out, ret_data, codec, file>>

\* A cluster that is not compressed is in the file, and other things follow.
WriteEnds ==
  /\ wpc = "content" /\ cluster.codec = "none" /\ ContentGiven
  /\ file' = file \o Units(Trailer)
  /\ wpc' = "written"
  /\ UNCHANGED <<cluster, given, step, next_in, next_out, avail_out, total_out, ret_data, codec>>

-----------------------------------------------------------------------------
(* Compressor::feed *)

\* get_data: feed(nullptr, 0, FINISH), when all the content has been fed.
GetData ==
  /\ wpc = "content" /\ cluster.codec # "none" /\ ContentGiven
  /\ step' = "FINISH"
  /\ next_in' = <<>>
  /\ wpc' = "run"
  /\ UNCHANGED <<cluster, given, next_out, avail_out, total_out, ret_data, codec, file>>

\* What the library has to deliver, when it takes c units more.  At the end of
\* the frame that is all it holds and the end mark; zstd begins an empty frame
\* when it is asked to end a frame that it has ended.
Holds(c) ==
  LET all == codec.held \o [i \in 1 .. c |-> Encoded(next_in[i])]
      ends == step = "FINISH" /\ \/ codec.frame = "open"
                                 \/ codec.frame = "closed" /\ cluster.codec = "zstd"
  IN  IF ends THEN Append(all, EndOfFrame) ELSE all

\* The library may leave input alone, or keep back what it was asked to
\* finish, only when the output is full.
MayDeliver(c, p) ==
  /\ p <= Len(Holds(c)) /\ p <= avail_out
  /\ c < Len(next_in) \/ (step = "FINISH" /\ p < Len(Holds(c))) => p = avail_out

\* The status of LZMA_INFO::stream_run: lzma_code says LZMA_BUF_ERROR when it
\* can do nothing, but only the second time.
LzmaStatus(c, p) ==
  IF step = "FINISH" /\ p = Len(Holds(c)) THEN "STREAM_END"
  ELSE IF c + p = 0 /\ codec.stalled THEN "BUF_ERROR" ELSE "OK"

\* The status of ZSTD_INFO::stream_run_encode
ZstdStatus(c, p) ==
  IF step = "STEP" THEN IF c < Len(next_in) THEN "BUF_ERROR" ELSE "OK"
                   ELSE IF p < Len(Holds(c)) THEN "BUF_ERROR" ELSE "OK"

Status(c, p) == IF cluster.codec = "lzma" THEN LzmaStatus(c, p) ELSE ZstdStatus(c, p)

\* INFO::stream_run_encode takes c units and delivers p.
StreamRun(c, p) ==
  /\ next_in' = SubSeq(next_in, c + 1, Len(next_in))
  /\ total_out' = total_out + p
  /\ codec' = [held    |-> SubSeq(Holds(c), p + 1, Len(Holds(c))),
               frame   |-> IF step = "STEP" THEN "open"
                           ELSE IF p = Len(Holds(c)) THEN "closed" ELSE "closing",
               stalled |-> c + p = 0]

\* The output buffer with the p units that are delivered
Filled(c, p) == [i \in 1 .. Len(ret_data) |->
                   IF i \in next_out + 1 .. next_out + p THEN Holds(c)[i - next_out] ELSE ret_data[i]]

\* Mutant: what has been delivered before is not copied.
GrowEmpty(data, total) == Units(2 * Len(data))

\* Mutant: the buffer keeps its size.
GrowNot(data, total) == data

\* new_ret_data: twice the size, with the output so far.
Grown(data, total) == SubSeq(data, 1, total) \o Units(2 * Len(data) - total)

\* Without room in the output the loop goes on, and after a BUF_ERROR in a
\* larger buffer.
RunOn(c, p) ==
  /\ wpc = "run" /\ MayDeliver(c, p) /\ StreamRun(c, p)
  /\ avail_out = p
  /\ \/ /\ Status(c, p) = "OK"
        /\ ret_data' = Filled(c, p)
        /\ next_out' = next_out + p
        /\ avail_out' = 0
     \/ /\ Status(c, p) = "BUF_ERROR"
        /\ ret_data' = Grown(Filled(c, p), total_out')
        /\ next_out' = total_out'
        /\ avail_out' = Len(ret_data') - total_out'
  /\ UNCHANGED <<cluster, given, wpc, step, file>>

\* Otherwise feed returns.  Nobody looks at what it returns; after get_data the
\* Compressor is gone.
RunReturns(c, p) ==
  /\ wpc = "run" /\ MayDeliver(c, p)
  /\ avail_out # p \/ Status(c, p) = "STREAM_END"
  /\ \/ /\ step = "STEP"
        /\ StreamRun(c, p)
        /\ ret_data' = Filled(c, p)
        /\ next_out' = next_out + p
        /\ avail_out' = avail_out - p
        /\ wpc' = "content"
        /\ UNCHANGED file
     \/ /\ step = "FINISH"
        /\ file' = Written(SubSeq(Filled(c, p), 1, total_out + p))
        /\ next_in' = <<>> /\ ret_data' = <<>> /\ codec' = NoCodec
        /\ next_out' = 0 /\ avail_out' = 0 /\ total_out' = 0
        /\ wpc' = "written"
  /\ UNCHANGED <<cluster, given, step>>

Run == \E c \in 0 .. Len(next_in), p \in 0 .. avail_out : RunOn(c, p) \/ RunReturns(c, p)

-----------------------------------------------------------------------------
WriterInit ==
  /\ cluster \in Clusters
  /\ given = [offset |-> 1, blob |-> 1, done |-> 0]
  /\ wpc = "content" /\ step = "STEP"
  /\ next_in = <<>>
  /\ next_out = 0 /\ avail_out = InitialSize /\ total_out = 0
  /\ ret_data = Units(InitialSize)
  /\ codec = NoCodec
  /\ file = IF cluster.codec = "none" THEN <<ClusterInfo(cluster)>> ELSE <<>>

Worker == WriteOffset \/ WriteBlob \/ NextProvider \/ WriteEnds \/ GetData \/ Run

-----------------------------------------------------------------------------
(* Properties *)

\* The offsets, and the blobs one after the other
Content(cl) == FlattenSeq([i \in 1 .. Len(cl.sizes) + 1 |-> OffsetUnit(cl, i)])
                 \o FlattenSeq([i \in 1 .. Len(cl.sizes) |-> BlobUnits(cl, i)])

\* What reaches the file is all of the content, in order and encoded once,
\* however often the buffer had to grow; zstd may add an empty frame.
OutputComplete ==
  wpc = "written" =>
    LET content == Content(cluster)
        encoded == Append([i \in 1 .. Len(content) |-> Encoded(content[i])], EndOfFrame)
    IN  file \in IF cluster.codec = "none" THEN {Written(content)}
                 ELSE {Written(encoded)} \cup
                      (IF cluster.codec = "zstd" THEN {Written(Append(encoded, EndOfFrame))} ELSE {})

\* With lzma the content of a cluster is compressed in the end.
FeedsReturn == cluster.codec = "lzma" ~> wpc = "written"

\* The comment in feed says of OK when there is no room in the output: "The
\* BUF_ERROR is returned only the second time", and the loop waits for it.
BufErrorFollows == wpc = "run" /\ avail_out = 0 ~> avail_out # 0 \/ wpc # "run"
=============================================================================
