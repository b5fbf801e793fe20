--------------------------- MODULE MCClusterReader ---------------------------
(* Instances of ClusterReader for TLC. *)
EXTENDS ClusterReader

CONSTANTS t1, t2   \* model values

mcThreads == {t1, t2}

\* The last offset of the first is the largest that fits; the second makes the
\* cluster extended.
Sizes == { <<2, 0, 1>>, <<8>> }

\* The size of a blob fits an offset, but not where it ends; the size of the
\* first of two and where it ends fit, but not where the second ends.
Truncated == { <<7>>, <<4, 2>> }

\* So many blobs that not even the first offset fits
Crowd == [i \in 1 .. 7 |-> 0]
mcClusters ==
  [codec : {"none", "lzma", "zstd"}, sizes : Sizes \cup Truncated] \cup [codec : {"none", "zstd"}, sizes : {Crowd}]

\* All of a blob, a part of one, and beyond its end
mcRequests == { <<0, 0, 8>>, <<0, 1, 8>>, <<0, 3, 1>>, <<1, 0, 1>>, <<2, 0, 1>>, <<2, 1, 1>>, <<3, 0, 1>> }
mcZstd == [codec : {"zstd"}, sizes : Sizes]
=============================================================================
