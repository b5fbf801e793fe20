---------------------------- MODULE MCDirentLookup ----------------------------
(* Instances of DirentLookup for TLC.  The keys are all strings of a          *)
(* namespace and at most two characters of two kinds.                         *)
EXTENDS DirentKeys, DirentLookupInvariant

CONSTANTS t1, t2   \* model values

mcThreads == {t1, t2}

mcKeys == {<<n>> \o u : n \in {1, 2}, u \in {<<>>, <<1>>, <<2>>, <<1, 1>>, <<1, 2>>}}

\* No dirent, one, two with the same key, and tables of which the grid holds
\* every second key; the last one is out of order.
mcTables == { <<>>,
              << <<1, 1>> >>,
              << <<1, 1>>, <<1, 1, 2>>, <<1, 1, 2>>, <<2>> >>,
              << <<1>>, <<1, 1, 1>>, <<1, 2>>, <<2, 1>>, <<2, 1, 2>> >>,
              << <<1, 2>>, <<1, 1>>, <<2>> >> }

\* A long key needs two rounds of readDirent.
mcDirentSize == [k \in mcKeys |-> Len(k)]

\* The last dirent, which the constructor reads for its grid, is longer than a
\* step, and there is less than another step to the end of the file.
mcOrdered == { << <<1>>, <<1, 1, 1>>, <<1, 2>>, <<2, 1>>, <<2, 1, 2>> >> }
mcLongSize == [k \in mcKeys |-> 2 * Len(k) - 1]
=============================================================================
