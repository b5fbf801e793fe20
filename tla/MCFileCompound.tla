---------------------------- MODULE MCFileCompound ----------------------------
(* Small split archives: where each part starts is computed from the sizes. *)
EXTENDS FileCompound

Starts(s) == LET from[i \in 1 .. Len(s) + 1] == IF i = 1 THEN 0 ELSE from[i - 1] + s[i - 1]
             IN  [i \in 1 .. Len(s) + 1 |-> from[i]]

Disk(w, s) == [whole |-> w, size |-> s, start |-> Starts(s)]

mcDisks == {Disk(TRUE, <<n>>) : n \in 1 .. 4}
             \cup {Disk(FALSE, s) : s \in UNION {[1 .. n -> 1 .. 3] : n \in 0 .. 3}}
=============================================================================
