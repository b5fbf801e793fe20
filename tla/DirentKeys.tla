------------------------------ MODULE DirentKeys ------------------------------
(***************************************************************************)
(* The keys of dirents as strings: sequences of characters (numbers), the  *)
(* namespace first.                                                        *)
(***************************************************************************)
EXTENDS Integers, Sequences

\* The strings agree before position i, and differ there, or one of them ends.
MismatchAt(a, b, i) ==
  /\ i <= Len(a) + 1 /\ i <= Len(b) + 1
  /\ \A j \in 1 .. i - 1 : a[j] = b[j]
  /\ i <= Len(a) /\ i <= Len(b) => a[i] # b[i]

\* std::string::compare
StringLess(a, b) ==
  \E i \in 1 .. Len(b) : /\ MismatchAt(a, b, i)
                         /\ i <= Len(a) => a[i] < b[i]

\* NarrowDown::shortestStringInBetween: b up to the first character that
\* differs from a.
shortestStringInBetween(a, b) ==
  LET m == CHOOSE i \in 1 .. Len(b) + 1 : MismatchAt(a, b, i)
  IN  SubSeq(b, 1, IF m < Len(b) THEN m ELSE Len(b))

\* Dirent::getNamespace
Namespace(k) == k[1]
=============================================================================
