---------------------------- MODULE ArchiveProofs ----------------------------
(***************************************************************************)
(* Proofs about Archive: what the queries answer, for every archive whose  *)
(* dirents are sorted and any number of threads.  First the order of       *)
(* strings and what a lookup in a sorted table finds, then the queries one *)
(* by one, then the list by clusters, and the invariant that ties them     *)
(* to the answers that threads hold.                                       *)
(***************************************************************************)
EXTENDS Archive, FiniteSetTheorems, SequenceTheorems, WellFoundedInduction, TLAPS

Str == Seq(Nat)

\* The least number principle, for a set of numbers.
LEMMA LeastOf == ASSUME NEW T, T \subseteq Nat, T # {} PROVE \E x \in T : \A y \in T : x <= y
<1>1. PICK x \in T : \A y \in T : ~ (<<y, x>> \in OpToRel(<, Nat))
  BY WFMin, NatLessThanWellFounded
<1>2. \A y \in T : ~ (y < x)
  BY <1>1 DEF OpToRel
<1> QED
  BY <1>2

-----------------------------------------------------------------------------
(* The order of strings *)

LEMMA StrFacts == ASSUME NEW s \in Str PROVE Len(s) \in Nat /\ \A i \in 1 .. Len(s) : s[i] \in Nat
BY DEF Str

LEMMA StrEqual ==
  ASSUME NEW a \in Str, NEW b \in Str, Len(a) = Len(b), \A i \in 1 .. Len(a) : a[i] = b[i]
  PROVE  a = b
BY SeqEqual DEF Str

LEMMA LessIrreflexive == ASSUME NEW a \in Str PROVE ~ StringLess(a, a)
BY StrFacts DEF StringLess, MismatchAt

LEMMA LessTransitive ==
  ASSUME NEW a \in Str, NEW b \in Str, NEW c \in Str, StringLess(a, b), StringLess(b, c)
  PROVE  StringLess(a, c)
<1>0. /\ Len(a) \in Nat /\ \A i \in 1 .. Len(a) : a[i] \in Nat
      /\ Len(b) \in Nat /\ \A i \in 1 .. Len(b) : b[i] \in Nat
      /\ Len(c) \in Nat /\ \A i \in 1 .. Len(c) : c[i] \in Nat
  BY StrFacts
<1>1. PICK i \in 1 .. Len(b) : MismatchAt(a, b, i) /\ (i <= Len(a) => a[i] < b[i])
  BY DEF StringLess
<1>2. PICK j \in 1 .. Len(c) : MismatchAt(b, c, j) /\ (j <= Len(b) => b[j] < c[j])
  BY DEF StringLess
<1>3. CASE i <= j
  <2>1. i \in 1 .. Len(c) /\ MismatchAt(a, c, i) /\ (i <= Len(a) => a[i] < c[i])
    BY <1>0, <1>1, <1>2, <1>3 DEF MismatchAt
  <2> QED
    BY <2>1 DEF StringLess
<1>4. CASE j < i
  <2>1. MismatchAt(a, c, j) /\ (j <= Len(a) => a[j] < c[j])
    BY <1>0, <1>1, <1>2, <1>4 DEF MismatchAt
  <2> QED
    BY <2>1 DEF StringLess
<1> QED
  BY <1>0, <1>3, <1>4

LEMMA LessTotal ==
  ASSUME NEW a \in Str, NEW b \in Str
  PROVE  StringLess(a, b) \/ StringLess(b, a) \/ a = b
<1>0. /\ Len(a) \in Nat /\ \A i \in 1 .. Len(a) : a[i] \in Nat
      /\ Len(b) \in Nat /\ \A i \in 1 .. Len(b) : b[i] \in Nat
  BY StrFacts
<1> DEFINE D == {i \in Nat : i >= 1 /\ (i > Len(a) \/ i > Len(b) \/ a[i] # b[i])}
<1>1. D \subseteq Nat /\ Len(a) + 1 \in D
  BY <1>0
<1>2. PICK m \in D : \A y \in D : m <= y
  BY <1>1, LeastOf
<1> HIDE DEF D
<1>3. m \in Nat /\ m >= 1 /\ (m > Len(a) \/ m > Len(b) \/ a[m] # b[m])
  BY <1>2 DEF D
<1>4. \A i \in 1 .. m - 1 : i <= Len(a) /\ i <= Len(b) /\ a[i] = b[i]
  <2> SUFFICES ASSUME NEW i \in 1 .. m - 1, i > Len(a) \/ i > Len(b) \/ a[i] # b[i] PROVE FALSE
    BY <1>0, <1>3
  <2>1. i \in D
    BY <1>3 DEF D
  <2> QED
    BY <1>2, <1>3, <2>1
<1>5. m <= Len(a) + 1 /\ m <= Len(b) + 1
  BY <1>0, <1>3, <1>4
<1>6. CASE m > Len(a) /\ m > Len(b)
  BY <1>0, <1>3, <1>4, <1>5, <1>6, StrEqual
<1>7. CASE m > Len(a) /\ m <= Len(b)
  BY <1>0, <1>3, <1>4, <1>5, <1>7 DEF StringLess, MismatchAt
<1>8. CASE m <= Len(a) /\ m > Len(b)
  BY <1>0, <1>3, <1>4, <1>5, <1>8 DEF StringLess, MismatchAt
<1>9. CASE m <= Len(a) /\ m <= Len(b)
  <2>1. m \in 1 .. Len(a) /\ m \in 1 .. Len(b) /\ a[m] # b[m] /\ MismatchAt(a, b, m) /\ MismatchAt(b, a, m)
    BY <1>0, <1>3, <1>4, <1>5, <1>9 DEF MismatchAt
  <2>2. a[m] < b[m] \/ b[m] < a[m]
    BY <1>0, <2>1
  <2> QED
    BY <2>1, <2>2 DEF StringLess
<1> QED
  BY <1>0, <1>3, <1>6, <1>7, <1>8, <1>9

\* p is where s begins.
Starts(p, s) == Len(p) <= Len(s) /\ \A j \in 1 .. Len(p) : s[j] = p[j]

\* The successor of a string whose last character does not wrap
After(p) == [p EXCEPT ![Len(p)] = @ + 1]

LEMMA NoWrap == ASSUME NEW p \in Str, p # <<>>, p[Len(p)] < CharMax PROVE Successor(p) = After(p)
<1>1. Len(p) \in 1 .. Len(p) /\ p[Len(p)] \in Nat
  BY DEF Str
<1>2. Incremented(p[Len(p)]) = p[Len(p)] + 1
  BY <1>1 DEF Incremented, CharMax
<1> QED
  BY <1>2 DEF Successor, After

LEMMA SuccessorFacts ==
  ASSUME NEW p \in Str, p # <<>>
  PROVE  /\ After(p) \in Str /\ Len(After(p)) = Len(p)
         /\ \A i \in 1 .. Len(p) : After(p)[i] = IF i = Len(p) THEN p[i] + 1 ELSE p[i]
         /\ Len(p) \in Nat /\ Len(p) >= 1
<1>1. Len(p) \in Nat /\ Len(p) >= 1 /\ \A i \in 1 .. Len(p) : p[i] \in Nat
  BY DEF Str
<1>2. After(p) = [i \in 1 .. Len(p) |-> IF i = Len(p) THEN p[i] + 1 ELSE p[i]]
  BY <1>1 DEF After, Str
<1>3. After(p) \in [1 .. Len(p) -> Nat]
  BY <1>1, <1>2
<1> QED
  BY <1>1, <1>2, <1>3 DEF Str

\* The strings from p up to its successor are those that begin with p.
LEMMA PrefixRange ==
  ASSUME NEW p \in Str, p # <<>>, NEW s \in Str
  PROVE  ~ StringLess(s, p) /\ StringLess(s, After(p)) <=> Starts(p, s)
<1>0. /\ Len(p) \in Nat /\ Len(p) >= 1 /\ \A i \in 1 .. Len(p) : p[i] \in Nat
      /\ Len(s) \in Nat /\ \A i \in 1 .. Len(s) : s[i] \in Nat
  BY StrFacts, SuccessorFacts
<1>q. PICK q \in Str : /\ q = After(p) /\ Len(q) = Len(p)
                       /\ \A i \in 1 .. Len(p) : q[i] = IF i = Len(p) THEN p[i] + 1 ELSE p[i]
  BY SuccessorFacts
<1>1. ASSUME Starts(p, s) PROVE ~ StringLess(s, p) /\ StringLess(s, q)
  <2>1. ~ StringLess(s, p)
    BY <1>0, <1>1 DEF StringLess, MismatchAt, Starts
  <2>2. MismatchAt(s, q, Len(p)) /\ s[Len(p)] < q[Len(p)]
    BY SMTT(30), <1>0, <1>q, <1>1 DEF MismatchAt, Starts
  <2> QED
    BY <1>0, <1>q, <2>1, <2>2 DEF StringLess
<1>2. ASSUME ~ StringLess(s, p), StringLess(s, q) PROVE Starts(p, s)
  <2>1. CASE s = p
    BY <1>0, <2>1 DEF Starts
  <2>2. CASE StringLess(p, s)
    <3>1. PICK i \in 1 .. Len(s) : MismatchAt(p, s, i) /\ (i <= Len(p) => p[i] < s[i])
      BY <2>2 DEF StringLess
    <3>2. PICK j \in 1 .. Len(q) : MismatchAt(s, q, j) /\ (j <= Len(s) => s[j] < q[j])
      BY <1>2 DEF StringLess
    <3>3. CASE i > Len(p)
      BY <1>0, <3>1, <3>3 DEF MismatchAt, Starts
    <3>4. CASE i <= Len(p) /\ i < j
      <4>1. s[i] = q[i] /\ q[i] = p[i]
        BY <1>0, <1>q, <3>1, <3>2, <3>4 DEF MismatchAt
      <4> QED
        BY <1>0, <3>1, <3>4, <4>1
    <3>5. CASE i <= Len(p) /\ i = j
      <4>1. s[i] < q[i] /\ p[i] < s[i] /\ q[i] <= p[i] + 1 /\ s[i] \in Nat /\ p[i] \in Nat /\ q[i] \in Nat
        BY <1>0, <1>q, <3>1, <3>2, <3>5
      <4> QED
        BY <4>1
    <3>6. CASE i <= Len(p) /\ j < i
      <4>1. p[j] = s[j] /\ q[j] = p[j] /\ s[j] < q[j] /\ s[j] \in Nat
        BY <1>0, <1>q, <3>1, <3>2, <3>6 DEF MismatchAt
      <4> QED
        BY <4>1
    <3> QED
      BY <1>0, <1>q, <3>3, <3>4, <3>5, <3>6
  <2> QED
    BY <1>2, <2>1, <2>2, LessTotal
<1> QED
  BY <1>1, <1>2, <1>q

-----------------------------------------------------------------------------
(* Lookups in the sorted table *)

\* A set of the numbers below c that has with a number all before it is the
\* numbers below its size.
LEMMA InitialSegment ==
  ASSUME NEW c \in Nat, NEW S, S \subseteq 0 .. c - 1,
         \A i, j \in 0 .. c - 1 : i < j /\ j \in S => i \in S
  PROVE  Cardinality(S) \in Nat /\ Cardinality(S) <= c /\ S = 0 .. Cardinality(S) - 1
<1> DEFINE T == {n \in Nat : n \notin S}
<1>1. T \subseteq Nat /\ c \in T
  OBVIOUS
<1>2. PICK m \in T : \A y \in T : m <= y
  BY <1>1, LeastOf
<1>3. m \in Nat /\ m <= c /\ m \notin S /\ \A n \in Nat : n < m => n \in S
  BY <1>1, <1>2
<1>4. S = 0 .. m - 1
  <2>1. ASSUME NEW j \in S PROVE j \in 0 .. m - 1
    <3>1. j \in 0 .. c - 1 /\ (m < j => m \in S)
      BY <1>3
    <3> QED
      BY <1>3, <3>1
  <2>2. ASSUME NEW j \in 0 .. m - 1 PROVE j \in S
    BY <1>3
  <2> QED
    BY <2>1, <2>2
<1>5. Cardinality(0 .. m - 1) = m
  BY <1>3, FS_Interval
<1> QED
  BY <1>3, <1>4, <1>5

LEMMA ArchFacts ==
  ASSUME arch \in Archives
  PROVE  /\ arch \in ArchiveSet /\ Count \in Nat
         /\ \A i \in 0 .. Count - 1 : Dirent(i) \in DirentSet /\ Key(i) \in Str
         /\ \A i, j \in 0 .. Count - 1 : i < j => StringLess(Key(i), Key(j))
<1>1. arch \in ArchiveSet
  BY ArchivesAssumption
<1>2. arch.dirents \in Seq(DirentSet)
  BY <1>1 DEF ArchiveSet
<1>3. Count \in Nat
  BY <1>2 DEF Count
<1>4. ASSUME NEW i \in 0 .. Count - 1 PROVE Dirent(i) \in DirentSet
  BY <1>2, <1>3 DEF Dirent, Count
<1>5. ASSUME NEW d \in DirentSet PROVE KeyOf(d) \in Str
  <2>1. d.ns \in Nat /\ d.url \in Seq(Nat)
    BY DEF DirentSet
  <2> QED
    BY <2>1 DEF KeyOf, Str
<1>6. ASSUME NEW i \in 0 .. Count - 1, NEW j \in 0 .. Count - 1, i < j PROVE StringLess(Key(i), Key(j))
  <2>1. i + 1 \in 1 .. Len(arch.dirents) /\ j + 1 \in 1 .. Len(arch.dirents) /\ i + 1 < j + 1
    BY <1>3, <1>6 DEF Count
  <2> QED
    BY <2>1, ArchivesAssumption DEF Key, Dirent
<1> QED
  BY <1>1, <1>3, <1>4, <1>5, <1>6 DEF Key

\* findx finds the number of dirents whose keys are smaller; they come first.
LEMMA FindxFacts ==
  ASSUME arch \in Archives, NEW ns \in Nat, NEW url \in Str
  PROVE  /\ findx(ns, url).index \in Nat /\ findx(ns, url).index <= Count
         /\ \A i \in 0 .. Count - 1 : i < findx(ns, url).index <=> StringLess(Key(i), <<ns>> \o url)
         /\ findx(ns, url).found <=> findx(ns, url).index < Count /\ Key(findx(ns, url).index) = <<ns>> \o url
<1>0. <<ns>> \o url \in Str
  BY DEF Str
<1>1. PICK k \in Str : k = <<ns>> \o url
  BY <1>0
<1>2. /\ Count \in Nat /\ \A i \in 0 .. Count - 1 : Key(i) \in Str
      /\ \A i, j \in 0 .. Count - 1 : i < j => StringLess(Key(i), Key(j))
  BY ArchFacts
<1>3. PICK S : S = {i \in 0 .. Count - 1 : StringLess(Key(i), k)}
  OBVIOUS
<1>4. \A i, j \in 0 .. Count - 1 : i < j /\ j \in S => i \in S
  BY <1>2, <1>3, LessTransitive
<1>5. Cardinality(S) \in Nat /\ Cardinality(S) <= Count /\ S = 0 .. Cardinality(S) - 1
  BY <1>2, <1>3, <1>4, InitialSegment
<1>6. findx(ns, url) = [found |-> Cardinality(S) < Count /\ Key(Cardinality(S)) = k, index |-> Cardinality(S)]
  BY <1>1, <1>3 DEF findx
<1>7. \A i \in 0 .. Count - 1 : i < Cardinality(S) <=> i \in S
  BY <1>2, <1>5
<1>8. \A i \in 0 .. Count - 1 : i \in S <=> StringLess(Key(i), k)
  BY <1>3
<1>9. findx(ns, url).index = Cardinality(S)
  BY <1>6
<1>10. findx(ns, url).found <=> Cardinality(S) < Count /\ Key(Cardinality(S)) = k
  <2>1. PICK b \in BOOLEAN : b = (Cardinality(S) < Count /\ Key(Cardinality(S)) = k)
    BY Zenon
  <2>2. findx(ns, url) = [found |-> b, index |-> Cardinality(S)]
    BY <1>6, <2>1, Zenon
  <2>3. findx(ns, url).found = b
    BY <2>2
  <2> QED
    BY <2>1, <2>3, Zenon
<1>11. \A i \in 0 .. Count - 1 : i < Cardinality(S) <=> StringLess(Key(i), k)
  BY <1>7, <1>8, Zenon
<1>12. PICK n : n = findx(ns, url).index
  OBVIOUS
<1>13. n \in Nat /\ n <= Count
  BY <1>5, <1>9, <1>12
<1>14. \A i \in 0 .. Count - 1 : i < n <=> StringLess(Key(i), <<ns>> \o url)
  BY <1>1, <1>9, <1>11, <1>12, Zenon
<1>15. findx(ns, url).found <=> n < Count /\ Key(n) = <<ns>> \o url
  BY <1>1, <1>9, <1>10, <1>12, Zenon
<1> QED
  BY <1>12, <1>13, <1>14, <1>15, Zenon

\* A dirent that is there is found by its key.
LEMMA FindxFinds ==
  ASSUME arch \in Archives, NEW i \in 0 .. Count - 1, NEW ns \in Nat, NEW url \in Str, Key(i) = <<ns>> \o url
  PROVE  findx(ns, url).found /\ findx(ns, url).index = i
<1>1. PICK n : n = findx(ns, url).index
  OBVIOUS
<1>2. /\ n \in Nat /\ n <= Count
      /\ \A j \in 0 .. Count - 1 : j < n <=> StringLess(Key(j), Key(i))
      /\ findx(ns, url).found <=> n < Count /\ Key(n) = Key(i)
  BY <1>1, FindxFacts
<1>3. /\ Count \in Nat /\ \A j \in 0 .. Count - 1 : Key(j) \in Str
      /\ \A h, j \in 0 .. Count - 1 : h < j => StringLess(Key(h), Key(j))
  BY ArchFacts
<1>4. ~ (i < n)
  BY <1>2, <1>3, LessIrreflexive
<1>5. ~ (n < i)
  <2> SUFFICES ASSUME n < i PROVE FALSE
    OBVIOUS
  <2>1. n \in 0 .. Count - 1
    BY <1>2, <1>3
  <2>2. StringLess(Key(n), Key(i))
    BY <1>3, <2>1
  <2>3. n < n
    BY <1>2, <2>1, <2>2
  <2> QED
    BY <1>2, <2>3
<1> QED
  BY <1>1, <1>2, <1>3, <1>4, <1>5

\* What is found has the key.
LEMMA FindxFound ==
  ASSUME arch \in Archives, NEW ns \in Nat, NEW url \in Str, findx(ns, url).found
  PROVE  findx(ns, url).index \in 0 .. Count - 1 /\ Key(findx(ns, url).index) = <<ns>> \o url
BY FindxFacts, ArchFacts

\* The key of a dirent has its namespace in front.
LEMMA KeyFacts ==
  ASSUME arch \in Archives, NEW i \in 0 .. Count - 1
  PROVE  /\ Dirent(i).ns \in Nat \ {Slash} /\ Dirent(i).url \in Str
         /\ Key(i) = <<Dirent(i).ns>> \o Dirent(i).url
         /\ Len(Key(i)) = Len(Dirent(i).url) + 1 /\ Len(Dirent(i).url) \in Nat
         /\ Key(i)[1] = Dirent(i).ns
         /\ \A j \in 1 .. Len(Dirent(i).url) : Key(i)[j + 1] = Dirent(i).url[j]
<1>1. Dirent(i).ns \in Nat \ {Slash} /\ Dirent(i).url \in Seq(Nat)
  BY ArchFacts DEF DirentSet
<1>2. Key(i) = <<Dirent(i).ns>> \o Dirent(i).url
  BY DEF Key, KeyOf
<1> QED
  BY <1>1, <1>2 DEF Str

LEMMA NamespaceOrder ==
  ASSUME arch \in Archives, NEW i \in 0 .. Count - 1, NEW j \in 0 .. Count - 1, i < j
  PROVE  Dirent(i).ns <= Dirent(j).ns
<1>1. StringLess(Key(i), Key(j))
  BY ArchFacts
<1>2. PICK m \in 1 .. Len(Key(j)) : MismatchAt(Key(i), Key(j), m) /\ (m <= Len(Key(i)) => Key(i)[m] < Key(j)[m])
  BY <1>1 DEF StringLess
<1>3. /\ Key(i)[1] = Dirent(i).ns /\ Len(Key(i)) \in Nat /\ Len(Key(i)) >= 1 /\ Dirent(i).ns \in Nat
      /\ Key(j)[1] = Dirent(j).ns /\ Len(Key(j)) \in Nat /\ Dirent(j).ns \in Nat
  <2>1. /\ Key(i)[1] = Dirent(i).ns /\ Len(Key(i)) = Len(Dirent(i).url) + 1
        /\ Len(Dirent(i).url) \in Nat /\ Dirent(i).ns \in Nat
    BY KeyFacts
  <2>2. /\ Key(j)[1] = Dirent(j).ns /\ Len(Key(j)) = Len(Dirent(j).url) + 1
        /\ Len(Dirent(j).url) \in Nat /\ Dirent(j).ns \in Nat
    BY KeyFacts
  <2> QED
    BY <2>1, <2>2
<1>4. CASE m = 1
  BY <1>2, <1>3, <1>4
<1>5. CASE m > 1
  BY <1>2, <1>3, <1>5 DEF MismatchAt
<1> QED
  BY <1>2, <1>3, <1>4, <1>5

LEMMA NamespaceBeginFacts ==
  ASSUME arch \in Archives, NEW ch \in Nat
  PROVE  /\ NamespaceBegin(ch) \in Nat /\ NamespaceBegin(ch) <= Count
         /\ \A i \in 0 .. Count - 1 : i < NamespaceBegin(ch) <=> Dirent(i).ns < ch
<1>1. PICK S : S = {i \in 0 .. Count - 1 : Dirent(i).ns < ch}
  OBVIOUS
<1>2. Count \in Nat /\ \A i \in 0 .. Count - 1 : Dirent(i).ns \in Nat
  BY ArchFacts, KeyFacts
<1>3. \A i, j \in 0 .. Count - 1 : i < j /\ j \in S => i \in S
  <2> SUFFICES ASSUME NEW i \in 0 .. Count - 1, NEW j \in 0 .. Count - 1, i < j, j \in S PROVE i \in S
    OBVIOUS
  <2>1. Dirent(i).ns <= Dirent(j).ns
    BY NamespaceOrder
  <2> QED
    BY <1>1, <1>2, <2>1
<1>4. Cardinality(S) \in Nat /\ Cardinality(S) <= Count /\ S = 0 .. Cardinality(S) - 1
  BY <1>1, <1>2, <1>3, InitialSegment
<1>5. NamespaceBegin(ch) = Cardinality(S)
  BY <1>1 DEF NamespaceBegin
<1>6. \A i \in 0 .. Count - 1 : i < Cardinality(S) <=> i \in S
  BY <1>2, <1>4
<1> QED
  BY <1>1, <1>4, <1>5, <1>6

\* The user's entries are those of namespace C, or all.
LEMMA UserFacts ==
  ASSUME arch \in Archives
  PROVE  /\ StartUserEntry \in Nat /\ EndUserEntry \in Nat
         /\ StartUserEntry <= EndUserEntry /\ EndUserEntry <= Count
         /\ UserEntries = {i \in 0 .. Count - 1 : arch.newScheme => Dirent(i).ns = NsC}
<1>1. Count \in Nat /\ \A i \in 0 .. Count - 1 : Dirent(i).ns \in Nat
  BY ArchFacts, KeyFacts
<1>2. CASE arch.newScheme
  <2>1. PICK b \in Nat : /\ b = NamespaceBegin(NsC) /\ b <= Count
                         /\ \A i \in 0 .. Count - 1 : i < b <=> Dirent(i).ns < NsC
    BY NamespaceBeginFacts DEF NsC
  <2>2. PICK e \in Nat : /\ e = NamespaceBegin(NsC + 1) /\ e <= Count
                         /\ \A i \in 0 .. Count - 1 : i < e <=> Dirent(i).ns < NsC + 1
    BY NamespaceBeginFacts DEF NsC
  <2>3. StartUserEntry = b /\ EndUserEntry = e
    BY <1>2, <2>1, <2>2 DEF StartUserEntry, EndUserEntry
  <2>4. b <= e
    <3> SUFFICES ASSUME e < b PROVE FALSE
      BY <2>1, <2>2
    <3>1. e \in 0 .. Count - 1 /\ Dirent(e).ns < NsC /\ ~ (Dirent(e).ns < NsC + 1) /\ NsC \in Nat
      BY <1>1, <2>1, <2>2 DEF NsC
    <3> QED
      BY <1>1, <3>1
  <2>5. \A i \in 0 .. Count - 1 : b <= i /\ i < e <=> Dirent(i).ns = NsC
    BY <1>1, <2>1, <2>2 DEF NsC
  <2>6. b .. e - 1 = {i \in 0 .. Count - 1 : Dirent(i).ns = NsC}
    BY <1>1, <2>1, <2>2, <2>5
  <2> QED
    BY <1>2, <2>1, <2>2, <2>3, <2>4, <2>6 DEF UserEntries
<1>3. CASE ~ arch.newScheme
  BY <1>1, <1>3 DEF StartUserEntry, EndUserEntry, UserEntries
<1> QED
  BY <1>2, <1>3

-----------------------------------------------------------------------------
(* Paths *)

\* The first lookup that finds something is taken: here the first of all.
LEMMA FirstTaken ==
  ASSUME NEW rs, Len(rs) \in Nat, Len(rs) >= 1, rs[1].found
  PROVE  FirstFound(rs) = rs[1]
<1>1. 1 \in 1 .. Len(rs) /\ \A h \in 1 .. 1 - 1 : ~ rs[h].found
  OBVIOUS
<1>2. PICK j : j = CHOOSE x \in 1 .. Len(rs) : rs[x].found /\ \A h \in 1 .. x - 1 : ~ rs[h].found
  OBVIOUS
<1>3. j \in 1 .. Len(rs) /\ rs[j].found /\ \A h \in 1 .. j - 1 : ~ rs[h].found
  BY <1>1, <1>2
<1>4. j = 1
  BY <1>1, <1>3
<1> QED
  BY <1>1, <1>2, <1>4 DEF FirstFound

\* A long path and its parts
LEMMA LongFacts ==
  ASSUME NEW ns \in Nat, NEW q \in Str
  PROVE  /\ <<ns, Slash>> \o q \in Str /\ Len(<<ns, Slash>> \o q) = Len(q) + 2 /\ Len(q) \in Nat
         /\ (<<ns, Slash>> \o q)[1] = ns /\ (<<ns, Slash>> \o q)[2] = Slash
         /\ \A j \in 1 .. Len(q) : (<<ns, Slash>> \o q)[j + 2] = q[j]
<1>1. <<ns, Slash>> \in Seq(Nat) /\ Len(<<ns, Slash>>) = 2 /\ <<ns, Slash>>[1] = ns /\ <<ns, Slash>>[2] = Slash
  BY DEF Slash
<1> QED
  BY <1>1 DEF Str

\* The end of a string
LEMMA TailFacts ==
  ASSUME NEW p \in Str, NEW n \in Nat, n <= Len(p)
  PROVE  /\ SubSeq(p, n + 1, Len(p)) \in Str /\ Len(SubSeq(p, n + 1, Len(p))) = Len(p) - n
         /\ \A j \in 1 .. Len(p) - n : SubSeq(p, n + 1, Len(p))[j] = p[j + n]
<1>1. Len(p) \in Nat /\ \A i \in n + 1 .. Len(p) : p[i] \in Nat
  BY DEF Str
<1>2. /\ SubSeq(p, n + 1, Len(p)) \in Seq(Nat)
      /\ Len(SubSeq(p, n + 1, Len(p))) = IF n + 1 <= Len(p) THEN Len(p) - (n + 1) + 1 ELSE 0
      /\ \A i \in 1 .. Len(p) - (n + 1) + 1 : SubSeq(p, n + 1, Len(p))[i] = p[(n + 1) + i - 1]
  BY <1>1, SubSeqProperties
<1>3. \A j \in 1 .. Len(p) - n : j \in 1 .. Len(p) - (n + 1) + 1 /\ (n + 1) + j - 1 = j + n
  BY <1>1
<1>4. Len(SubSeq(p, n + 1, Len(p))) = Len(p) - n
  BY <1>1, <1>2
<1> QED
  BY <1>2, <1>3, <1>4, Zenon DEF Str

\* parseLongPath takes apart what getPath put together.
LEMMA ParsesOwn ==
  ASSUME NEW ns \in Nat, ns # Slash, NEW q \in Str, NEW p, p = <<ns, Slash>> \o q
  PROVE  Parses(p) /\ LongNs(p) = ns /\ ShortPath(p) = q
<1>1. /\ p \in Str /\ Len(p) = Len(q) + 2 /\ Len(q) \in Nat /\ p[1] = ns /\ p[2] = Slash
      /\ \A j \in 1 .. Len(q) : p[j + 2] = q[j]
  BY LongFacts
<1>2. First(p) = 0
  BY <1>1 DEF First
<1>3. Parses(p) /\ LongNs(p) = ns
  BY <1>1, <1>2 DEF Parses, LongNs
<1>4. ShortPath(p) = SubSeq(p, 2 + 1, Len(p))
  <2>1. Least(First(p) + 2, Len(p)) = 2
    BY <1>1, <1>2 DEF Least
  <2> QED
    BY <2>1, Zenon DEF ShortPath
<1>5. PICK r : r = SubSeq(p, 2 + 1, Len(p))
  OBVIOUS
<1>6. r \in Str /\ Len(r) = Len(p) - 2 /\ \A j \in 1 .. Len(p) - 2 : r[j] = p[j + 2]
  <2>1. 2 \in Nat /\ 2 <= Len(p)
    BY <1>1
  <2> QED
    BY <1>1, <1>5, <2>1, TailFacts, Zenon
<1>7. Len(r) = Len(q) /\ \A j \in 1 .. Len(q) : r[j] = q[j]
  BY <1>1, <1>6
<1>8. r = q
  BY <1>6, <1>7, StrEqual
<1> QED
  BY <1>3, <1>4, <1>5, <1>8, Zenon

\* What a path that can be parsed consists of
LEMMA ParsedFacts ==
  ASSUME NEW p \in Str, Parses(p)
  PROVE  LongNs(p) \in Nat /\ ShortPath(p) \in Str
<1>1. First(p) \in {0, 1} /\ First(p) + 1 <= Len(p) /\ Len(p) \in Nat /\ \A i \in 1 .. Len(p) : p[i] \in Nat
  BY DEF Parses, First, Str
<1>2. PICK n \in Nat : n = Least(First(p) + 2, Len(p)) /\ n <= Len(p)
  BY <1>1 DEF Least
<1>3. ShortPath(p) = SubSeq(p, n + 1, Len(p))
  BY <1>2 DEF ShortPath
<1> QED
  BY <1>1, <1>2, <1>3, TailFacts DEF LongNs

\* A parsed path has characters of the path only.
LEMMA ParsedCharacters ==
  ASSUME NEW p \in Str, Parses(p), \A i \in 1 .. Len(p) : p[i] < CharMax
  PROVE  LongNs(p) < CharMax /\ (ShortPath(p) # <<>> => ShortPath(p)[Len(ShortPath(p))] < CharMax)
<1>1. First(p) \in {0, 1} /\ First(p) + 1 <= Len(p) /\ Len(p) \in Nat
  BY DEF Parses, First, Str
<1>2. PICK n \in Nat : n = Least(First(p) + 2, Len(p)) /\ n <= Len(p)
  BY <1>1 DEF Least
<1>3. ShortPath(p) = SubSeq(p, n + 1, Len(p))
  BY <1>2 DEF ShortPath
<1>4. PICK q : q = SubSeq(p, n + 1, Len(p))
  OBVIOUS
<1>5. Len(q) = Len(p) - n /\ (q # <<>> => q[Len(q)] = p[Len(p)])
  <2>1. /\ Len(q) = Len(p) - n
        /\ \A h \in 1 .. Len(p) - n : q[h] = p[h + n]
    BY <1>2, <1>4, TailFacts, Zenon
  <2>2. ASSUME q # <<>> PROVE q[Len(q)] = p[Len(p)]
    <3>1. Len(q) > 0
      BY <1>1, <1>2, <1>4, <2>2 DEF Str
    <3>2. Len(p) - n \in 1 .. Len(p) - n /\ (Len(p) - n) + n = Len(p)
      BY <1>1, <1>2, <2>1, <3>1
    <3>3. q[Len(p) - n] = p[(Len(p) - n) + n]
      BY <2>1, <3>2, Zenon
    <3> QED
      BY <2>1, <3>2, <3>3
  <2> QED
    BY <2>1, <2>2
<1>6. Len(p) \in 1 .. Len(p) /\ First(p) + 1 \in 1 .. Len(p)
  BY <1>1
<1>7. p[Len(p)] < CharMax /\ LongNs(p) < CharMax
  BY <1>6 DEF LongNs
<1> QED
  BY <1>3, <1>4, <1>5, <1>7

LEMMA PathType == ASSUME arch \in Archives, NEW i \in 0 .. Count - 1 PROVE getPath(i) \in Str
<1>1. Dirent(i).ns \in Nat /\ Dirent(i).url \in Str
  BY KeyFacts
<1> QED
  BY <1>1, LongFacts DEF getPath

\* The own path of an entry is tried first, and leads to it.
LEMMA OwnPath ==
  ASSUME arch \in Archives, NEW i \in UserEntries, NEW p, p = getPath(i)
  PROVE  EntryByPath(p).found /\ EntryByPath(p).index = i
<1>1. i \in 0 .. Count - 1 /\ (arch.newScheme => Dirent(i).ns = NsC)
  BY UserFacts
<1>2. PICK ns \in Nat, url \in Str : ns = Dirent(i).ns /\ url = Dirent(i).url /\ ns # Slash /\ Key(i) = <<ns>> \o url
  BY <1>1, KeyFacts
<1>3. findx(ns, url).found /\ findx(ns, url).index = i
  BY <1>1, <1>2, FindxFinds, ZenonT(60)
<1>4. CASE arch.newScheme
  <2>1. p = url /\ ns = NsC
    BY <1>1, <1>2, <1>4 DEF getPath
  <2>2. PICK r : r = <<findx(NsC, p), IF Parses(p) THEN findx(NsC, ShortPath(p)) ELSE NotFound>>
    OBVIOUS
  <2>3. Len(r) = 2 /\ r[1] = findx(ns, url)
    BY <2>1, <2>2
  <2>4. FirstFound(r) = r[1]
    BY <1>3, <2>3, FirstTaken
  <2>5. EntryByPath(p) = FirstFound(r)
    BY <1>4, <2>2 DEF EntryByPath
  <2> QED
    BY <1>3, <2>3, <2>4, <2>5
<1>5. CASE ~ arch.newScheme
  <2>1. p = <<ns, Slash>> \o url
    BY <1>2, <1>5 DEF getPath
  <2>2. Parses(p) /\ LongNs(p) = ns /\ ShortPath(p) = url
    BY <1>2, <2>1, ParsesOwn
  <2>3. PICK r : r = <<IF Parses(p) THEN findx(LongNs(p), ShortPath(p)) ELSE NotFound,
                       findx(NsA, p), findx(NsI, p), findx(NsJ, p), findx(Dash, p)>>
    OBVIOUS
  <2>4. Len(r) = 5 /\ r[1] = findx(ns, url)
    BY <2>2, <2>3
  <2>5. FirstFound(r) = r[1]
    BY <1>3, <2>4, FirstTaken
  <2>6. EntryByPath(p) = FirstFound(r)
    BY <1>5, <2>3 DEF EntryByPath
  <2> QED
    BY <1>3, <2>4, <2>5, <2>6
<1> QED
  BY <1>4, <1>5

\* A key put together from a namespace and the rest
InNs(ns, q) == <<ns>> \o q

LEMMA ConsFacts ==
  ASSUME NEW ns \in Nat, NEW q \in Str, NEW k, k = InNs(ns, q)
  PROVE  k \in Str /\ Len(k) = Len(q) + 1 /\ Len(q) \in Nat /\ k[1] = ns
<1>1. <<ns>> \in Seq(Nat) /\ Len(<<ns>>) = 1 /\ <<ns>>[1] = ns
  OBVIOUS
<1> QED
  BY <1>1 DEF InNs, Str

LEMMA ConsRest ==
  ASSUME NEW ns \in Nat, NEW q \in Str, NEW k, k = InNs(ns, q)
  PROVE  \A j \in 1 .. Len(q) : k[j + 1] = q[j]
<1>1. <<ns>> \in Seq(Nat) /\ Len(<<ns>>) = 1
  OBVIOUS
<1> QED
  BY <1>1 DEF InNs, Str

\* The dirents whose keys begin with k, and those of a namespace whose paths
\* begin with q
KeysFrom(k) == {i \in 0 .. Count - 1 : Starts(k, Key(i))}
PathsFrom(ns, q) == {i \in 0 .. Count - 1 : Dirent(i).ns = ns /\ Starts(q, Dirent(i).url)}

\* Two lookups are the ends of the dirents whose keys begin with k.
LEMMA KeyRange ==
  ASSUME arch \in Archives, NEW m \in Nat, NEW v \in Str, NEW n \in Nat, NEW w \in Str,
         After(InNs(m, v)) = InNs(n, w)
  PROVE  findx(m, v).index .. findx(n, w).index - 1 = KeysFrom(InNs(m, v))
<1>k. PICK k : k = InNs(m, v)
  OBVIOUS
<1>0. k \in Str /\ Len(k) = Len(v) + 1 /\ Len(v) \in Nat
  BY <1>k, ConsFacts, Zenon
<1>e. k # <<>>
  BY <1>0
<1>b. PICK b : b = findx(m, v).index
  OBVIOUS
<1>1. b \in Nat /\ b <= Count /\ \A i \in 0 .. Count - 1 : i < b <=> StringLess(Key(i), k)
  BY <1>k, <1>b, FindxFacts, Zenon DEF InNs
<1>s. PICK s : s = After(k)
  OBVIOUS
<1>f. PICK e : e = findx(n, w).index
  OBVIOUS
<1>2. /\ e \in Nat /\ e <= Count
      /\ \A i \in 0 .. Count - 1 : i < e <=> StringLess(Key(i), s)
  BY <1>k, <1>s, <1>f, FindxFacts, Zenon DEF InNs
<1>3. Count \in Nat /\ \A i \in 0 .. Count - 1 : Key(i) \in Str
  BY ArchFacts
<1>4. \A i \in 0 .. Count - 1 : ~ (i < b) /\ i < e <=> Starts(k, Key(i))
  <2>1. \A i \in 0 .. Count - 1 : ~ StringLess(Key(i), k) /\ StringLess(Key(i), s) <=> Starts(k, Key(i))
    BY <1>0, <1>e, <1>s, <1>3, PrefixRange
  <2> QED
    BY <1>1, <1>2, <2>1, Zenon
<1>5. b .. e - 1 = {i \in 0 .. Count - 1 : Starts(k, Key(i))}
  <2>1. ASSUME NEW i \in b .. e - 1 PROVE i \in 0 .. Count - 1 /\ Starts(k, Key(i))
    BY <1>1, <1>2, <1>3, <1>4
  <2>2. ASSUME NEW i \in 0 .. Count - 1, Starts(k, Key(i)) PROVE i \in b .. e - 1
    BY <1>1, <1>2, <1>3, <1>4, <2>2
  <2> QED
    BY <2>1, <2>2
<1> QED
  BY <1>k, <1>b, <1>f, <1>5, Zenon DEF KeysFrom

\* The successor of a key is that of its last part.
LEMMA SuccessorOfCons ==
  ASSUME NEW ns \in Nat, NEW q \in Str
  PROVE  /\ q # <<>> => <<ns>> \o After(q) = After(<<ns>> \o q)
         /\ q = <<>> => <<ns + 1>> \o <<>> = After(<<ns>> \o q)
<1>k. PICK k : k = InNs(ns, q)
  OBVIOUS
<1>1. /\ k \in Str /\ Len(k) = Len(q) + 1 /\ Len(q) \in Nat
      /\ k[1] = ns /\ \A j \in 1 .. Len(q) : k[j + 1] = q[j]
  <2>1. k \in Str /\ Len(k) = Len(q) + 1 /\ Len(q) \in Nat /\ k[1] = ns
    BY <1>k, ConsFacts, Zenon
  <2>2. \A j \in 1 .. Len(q) : k[j + 1] = q[j]
    BY <1>k, ConsRest, Zenon
  <2> QED
    BY <2>1, <2>2, Zenon
<1>0. k # <<>>
  BY <1>1
<1>s. PICK s : s = After(k)
  OBVIOUS
<1>2. /\ s \in Str /\ Len(s) = Len(q) + 1
      /\ \A i \in 1 .. Len(q) + 1 : s[i] = IF i = Len(q) + 1 THEN k[i] + 1 ELSE k[i]
  <2>1. /\ s \in Str /\ Len(s) = Len(k)
        /\ \A i \in 1 .. Len(k) : s[i] = IF i = Len(k) THEN k[i] + 1 ELSE k[i]
    BY <1>0, <1>1, <1>s, SuccessorFacts, Zenon
  <2> QED
    BY <1>1, <2>1, Zenon
<1>3. ASSUME q # <<>> PROVE <<ns>> \o After(q) = s
  <2>1. PICK z \in Str : z = After(q) /\ Len(z) = Len(q) /\ Len(q) >= 1
                         /\ \A i \in 1 .. Len(q) : z[i] = IF i = Len(q) THEN q[i] + 1 ELSE q[i]
    BY <1>3, SuccessorFacts
  <2>y. PICK y : y = InNs(ns, z)
    OBVIOUS
  <2>2. y \in Str /\ Len(y) = Len(q) + 1 /\ y[1] = ns /\ \A j \in 1 .. Len(q) : y[j + 1] = z[j]
    <3>1. y \in Str /\ Len(y) = Len(z) + 1 /\ y[1] = ns
      BY <2>1, <2>y, ConsFacts, Zenon
    <3>2. \A j \in 1 .. Len(z) : y[j + 1] = z[j]
      BY <2>1, <2>y, ConsRest, ZenonT(60)
    <3> QED
      BY <2>1, <3>1, <3>2, Zenon
  <2>3. ASSUME NEW i \in 1 .. Len(y) PROVE y[i] = s[i]
    <3>1. CASE i = 1
      BY <1>1, <1>2, <2>1, <2>2, <3>1
    <3>2. CASE i # 1
      <4>1. i - 1 \in 1 .. Len(q) /\ (i - 1) + 1 = i
        BY <1>1, <2>2, <3>2
      <4>2. y[i] = z[i - 1] /\ k[i] = q[i - 1]
        BY <1>1, <2>2, <4>1
      <4> QED
        BY <1>1, <1>2, <2>1, <4>1, <4>2
    <3> QED
      BY <3>1, <3>2
  <2>4. y = s
    BY <1>2, <2>2, <2>3, StrEqual
  <2> QED
    BY <2>1, <2>y, <2>4, Zenon DEF InNs
<1>4. ASSUME q = <<>> PROVE <<ns + 1>> \o <<>> = s
  <2>1. Len(q) = 0 /\ <<>> \in Str /\ Len(<<>>) = 0
    BY <1>4 DEF Str
  <2>y. PICK y : y = InNs(ns + 1, <<>>)
    OBVIOUS
  <2>2. y \in Str /\ Len(y) = 1 /\ y[1] = ns + 1
    <3>1. PICK m \in Nat, e \in Str : m = ns + 1 /\ e = <<>>
      BY <2>1
    <3>2. y \in Str /\ Len(y) = Len(e) + 1 /\ y[1] = m
      BY <2>y, <3>1, ConsFacts, Zenon
    <3> QED
      BY <2>1, <3>1, <3>2
  <2>3. Len(s) = 1 /\ s[1] = ns + 1
    BY <1>1, <1>2, <2>1
  <2>4. y = s
    BY <1>2, <2>2, <2>3, StrEqual
  <2> QED
    BY <2>y, <2>4, Zenon DEF InNs
<1> QED
  BY <1>k, <1>s, <1>3, <1>4, Zenon DEF InNs

LEMMA StartsOfCons ==
  ASSUME NEW ns \in Nat, NEW q \in Str, NEW n \in Nat, NEW u \in Str
  PROVE  /\ Starts(<<ns>> \o q, <<n>> \o u) <=> ns = n /\ Starts(q, u)
         /\ Starts(<<ns, Slash>> \o q, <<n, Slash>> \o u) <=> ns = n /\ Starts(q, u)
<1>p. PICK k, l, f, g : k = InNs(ns, q) /\ l = InNs(n, u) /\ f = <<ns, Slash>> \o q /\ g = <<n, Slash>> \o u
  BY Zenon
<1>1. /\ k \in Str /\ Len(k) = Len(q) + 1 /\ Len(q) \in Nat
      /\ k[1] = ns /\ \A j \in 1 .. Len(q) : k[j + 1] = q[j]
  <2>1. k \in Str /\ Len(k) = Len(q) + 1 /\ Len(q) \in Nat /\ k[1] = ns
    BY <1>p, ConsFacts, Zenon
  <2>2. \A j \in 1 .. Len(q) : k[j + 1] = q[j]
    BY <1>p, ConsRest, Zenon
  <2> QED
    BY <2>1, <2>2, Zenon
<1>2. /\ l \in Str /\ Len(l) = Len(u) + 1 /\ Len(u) \in Nat
      /\ l[1] = n /\ \A j \in 1 .. Len(u) : l[j + 1] = u[j]
  <2>1. l \in Str /\ Len(l) = Len(u) + 1 /\ Len(u) \in Nat /\ l[1] = n
    BY <1>p, ConsFacts, Zenon
  <2>2. \A j \in 1 .. Len(u) : l[j + 1] = u[j]
    BY <1>p, ConsRest, Zenon
  <2> QED
    BY <2>1, <2>2, Zenon
<1>3. /\ f \in Str /\ Len(f) = Len(q) + 2
      /\ f[1] = ns /\ f[2] = Slash /\ \A j \in 1 .. Len(q) : f[j + 2] = q[j]
  BY <1>p, LongFacts, ZenonT(60)
<1>4. /\ g \in Str /\ Len(g) = Len(u) + 2
      /\ g[1] = n /\ g[2] = Slash /\ \A j \in 1 .. Len(u) : g[j + 2] = u[j]
  BY <1>p, LongFacts, ZenonT(60)
<1>5. ASSUME ns = n, Starts(q, u) PROVE Starts(k, l) /\ Starts(f, g)
  <2>1. Len(q) <= Len(u) /\ \A j \in 1 .. Len(q) : u[j] = q[j]
    BY <1>5 DEF Starts
  <2>2. ASSUME NEW i \in 1 .. Len(k) PROVE l[i] = k[i]
    <3>1. i # 1 => i - 1 \in 1 .. Len(q) /\ i - 1 \in 1 .. Len(u) /\ (i - 1) + 1 = i
      BY <1>1, <1>2, <2>1
    <3>2. i # 1 => k[i] = q[i - 1] /\ l[i] = u[i - 1]
      BY <1>1, <1>2, <3>1
    <3> QED
      BY <1>1, <1>2, <1>5, <2>1, <3>1, <3>2
  <2>3. ASSUME NEW i \in 1 .. Len(f) PROVE g[i] = f[i]
    <3>1. i > 2 => i - 2 \in 1 .. Len(q) /\ i - 2 \in 1 .. Len(u) /\ (i - 2) + 2 = i
      BY <1>1, <1>2, <1>3, <2>1
    <3>2. i > 2 => f[i] = q[i - 2] /\ g[i] = u[i - 2]
      BY <1>3, <1>4, <3>1
    <3>3. i > 2 \/ i = 1 \/ i = 2
      BY <1>1, <1>3
    <3> QED
      BY <1>3, <1>4, <1>5, <2>1, <3>1, <3>2, <3>3
  <2> QED
    BY <1>1, <1>2, <1>3, <1>4, <2>1, <2>2, <2>3 DEF Starts
<1>6. ASSUME Starts(k, l) PROVE ns = n /\ Starts(q, u)
  <2>1. Len(q) <= Len(u) /\ 1 \in 1 .. Len(k) /\ \A j \in 1 .. Len(k) : l[j] = k[j]
    BY <1>1, <1>2, <1>6 DEF Starts
  <2>2. ASSUME NEW j \in 1 .. Len(q) PROVE u[j] = q[j]
    <3>1. j + 1 \in 1 .. Len(k) /\ j \in 1 .. Len(u)
      BY <1>1, <1>2, <2>1
    <3> QED
      BY <1>1, <1>2, <2>1, <3>1
  <2> QED
    BY <1>1, <1>2, <2>1, <2>2 DEF Starts
<1>7. ASSUME Starts(f, g) PROVE ns = n /\ Starts(q, u)
  <2>1. Len(q) <= Len(u) /\ 1 \in 1 .. Len(f) /\ \A j \in 1 .. Len(f) : g[j] = f[j]
    BY <1>1, <1>2, <1>3, <1>4, <1>7 DEF Starts
  <2>2. ASSUME NEW j \in 1 .. Len(q) PROVE u[j] = q[j]
    <3>1. j + 2 \in 1 .. Len(f) /\ j \in 1 .. Len(u)
      BY <1>1, <1>2, <1>3, <2>1
    <3> QED
      BY <1>3, <1>4, <2>1, <3>1
  <2> QED
    BY <1>3, <1>4, <2>1, <2>2 DEF Starts
<1> QED
  BY <1>p, <1>5, <1>6, <1>7, Zenon DEF InNs

LEMMA PrefixStarts ==
  ASSUME NEW p \in Str, NEW s \in Str
  PROVE  IsPrefix(p, s) <=> Starts(p, s)
<1>1. Len(p) \in Nat /\ Len(s) \in Nat
  BY StrFacts
<1>2. ASSUME NEW t \in Str, Len(p) <= Len(t), NEW h, h = SubSeq(t, 1, Len(p))
      PROVE  h \in Str /\ Len(h) = Len(p) /\ \A j \in 1 .. Len(p) : h[j] = t[j]
  BY <1>1, <1>2 DEF Str
<1>3. SUFFICES ASSUME Len(p) <= Len(s) PROVE IsPrefix(p, s) <=> Starts(p, s)
  BY <1>1 DEF IsPrefix, Starts
<1>4. PICK a, b : a = SubSeq(p, 1, Len(p)) /\ b = SubSeq(s, 1, Len(p))
  BY Zenon
<1>5. a \in Str /\ Len(a) = Len(p) /\ \A j \in 1 .. Len(p) : a[j] = p[j]
  <2>1. Len(p) <= Len(p)
    BY <1>1
  <2> QED
    BY <1>2, <1>4, <2>1, Zenon
<1>6. b \in Str /\ Len(b) = Len(p) /\ \A j \in 1 .. Len(p) : b[j] = s[j]
  BY <1>2, <1>3, <1>4
<1>7. a = b <=> \A j \in 1 .. Len(p) : s[j] = p[j]
  <2>1. ASSUME a = b, NEW j \in 1 .. Len(p) PROVE s[j] = p[j]
    BY <1>5, <1>6, <2>1
  <2>2. ASSUME \A j \in 1 .. Len(p) : s[j] = p[j] PROVE a = b
    BY <1>5, <1>6, <2>2, StrEqual
  <2> QED
    BY <2>1, <2>2
<1>8. IsPrefix(p, s) <=> a = b
  BY <1>3, <1>4, Zenon DEF IsPrefix
<1> QED
  BY <1>3, <1>7, <1>8 DEF Starts

\* Two lookups in a namespace are the ends of the dirents whose paths begin
\* with q there.
LEMMA NamespaceRange ==
  ASSUME arch \in Archives, NEW ns \in Nat, NEW q \in Str, NEW n \in Nat, NEW w \in Str,
         q # <<>> => n = ns /\ w = After(q),
         q = <<>> => n = ns + 1 /\ w = <<>>
  PROVE  findx(ns, q).index .. findx(n, w).index - 1 = PathsFrom(ns, q)
<1>1. PICK k : k = InNs(ns, q)
  OBVIOUS
<1>4. After(InNs(ns, q)) = InNs(n, w)
  BY SuccessorOfCons, Zenon DEF InNs
<1>5. <<ns>> \o q = k
  BY <1>1, Zenon DEF InNs
<1>6. findx(ns, q).index .. findx(n, w).index - 1 = KeysFrom(k)
  <2>1. findx(ns, q).index .. findx(n, w).index - 1 = KeysFrom(InNs(ns, q))
    BY <1>4, KeyRange
  <2> QED
    BY <1>1, <2>1, Zenon
<1>7. ASSUME NEW i \in 0 .. Count - 1
      PROVE  Starts(k, Key(i)) <=> Dirent(i).ns = ns /\ Starts(q, Dirent(i).url)
  <2>1. PICK m \in Nat, u \in Str : m = Dirent(i).ns /\ u = Dirent(i).url /\ Key(i) = <<m>> \o u
    BY KeyFacts
  <2>2. Starts(<<ns>> \o q, <<m>> \o u) <=> ns = m /\ Starts(q, u)
    BY StartsOfCons, Zenon
  <2> QED
    BY <1>5, <2>1, <2>2, Zenon
<1>8. KeysFrom(k) = PathsFrom(ns, q)
  BY <1>7, Zenon DEF KeysFrom, PathsFrom
<1> QED
  BY <1>6, <1>8, Zenon

\* findByPath looks up the two ends of the entries whose paths have the prefix.
LEMMA RangeExact ==
  ASSUME arch \in Archives, NEW p \in Str, \A i \in 1 .. Len(p) : p[i] < CharMax
  PROVE  RangeByPath(p).begin .. RangeByPath(p).end - 1 = {i \in UserEntries : HasPrefix(i, p)}
<1>1. CASE p = <<>> \/ p = <<Slash>>
  <2>1. \A i : HasPrefix(i, p)
    BY <1>1, Zenon DEF HasPrefix
  <2>2. RangeByPath(p) = EntryRange(StartUserEntry, EndUserEntry)
    BY <1>1, Zenon DEF RangeByPath
  <2>3. RangeByPath(p).begin = StartUserEntry /\ RangeByPath(p).end = EndUserEntry
    BY <2>2 DEF EntryRange
  <2> QED
    BY <2>1, <2>3, Zenon DEF UserEntries
<1>2. CASE ~ (p = <<>> \/ p = <<Slash>>) /\ arch.newScheme
  <2>1. PICK w : w = After(p)
    OBVIOUS
  <2>2. w \in Str /\ NsC \in Nat
    BY <1>2, <2>1, SuccessorFacts DEF NsC
  <2>3. findx(NsC, p).index .. findx(NsC, w).index - 1 = PathsFrom(NsC, p)
    BY <1>2, <2>1, <2>2, NamespaceRange, Zenon
  <2>4. RangeByPath(p) = EntryRange(findx(NsC, p).index, findx(NsC, w).index)
    <3>1. Len(p) \in 1 .. Len(p)
      BY <1>2 DEF Str
    <3>2. w = Successor(p)
      BY <1>2, <2>1, <3>1, NoWrap, Zenon
    <3> QED
      BY <1>2, <3>2, Zenon DEF RangeByPath
  <2>5. RangeByPath(p).begin = findx(NsC, p).index /\ RangeByPath(p).end = findx(NsC, w).index
    BY <2>4 DEF EntryRange
  <2>6. ASSUME NEW i \in 0 .. Count - 1 PROVE HasPrefix(i, p) <=> Starts(p, Dirent(i).url)
    <3>1. HasPrefix(i, p) <=> IsPrefix(p, getPath(i))
      BY <1>2, Zenon DEF HasPrefix
    <3>2. getPath(i) = Dirent(i).url
      BY <1>2, Zenon DEF getPath
    <3>3. Dirent(i).url \in Str
      BY KeyFacts, Zenon
    <3> QED
      BY <3>1, <3>2, <3>3, PrefixStarts, Zenon
  <2>7. UserEntries = {i \in 0 .. Count - 1 : Dirent(i).ns = NsC}
    BY <1>2, UserFacts, Zenon
  <2>8. PathsFrom(NsC, p) = {i \in UserEntries : HasPrefix(i, p)}
    BY <2>6, <2>7, Zenon DEF PathsFrom
  <2> QED
    BY <2>3, <2>5, <2>8, Zenon
<1>3. CASE ~ (p = <<>> \/ p = <<Slash>>) /\ ~ arch.newScheme /\ ~ Parses(p)
  <2>1. \A i : ~ HasPrefix(i, p)
    BY <1>3, Zenon DEF HasPrefix
  <2>2. RangeByPath(p) = EntryRange(0, 0)
    BY <1>3, Zenon DEF RangeByPath
  <2>3. RangeByPath(p).begin .. RangeByPath(p).end - 1 = {}
    BY <2>2 DEF EntryRange
  <2> QED
    BY <2>1, <2>3, Zenon
<1>4. CASE ~ (p = <<>> \/ p = <<Slash>>) /\ ~ arch.newScheme /\ Parses(p)
  <2>1. PICK ns, q : ns = LongNs(p) /\ q = ShortPath(p)
    BY Zenon
  <2>2. ns \in Nat /\ q \in Str
    BY <1>4, <2>1, ParsedFacts, Zenon
  <2>3. PICK n, w : /\ n = IF q = <<>> THEN ns + 1 ELSE ns
                    /\ w = IF q = <<>> THEN <<>> ELSE After(q)
    BY Zenon
  <2>4. n \in Nat /\ w \in Str
    BY <2>2, <2>3, SuccessorFacts
  <2>5. findx(ns, q).index .. findx(n, w).index - 1 = PathsFrom(ns, q)
    <3>1. q # <<>> => n = ns /\ w = After(q)
      BY <2>3, Zenon
    <3>2. q = <<>> => n = ns + 1 /\ w = <<>>
      BY <2>3, Zenon
    <3> QED
      BY <2>2, <2>4, <3>1, <3>2, NamespaceRange, Zenon
  <2>6. RangeByPath(p) = EntryRange(findx(ns, q).index, findx(n, w).index)
    <3>1. ns < CharMax /\ (q # <<>> => q[Len(q)] < CharMax)
      BY <1>4, <2>1, ParsedCharacters, Zenon
    <3>2. Incremented(ns) = ns + 1
      BY <2>2, <3>1 DEF Incremented, CharMax
    <3>3. q # <<>> => Successor(q) = After(q)
      BY <2>2, <3>1, NoWrap, Zenon
    <3>4. n = IF q = <<>> THEN Incremented(ns) ELSE ns
      BY <2>3, <3>2, Zenon
    <3>5. w = IF q = <<>> THEN <<>> ELSE Successor(q)
      BY <2>3, <3>3, Zenon
    <3> QED
      BY <1>4, <2>1, <3>4, <3>5, Zenon DEF RangeByPath
  <2>7. RangeByPath(p).begin = findx(ns, q).index /\ RangeByPath(p).end = findx(n, w).index
    BY <2>6 DEF EntryRange
  <2>8. ASSUME NEW i \in 0 .. Count - 1
        PROVE  HasPrefix(i, p) <=> Dirent(i).ns = ns /\ Starts(q, Dirent(i).url)
    <3>1. HasPrefix(i, p) <=> IsPrefix(<<ns, Slash>> \o q, getPath(i))
      BY <1>4, <2>1, Zenon DEF HasPrefix, LongPrefix
    <3>2. PICK m \in Nat, u \in Str : m = Dirent(i).ns /\ u = Dirent(i).url
      BY KeyFacts
    <3>3. getPath(i) = <<m, Slash>> \o u
      BY <1>4, <3>2, Zenon DEF getPath
    <3>4. <<ns, Slash>> \o q \in Str /\ <<m, Slash>> \o u \in Str
      BY <2>2, LongFacts, Zenon
    <3>5. Starts(<<ns, Slash>> \o q, <<m, Slash>> \o u) <=> ns = m /\ Starts(q, u)
      BY <2>2, StartsOfCons, Zenon
    <3>6. IsPrefix(<<ns, Slash>> \o q, <<m, Slash>> \o u) <=> Starts(<<ns, Slash>> \o q, <<m, Slash>> \o u)
      BY <3>4, PrefixStarts, Zenon
    <3> QED
      BY <3>1, <3>2, <3>3, <3>5, <3>6, Zenon
  <2>9. UserEntries = 0 .. Count - 1
    BY <1>4, Zenon DEF UserEntries, StartUserEntry, EndUserEntry
  <2>10. PathsFrom(ns, q) = {i \in UserEntries : HasPrefix(i, p)}
    BY <2>8, <2>9, Zenon DEF PathsFrom
  <2> QED
    BY <2>5, <2>7, <2>10, Zenon
<1> QED
  BY <1>1, <1>2, <1>3, <1>4

-----------------------------------------------------------------------------
(* Titles *)

LEMMA NotLessTransitive ==
  ASSUME NEW a \in Str, NEW b \in Str, NEW c \in Str, ~ StringLess(b, a), ~ StringLess(c, b)
  PROVE  ~ StringLess(c, a)
BY LessTotal, LessTransitive

LEMMA LessNotLess ==
  ASSUME NEW a \in Str, NEW b \in Str, NEW c \in Str, StringLess(a, b), ~ StringLess(c, b)
  PROVE  StringLess(a, c)
BY LessTotal, LessTransitive

\* Where each is not smaller than the one before it, none is smaller than an
\* earlier one.
LEMMA AdjacentSorted ==
  ASSUME NEW n \in Nat, NEW f, \A i \in 0 .. n - 1 : f[i] \in Str,
         \A i \in 1 .. n - 1 : ~ StringLess(f[i], f[i - 1])
  PROVE  \A i, j \in 0 .. n - 1 : i <= j => ~ StringLess(f[j], f[i])
<1> SUFFICES ASSUME NEW i \in 0 .. n - 1 PROVE \A j \in 0 .. n - 1 : i <= j => ~ StringLess(f[j], f[i])
  OBVIOUS
<1> DEFINE T == {j \in Nat : j <= n - 1 /\ i <= j /\ StringLess(f[j], f[i])}
<1> SUFFICES ASSUME T # {} PROVE FALSE
  OBVIOUS
<1>1. T \subseteq Nat
  OBVIOUS
<1>2. PICK m \in T : \A y \in T : m <= y
  BY <1>1, LeastOf
<1> HIDE DEF T
<1>3. m \in Nat /\ m <= n - 1 /\ i <= m /\ StringLess(f[m], f[i])
  BY <1>2 DEF T
<1>4. m # i
  BY <1>3, LessIrreflexive
<1>5. m - 1 \in 0 .. n - 1 /\ i <= m - 1 /\ m \in 1 .. n - 1 /\ m \in 0 .. n - 1
  BY <1>3, <1>4
<1>6. m - 1 \notin T
  BY <1>2, <1>3, <1>5
<1>7. ~ StringLess(f[m - 1], f[i])
  BY <1>5, <1>6 DEF T
<1>8. ~ StringLess(f[m], f[m - 1])
  BY <1>5
<1>9. f[m] \in Str /\ f[m - 1] \in Str /\ f[i] \in Str
  BY <1>5
<1> QED
  BY <1>3, <1>7, <1>8, <1>9, NotLessTransitive

LEMMA ListingFacts ==
  ASSUME arch \in Archives
  PROVE  /\ TitleListing \in Seq(Nat) /\ TitleCount \in Nat
         /\ \A j \in 0 .. TitleCount - 1 : getDirectIndex(j) \in Nat
<1>1. arch.v0 \in Seq(Nat) /\ arch.v1 \in Seq(Nat)
  BY ArchFacts DEF ArchiveSet
<1>2. TitleListing \in Seq(Nat)
  BY <1>1 DEF TitleListing
<1> QED
  BY <1>2 DEF TitleCount, getDirectIndex

\* In an archive that passes checkTitleIndex the listing leads to dirents, in
\* the order of their titles.
LEMMA TitlesSorted ==
  ASSUME arch \in Archives, CheckTitleIndex
  PROVE  /\ \A j \in 0 .. TitleCount - 1 : getDirectIndex(j) \in 0 .. Count - 1
         /\ \A j \in 0 .. TitleCount - 1 : TitleKey(j) \in Str
         /\ \A i, j \in 0 .. TitleCount - 1 : i <= j => ~ StringLess(TitleKey(j), TitleKey(i))
<1>1. CheckTitleListing(TitleListing)
  BY DEF CheckTitleIndex, TitleListing
<1>2. TitleListing \in Seq(Nat) /\ TitleCount \in Nat /\ \A j \in 0 .. TitleCount - 1 : getDirectIndex(j) \in Nat
  BY ListingFacts
<1>3. Count \in Nat /\ \A i \in 0 .. Count - 1 : Dirent(i) \in DirentSet
  BY ArchFacts
<1>4. ASSUME NEW j \in 0 .. TitleCount - 1 PROVE getDirectIndex(j) \in 0 .. Count - 1
  <2>1. j + 1 \in 1 .. Len(TitleListing)
    BY <1>2 DEF TitleCount
  <2>2. TitleListing[j + 1] < Count
    BY <1>1, <2>1 DEF CheckTitleListing
  <2> QED
    BY <1>2, <1>3, <2>2 DEF getDirectIndex
<1>5. ASSUME NEW j \in 0 .. TitleCount - 1 PROVE TitleKey(j) \in Str
  <2>1. Dirent(getDirectIndex(j)) \in DirentSet
    BY <1>3, <1>4
  <2>2. Dirent(getDirectIndex(j)).ns \in Nat /\ Dirent(getDirectIndex(j)).title \in Str
    BY <2>1 DEF DirentSet, Str
  <2> QED
    BY <2>2 DEF TitleKey, Str
<1>6. ASSUME NEW j \in 1 .. TitleCount - 1 PROVE ~ StringLess(TitleKey(j), TitleKey(j - 1))
  <2>1. PICK h : h = j + 1
    OBVIOUS
  <2>2. h \in 1 .. Len(TitleListing) /\ h > 1 /\ h - 1 = (j - 1) + 1
    BY <1>2, <2>1 DEF TitleCount
  <2>3. ~ StringLess(<<Dirent(TitleListing[h]).ns>> \o Dirent(TitleListing[h]).title,
                     <<Dirent(TitleListing[h - 1]).ns>> \o Dirent(TitleListing[h - 1]).title)
    BY <1>1, <2>2, Zenon DEF CheckTitleListing
  <2>4. TitleKey(j) = <<Dirent(TitleListing[h]).ns>> \o Dirent(TitleListing[h]).title
    BY <2>1, Zenon DEF TitleKey, getDirectIndex
  <2>5. TitleKey(j - 1) = <<Dirent(TitleListing[h - 1]).ns>> \o Dirent(TitleListing[h - 1]).title
    BY <2>2, Zenon DEF TitleKey, getDirectIndex
  <2> QED
    BY <2>3, <2>4, <2>5, Zenon
<1>7. PICK f : f = [j \in 0 .. TitleCount - 1 |-> TitleKey(j)]
  OBVIOUS
<1>8. \A j \in 0 .. TitleCount - 1 : f[j] = TitleKey(j)
  BY <1>7
<1>9. \A j \in 0 .. TitleCount - 1 : f[j] \in Str
  BY <1>5, <1>8
<1>10. \A j \in 1 .. TitleCount - 1 : ~ StringLess(f[j], f[j - 1])
  <2> SUFFICES ASSUME NEW j \in 1 .. TitleCount - 1 PROVE ~ StringLess(f[j], f[j - 1])
    OBVIOUS
  <2>1. j \in 0 .. TitleCount - 1 /\ j - 1 \in 0 .. TitleCount - 1
    BY <1>2
  <2> QED
    BY <1>6, <1>8, <2>1
<1>11. \A i, j \in 0 .. TitleCount - 1 : i <= j => ~ StringLess(f[j], f[i])
  BY <1>2, <1>9, <1>10, AdjacentSorted, Zenon
<1>12. \A i, j \in 0 .. TitleCount - 1 : i <= j => ~ StringLess(TitleKey(j), TitleKey(i))
  BY <1>8, <1>11, Zenon
<1> QED
  BY <1>4, <1>5, <1>12, Zenon

\* The ranges that the bisection may look at, and one turn of it with what the
\* later turns return
TitleRanges == (0 .. TitleCount) \X (0 .. TitleCount)
Middle(r) == r[1] + (r[2] - r[1]) \div 2
Wide(r) == r[2] - r[1] > 1
BisectStep(k, f, r) ==
  CASE Wide(r) /\ StringLess(k, TitleKey(Middle(r))) -> f[<<r[1], Middle(r)>>]
    [] Wide(r) /\ StringLess(TitleKey(Middle(r)), k) -> f[<<Middle(r), r[2]>>]
    [] OTHER -> [found |-> k = TitleKey(Middle(r)),
                 index |-> IF StringLess(TitleKey(Middle(r)), k) THEN r[2] ELSE Middle(r)]
Bisects(k, f) == f = [r \in TitleRanges |-> BisectStep(k, f, r)]

LEMMA BisectDef == ASSUME NEW k PROVE BisectTitle(k) = (CHOOSE f : Bisects(k, f))[<<0, TitleCount>>]
BY Zenon DEF BisectTitle, Bisects, BisectStep, TitleRanges, Middle, Wide

\* The two halves are ranges, and smaller.
LEMMA Halves ==
  ASSUME TitleCount \in Nat, NEW r \in TitleRanges, Wide(r)
  PROVE  /\ <<r[1], Middle(r)>> \in TitleRanges /\ <<Middle(r), r[2]>> \in TitleRanges
         /\ r[1] < Middle(r) /\ Middle(r) < r[2]
         /\ r[1] \in Nat /\ r[2] \in Nat /\ Middle(r) \in Nat
<1>1. r[1] \in 0 .. TitleCount /\ r[2] \in 0 .. TitleCount
  BY DEF TitleRanges
<1>2. r[1] < Middle(r) /\ Middle(r) < r[2] /\ Middle(r) \in Int
  BY <1>1 DEF Wide, Middle
<1> QED
  BY <1>1, <1>2 DEF TitleRanges

\* A turn depends on the later ones only where the range is halved.
LEMMA StepDepends ==
  ASSUME NEW k, NEW f, NEW g, NEW r,
         Wide(r) => f[<<r[1], Middle(r)>>] = g[<<r[1], Middle(r)>>],
         Wide(r) => f[<<Middle(r), r[2]>>] = g[<<Middle(r), r[2]>>]
  PROVE  BisectStep(k, f, r) = BisectStep(k, g, r)
<1>1. CASE Wide(r)
  <2>1. f[<<r[1], Middle(r)>>] = g[<<r[1], Middle(r)>>] /\ f[<<Middle(r), r[2]>>] = g[<<Middle(r), r[2]>>]
    BY <1>1
  <2> QED
    BY <2>1, Zenon DEF BisectStep
<1>2. CASE ~ Wide(r)
  BY <1>2, Zenon DEF BisectStep
<1> QED
  BY <1>1, <1>2

\* The ranges of at most n titles, and a table of what the bisection returns for them
Narrow(n) == {r \in TitleRanges : r[2] - r[1] <= n}
Table(k, g, n) == \A r \in Narrow(n) : g[r] = BisectStep(k, g, r)

LEMMA TableGrows ==
  ASSUME TitleCount \in Nat, NEW k, NEW n \in Nat, NEW g, Table(k, g, n)
  PROVE  \E h : Table(k, h, n + 1)
<1> DEFINE h == [r \in TitleRanges |-> IF r \in Narrow(n) THEN g[r] ELSE BisectStep(k, g, r)]
<1>1. ASSUME NEW r \in Narrow(n) PROVE h[r] = g[r]
  BY DEF Narrow
<1>2. ASSUME NEW r \in Narrow(n + 1) PROVE h[r] = BisectStep(k, g, r)
  <2>1. CASE r \in Narrow(n)
    BY <2>1, <1>1 DEF Table
  <2>2. CASE r \notin Narrow(n)
    BY <2>2 DEF Narrow
  <2> QED
    BY <2>1, <2>2
<1>3. ASSUME NEW r \in Narrow(n + 1) PROVE BisectStep(k, g, r) = BisectStep(k, h, r)
  <2>1. r \in TitleRanges /\ r[2] - r[1] <= n + 1
    BY DEF Narrow
  <2>2. ASSUME Wide(r) PROVE <<r[1], Middle(r)>> \in Narrow(n) /\ <<Middle(r), r[2]>> \in Narrow(n)
    <3>1. /\ <<r[1], Middle(r)>> \in TitleRanges /\ <<Middle(r), r[2]>> \in TitleRanges
          /\ r[1] < Middle(r) /\ Middle(r) < r[2]
          /\ r[1] \in Nat /\ r[2] \in Nat /\ Middle(r) \in Nat
      BY <2>1, <2>2, Halves
    <3>2. Middle(r) - r[1] <= n /\ r[2] - Middle(r) <= n
      BY <2>1, <3>1
    <3> QED
      BY <3>1, <3>2 DEF Narrow
  <2>3. Wide(r) => h[<<r[1], Middle(r)>>] = g[<<r[1], Middle(r)>>]
    BY <1>1, <2>2
  <2>4. Wide(r) => h[<<Middle(r), r[2]>>] = g[<<Middle(r), r[2]>>]
    BY <1>1, <2>2
  <2> HIDE DEF h
  <2> QED
    BY <2>3, <2>4, StepDepends
<1>4. PICK x : x = h
  OBVIOUS
<1>5. Table(k, x, n + 1)
  BY <1>2, <1>3, <1>4, Zenon DEF Table
<1> QED
  BY <1>5, Zenon

LEMMA Tables ==
  ASSUME TitleCount \in Nat, NEW k
  PROVE  \A n \in Nat : \E g : Table(k, g, n)
<1> DEFINE T == {n \in Nat : ~ \E g : Table(k, g, n)}
<1> SUFFICES ASSUME T # {} PROVE FALSE
  BY Zenon
<1>1. T \subseteq Nat
  OBVIOUS
<1>2. PICK m \in T : \A y \in T : m <= y
  BY <1>1, LeastOf
<1>3. m \in Nat /\ ~ \E g : Table(k, g, m)
  BY <1>2
<1>4. CASE m = 0
  <2> DEFINE h == [r \in TitleRanges |-> BisectStep(k, <<>>, r)]
  <2>1. ASSUME NEW r \in Narrow(0) PROVE h[r] = BisectStep(k, h, r)
    <3>1. r \in TitleRanges /\ ~ Wide(r)
      <4>1. r \in TitleRanges /\ r[2] - r[1] <= 0
        BY DEF Narrow
      <4>2. r[1] \in 0 .. TitleCount /\ r[2] \in 0 .. TitleCount
        BY <4>1 DEF TitleRanges
      <4> QED
        BY <4>1, <4>2 DEF Wide
    <3>2. h[r] = BisectStep(k, <<>>, r)
      BY <3>1
    <3> HIDE DEF h
    <3>3. BisectStep(k, <<>>, r) = BisectStep(k, h, r)
      BY <3>1, StepDepends
    <3> QED
      BY <3>2, <3>3, Zenon
  <2>2. PICK x : x = h
    OBVIOUS
  <2>3. Table(k, x, 0)
    BY <2>1, <2>2, Zenon DEF Table
  <2> QED
    BY <1>3, <1>4, <2>3, Zenon
<1>5. CASE m # 0
  <2>1. m - 1 \in Nat /\ m - 1 \notin T /\ (m - 1) + 1 = m
    BY <1>2, <1>3, <1>5
  <2>2. PICK g : Table(k, g, m - 1)
    BY <2>1
  <2>3. \E h : Table(k, h, (m - 1) + 1)
    BY <2>1, <2>2, TableGrows, Zenon
  <2> QED
    BY <1>3, <2>1, <2>3, Zenon
<1> QED
  BY <1>4, <1>5

\* The recursion of the bisection is well-founded: there is such a function.
LEMMA BisectExists ==
  ASSUME TitleCount \in Nat, NEW k
  PROVE  \E f : Bisects(k, f)
<1>1. PICK g : Table(k, g, TitleCount)
  BY Tables, Zenon
<1>2. ASSUME NEW r \in TitleRanges PROVE r \in Narrow(TitleCount)
  <2>1. r[1] \in 0 .. TitleCount /\ r[2] \in 0 .. TitleCount
    BY DEF TitleRanges
  <2> QED
    BY <2>1 DEF Narrow
<1>3. PICK f : f = [r \in TitleRanges |-> g[r]]
  OBVIOUS
<1>4. ASSUME NEW r \in TitleRanges PROVE g[r] = BisectStep(k, f, r)
  <2>1. g[r] = BisectStep(k, g, r)
    BY <1>1, <1>2, Zenon DEF Table
  <2>2. Wide(r) => f[<<r[1], Middle(r)>>] = g[<<r[1], Middle(r)>>]
    BY <1>3, Halves
  <2>3. Wide(r) => f[<<Middle(r), r[2]>>] = g[<<Middle(r), r[2]>>]
    BY <1>3, Halves
  <2> QED
    BY <2>1, <2>2, <2>3, StepDepends
<1>5. f = [r \in TitleRanges |-> BisectStep(k, f, r)]
  BY <1>3, <1>4, Zenon
<1> QED
  BY <1>5, Zenon DEF Bisects

\* What lies outside the range is on its side of k.
Sides(k, r) ==
  /\ r[1] < r[2]
  /\ r[1] = 0 \/ StringLess(TitleKey(r[1]), k)
  /\ r[2] = TitleCount \/ StringLess(k, TitleKey(r[2]))

\* What a lookup by title must return
Answers(k, x) ==
  /\ x \in [found : BOOLEAN, index : Nat]
  /\ x.found <=> \E j \in 0 .. TitleCount - 1 : TitleKey(j) = k
  /\ x.found => x.index \in 0 .. TitleCount - 1 /\ TitleKey(x.index) = k
  /\ ~ x.found => /\ x.index \in 0 .. TitleCount
                  /\ \A j \in 0 .. TitleCount - 1 : j < x.index <=> StringLess(TitleKey(j), k)

\* The turn that does not halve the range answers.
LEMMA LastTurn ==
  ASSUME arch \in Archives, CheckTitleIndex, NEW k \in Str, NEW r \in TitleRanges, Sides(k, r),
         NEW x, x = [found |-> k = TitleKey(Middle(r)),
                     index |-> IF StringLess(TitleKey(Middle(r)), k) THEN r[2] ELSE Middle(r)],
         Wide(r) => ~ StringLess(k, TitleKey(Middle(r))) /\ ~ StringLess(TitleKey(Middle(r)), k)
  PROVE  Answers(k, x)
<1>1. TitleCount \in Nat /\ \A j \in 0 .. TitleCount - 1 : TitleKey(j) \in Str
  BY TitlesSorted, ListingFacts
<1>2. r[1] \in 0 .. TitleCount /\ r[2] \in 0 .. TitleCount /\ r[1] < r[2]
  BY DEF TitleRanges, Sides
<1>3. PICK p : p = Middle(r)
  OBVIOUS
<1>4. p \in 0 .. TitleCount - 1 /\ p < r[2] /\ (~ Wide(r) => p = r[1] /\ r[2] = p + 1)
  BY <1>1, <1>2, <1>3 DEF Middle, Wide
<1>5. PICK b \in BOOLEAN : b = (k = TitleKey(p))
  BY Zenon
<1>n. PICK n : n = IF StringLess(TitleKey(p), k) THEN r[2] ELSE p
  BY Zenon
<1>6. x = [found |-> b, index |-> n]
  BY <1>3, <1>5, <1>n, Zenon
<1>7. x.found = b /\ x.index = n
  BY <1>6
<1>t. x \in [found : BOOLEAN, index : Nat]
  <2>1. n \in Nat
    BY <1>1, <1>2, <1>4, <1>n
  <2> QED
    BY <1>5, <1>6, <2>1
<1>8. CASE k = TitleKey(p)
  <2>1. ~ StringLess(TitleKey(p), k)
    BY <1>8, LessIrreflexive
  <2>2. b /\ n = p
    BY <1>5, <1>n, <1>8, <2>1, Zenon
  <2> QED
    BY <1>4, <1>7, <1>t, <1>8, <2>2, Zenon DEF Answers
<1>9. CASE k # TitleKey(p)
  <2>1. ~ b
    BY <1>5, <1>9, Zenon
  <2>2. StringLess(k, TitleKey(p)) \/ StringLess(TitleKey(p), k)
    BY <1>1, <1>4, <1>9, LessTotal
  <2>3. ~ Wide(r) /\ p = r[1] /\ r[2] = p + 1
    BY <1>3, <1>4, <2>2
  <2>4. \A i, j \in 0 .. TitleCount - 1 : i <= j => ~ StringLess(TitleKey(j), TitleKey(i))
    BY TitlesSorted
  <2>5. CASE StringLess(TitleKey(p), k)
    <3>1. n = p + 1
      BY <1>n, <2>3, <2>5
    <3>2. ASSUME NEW j \in 0 .. TitleCount - 1, j <= p PROVE StringLess(TitleKey(j), k) /\ TitleKey(j) # k
      <4>1. ~ StringLess(TitleKey(p), TitleKey(j))
        BY <1>4, <2>4, <3>2
      <4>2. StringLess(TitleKey(j), k)
        BY <1>1, <1>4, <2>5, <4>1, LessTotal, LessTransitive
      <4> QED
        BY <4>2, LessIrreflexive
    <3>3. ASSUME NEW j \in 0 .. TitleCount - 1, ~ (j <= p) PROVE ~ StringLess(TitleKey(j), k) /\ TitleKey(j) # k
      <4>1. r[2] \in 0 .. TitleCount - 1 /\ r[2] <= j
        BY <1>1, <1>4, <2>3, <3>3
      <4>2. StringLess(k, TitleKey(r[2]))
        BY <1>1, <4>1 DEF Sides
      <4>3. ~ StringLess(TitleKey(j), TitleKey(r[2]))
        BY <2>4, <4>1
      <4>4. StringLess(k, TitleKey(j))
        BY <1>1, <4>1, <4>2, <4>3, LessNotLess
      <4> QED
        BY <1>1, <4>4, LessIrreflexive, LessTransitive
    <3>4. \A j \in 0 .. TitleCount - 1 : j < n <=> j <= p
      BY <1>1, <1>4, <3>1
    <3>5. \A j \in 0 .. TitleCount - 1 : j < n <=> StringLess(TitleKey(j), k)
      BY <3>2, <3>3, <3>4, Zenon
    <3>6. ~ \E j \in 0 .. TitleCount - 1 : TitleKey(j) = k
      BY <3>2, <3>3, Zenon
    <3>7. n \in 0 .. TitleCount
      BY <1>1, <1>4, <3>1
    <3> QED
      BY <1>7, <1>t, <2>1, <3>5, <3>6, <3>7, Zenon DEF Answers
  <2>6. CASE StringLess(k, TitleKey(p))
    <3>1. ~ StringLess(TitleKey(p), k)
      BY <1>1, <1>4, <2>6, LessIrreflexive, LessTransitive
    <3>2. n = p
      BY <1>n, <3>1, Zenon
    <3>3. p = 0
      BY <2>3, <3>1 DEF Sides
    <3>4. ASSUME NEW j \in 0 .. TitleCount - 1 PROVE ~ StringLess(TitleKey(j), k) /\ TitleKey(j) # k
      <4>1. ~ StringLess(TitleKey(j), TitleKey(p))
        BY <1>1, <1>4, <2>4, <3>3
      <4>2. StringLess(k, TitleKey(j))
        BY <1>1, <1>4, <2>6, <4>1, LessNotLess
      <4> QED
        BY <1>1, <4>2, LessIrreflexive, LessTransitive
    <3>5. \A j \in 0 .. TitleCount - 1 : ~ (j < n)
      BY <1>1, <3>2, <3>3
    <3>6. \A j \in 0 .. TitleCount - 1 : j < n <=> StringLess(TitleKey(j), k)
      BY <3>4, <3>5, Zenon
    <3>7. ~ \E j \in 0 .. TitleCount - 1 : TitleKey(j) = k
      BY <3>4, Zenon
    <3>8. n \in 0 .. TitleCount
      BY <1>1, <1>4, <3>2
    <3> QED
      BY <1>7, <1>t, <2>1, <3>6, <3>7, <3>8, Zenon DEF Answers
  <2> QED
    BY <2>2, <2>5, <2>6
<1> QED
  BY <1>8, <1>9

\* The bisection answers, whatever range with the right sides it starts from.
LEMMA BisectAnswers ==
  ASSUME arch \in Archives, CheckTitleIndex, NEW k \in Str, NEW f, Bisects(k, f),
         NEW r \in TitleRanges, Sides(k, r)
  PROVE  Answers(k, f[r])
<1>1. TitleCount \in Nat /\ \A j \in 0 .. TitleCount - 1 : TitleKey(j) \in Str
  BY TitlesSorted, ListingFacts
<1> DEFINE Bad(s) == s \in TitleRanges /\ Sides(k, s) /\ ~ Answers(k, f[s])
           T == {n \in Nat : \E s : Bad(s) /\ n = s[2] - s[1]}
<1> SUFFICES ASSUME Bad(r) PROVE FALSE
  BY Zenon
<1>2. ASSUME NEW s, Bad(s) PROVE s[2] - s[1] \in T
  <2>1. s[1] \in 0 .. TitleCount /\ s[2] \in 0 .. TitleCount /\ s[1] < s[2]
    BY <1>2 DEF TitleRanges, Sides
  <2>2. s[2] - s[1] \in Nat
    BY <1>1, <2>1
  <2> QED
    BY <1>2, <2>2, Zenon
<1>3. T \subseteq Nat /\ T # {}
  BY <1>2
<1>4. PICK m \in T : \A y \in T : m <= y
  BY <1>3, LeastOf
<1>5. PICK s : Bad(s) /\ m = s[2] - s[1]
  BY <1>4
<1> HIDE DEF T
<1>6. s[1] \in 0 .. TitleCount /\ s[2] \in 0 .. TitleCount /\ s[1] < s[2]
  BY <1>5 DEF TitleRanges, Sides
<1>7. f[s] = BisectStep(k, f, s)
  <2>1. f = [q \in TitleRanges |-> BisectStep(k, f, q)]
    BY Zenon DEF Bisects
  <2>2. s \in TitleRanges
    BY <1>5
  <2> QED
    BY <2>1, <2>2, Zenon
<1>8. ASSUME Wide(s), NEW t, Bad(t), t[2] - t[1] < s[2] - s[1] PROVE FALSE
  <2>1. t[1] \in 0 .. TitleCount /\ t[2] \in 0 .. TitleCount
    BY <1>8 DEF TitleRanges
  <2>2. t[2] - t[1] \in T
    BY <1>2, <1>8
  <2>3. m <= t[2] - t[1]
    BY <1>4, <2>2
  <2> QED
    BY <1>1, <1>5, <1>6, <1>8, <2>1, <2>3
<1>9. PICK p : p = Middle(s)
  OBVIOUS
<1>10. CASE Wide(s) /\ StringLess(k, TitleKey(p))
  <2>1. <<s[1], p>> \in TitleRanges /\ s[1] < p /\ p < s[2] /\ p \in Nat
    BY <1>1, <1>5, <1>9, <1>10, Halves
  <2>2. PICK t : t = <<s[1], p>>
    OBVIOUS
  <2>3. t[1] = s[1] /\ t[2] = p /\ t \in TitleRanges
    BY <2>1, <2>2
  <2>4. Sides(k, t)
    BY <1>5, <1>10, <2>1, <2>3 DEF Sides
  <2>5. ~ StringLess(TitleKey(p), k)
    BY <1>1, <1>6, <1>10, <2>1, LessIrreflexive, LessTransitive
  <2>6. f[s] = f[t]
    BY <1>7, <1>9, <1>10, <2>2, <2>5, Zenon DEF BisectStep
  <2>7. Bad(t)
    BY <1>5, <2>3, <2>4, <2>6, Zenon
  <2>8. t[2] - t[1] < s[2] - s[1]
    BY <1>1, <1>6, <2>1, <2>3
  <2> QED
    BY <1>8, <1>10, <2>7, <2>8
<1>11. CASE Wide(s) /\ StringLess(TitleKey(p), k)
  <2>1. <<p, s[2]>> \in TitleRanges /\ s[1] < p /\ p < s[2] /\ p \in Nat
    BY <1>1, <1>5, <1>9, <1>11, Halves
  <2>2. PICK t : t = <<p, s[2]>>
    OBVIOUS
  <2>3. t[1] = p /\ t[2] = s[2] /\ t \in TitleRanges
    BY <2>1, <2>2
  <2>4. Sides(k, t)
    BY <1>5, <1>11, <2>1, <2>3 DEF Sides
  <2>5. ~ StringLess(k, TitleKey(p))
    BY <1>1, <1>6, <1>11, <2>1, LessIrreflexive, LessTransitive
  <2>6. f[s] = f[t]
    BY <1>7, <1>9, <1>11, <2>2, <2>5, Zenon DEF BisectStep
  <2>7. Bad(t)
    BY <1>5, <2>3, <2>4, <2>6, Zenon
  <2>8. t[2] - t[1] < s[2] - s[1]
    BY <1>1, <1>6, <2>1, <2>3
  <2> QED
    BY <1>8, <1>11, <2>7, <2>8
<1>12. CASE Wide(s) => ~ StringLess(k, TitleKey(p)) /\ ~ StringLess(TitleKey(p), k)
  <2>1. f[s] = [found |-> k = TitleKey(Middle(s)),
                index |-> IF StringLess(TitleKey(Middle(s)), k) THEN s[2] ELSE Middle(s)]
    BY <1>7, <1>9, <1>12, Zenon DEF BisectStep
  <2>2. Answers(k, f[s])
    BY <1>5, <1>9, <1>12, <2>1, LastTurn, Zenon
  <2> QED
    BY <1>5, <2>2
<1> QED
  BY <1>10, <1>11, <1>12

LEMMA TitleFound ==
  ASSUME arch \in Archives, CheckTitleIndex, NEW ns \in Nat, NEW title \in Str
  PROVE  Answers(<<ns>> \o title, findxByTitle(ns, title))
<1>1. PICK k : k = InNs(ns, title)
  OBVIOUS
<1>2. k \in Str
  BY <1>1, ConsFacts, Zenon
<1>3. TitleCount \in Nat
  BY ListingFacts
<1>4. CASE TitleCount = 0
  <2>1. PICK x : x = findxByTitle(ns, title)
    OBVIOUS
  <2>2. x = [found |-> FALSE, index |-> 0]
    BY <1>4, <2>1, Zenon DEF findxByTitle
  <2>3. x.found = FALSE /\ x.index = 0
    BY <2>2
  <2>4. 0 .. TitleCount - 1 = {} /\ 0 \in 0 .. TitleCount
    BY <1>4
  <2>5. x \in [found : BOOLEAN, index : Nat]
    BY <2>2
  <2> QED
    BY <2>1, <2>3, <2>4, <2>5, Zenon DEF Answers
<1>5. CASE TitleCount # 0
  <2>1. PICK f : Bisects(k, f) /\ f = CHOOSE g : Bisects(k, g)
    BY <1>3, BisectExists, Zenon
  <2>2. findxByTitle(ns, title) = f[<<0, TitleCount>>]
    BY <1>1, <1>5, <2>1, BisectDef, Zenon DEF findxByTitle, InNs
  <2>3. PICK r : r = <<0, TitleCount>>
    OBVIOUS
  <2>4. r \in TitleRanges /\ r[1] = 0 /\ r[2] = TitleCount
    BY <1>3, <2>3 DEF TitleRanges
  <2>5. Sides(k, r)
    BY <1>3, <1>5, <2>4 DEF Sides
  <2>6. Answers(k, f[r])
    BY <1>2, <2>1, <2>4, <2>5, BisectAnswers, Zenon
  <2> QED
    BY <1>1, <2>2, <2>3, <2>6, Zenon DEF InNs
<1> QED
  BY <1>4, <1>5

\* The first lookup that finds something is taken, if there is one.
LEMMA FirstOfFound ==
  ASSUME NEW rs, Len(rs) \in Nat, NEW j \in 1 .. Len(rs), rs[j].found
  PROVE  \E h \in 1 .. Len(rs) : rs[h].found /\ FirstFound(rs) = rs[h]
<1> DEFINE T == {h \in Nat : h \in 1 .. Len(rs) /\ rs[h].found}
<1>1. T \subseteq Nat /\ T # {}
  OBVIOUS
<1>2. PICK m \in T : \A y \in T : m <= y
  BY <1>1, LeastOf
<1>3. m \in 1 .. Len(rs) /\ rs[m].found
  BY <1>2
<1>4. \A h \in 1 .. m - 1 : ~ rs[h].found
  <2> SUFFICES ASSUME NEW h \in 1 .. m - 1, rs[h].found PROVE FALSE
    OBVIOUS
  <2>1. h \in T /\ h < m
    BY <1>3
  <2> QED
    BY <1>2, <2>1
<1>5. PICK x : x = CHOOSE y \in 1 .. Len(rs) : rs[y].found /\ \A h \in 1 .. y - 1 : ~ rs[h].found
  OBVIOUS
<1>6. x \in 1 .. Len(rs) /\ rs[x].found
  BY <1>3, <1>4, <1>5, Zenon
<1>7. FirstFound(rs) = rs[x]
  BY <1>5, Zenon DEF FirstFound
<1> QED
  BY <1>6, <1>7, Zenon

LEMMA NoneFound ==
  ASSUME NEW rs, ~ \E j \in 1 .. Len(rs) : rs[j].found
  PROVE  FirstFound(rs) = NotFound
BY Zenon DEF FirstFound

\* Keys are equal when their parts are.
LEMMA ConsEqual ==
  ASSUME NEW ns \in Nat, NEW q \in Str, NEW n \in Nat, NEW u \in Str
  PROVE  InNs(ns, q) = InNs(n, u) <=> ns = n /\ q = u
<1>1. PICK k, l : k = InNs(ns, q) /\ l = InNs(n, u)
  BY Zenon
<1>2. Len(k) = Len(q) + 1 /\ Len(q) \in Nat /\ k[1] = ns
  BY <1>1, ConsFacts, Zenon
<1>3. Len(l) = Len(u) + 1 /\ Len(u) \in Nat /\ l[1] = n
  BY <1>1, ConsFacts, Zenon
<1>4. \A j \in 1 .. Len(q) : k[j + 1] = q[j]
  BY <1>1, ConsRest, Zenon
<1>5. \A j \in 1 .. Len(u) : l[j + 1] = u[j]
  BY <1>1, ConsRest, Zenon
<1>6. ASSUME k = l PROVE ns = n /\ q = u
  <2>1. ns = n /\ Len(q) = Len(u)
    BY <1>2, <1>3, <1>6
  <2>2. \A j \in 1 .. Len(q) : q[j] = u[j]
    BY <1>4, <1>5, <1>6, <2>1, Zenon
  <2> QED
    BY <2>1, <2>2, StrEqual
<1> QED
  BY <1>1, <1>6, Zenon

TitleSpaces == <<NsC, NsA, NsI, NsJ, Dash>>

LEMMA TitleSpaceFacts ==
  /\ \A j \in 1 .. 5 : TitleSpaces[j] \in Nat /\ TitleSpaces[j] \in {NsC, NsA, NsI, NsJ, Dash}
  /\ \A ns \in {NsC, NsA, NsI, NsJ, Dash} : \E j \in 1 .. 5 : ns = TitleSpaces[j]
<1>1. NsC \in Nat /\ NsA \in Nat /\ NsI \in Nat /\ NsJ \in Nat /\ Dash \in Nat
  BY DEF NsC, NsA, NsI, NsJ, Dash
<1>2. /\ TitleSpaces[1] = NsC /\ TitleSpaces[2] = NsA /\ TitleSpaces[3] = NsI
      /\ TitleSpaces[4] = NsJ /\ TitleSpaces[5] = Dash
  BY DEF TitleSpaces
<1>3. \A j \in 1 .. 5 : j = 1 \/ j = 2 \/ j = 3 \/ j = 4 \/ j = 5
  OBVIOUS
<1>4. 1 \in 1 .. 5 /\ 2 \in 1 .. 5 /\ 3 \in 1 .. 5 /\ 4 \in 1 .. 5 /\ 5 \in 1 .. 5
  OBVIOUS
<1>5. \A j \in 1 .. 5 : TitleSpaces[j] \in Nat /\ TitleSpaces[j] \in {NsC, NsA, NsI, NsJ, Dash}
  BY <1>1, <1>2, <1>3, Zenon
<1>6. \A ns \in {NsC, NsA, NsI, NsJ, Dash} : \E j \in 1 .. 5 : ns = TitleSpaces[j]
  BY <1>2, <1>4, Zenon
<1> QED
  BY <1>5, <1>6

\* The parts of the key of a listed title
LEMMA TitleKeyFacts ==
  ASSUME arch \in Archives, CheckTitleIndex, NEW j \in 0 .. TitleCount - 1
  PROVE  /\ Dirent(getDirectIndex(j)).ns \in Nat /\ Dirent(getDirectIndex(j)).title \in Str
         /\ TitleKey(j) = InNs(Dirent(getDirectIndex(j)).ns, Dirent(getDirectIndex(j)).title)
<1>1. getDirectIndex(j) \in 0 .. Count - 1
  BY TitlesSorted
<1>2. Dirent(getDirectIndex(j)) \in DirentSet
  BY <1>1, ArchFacts
<1> QED
  BY <1>2 DEF DirentSet, Str, TitleKey, InNs

NamedSo(title) == {i \in Listed : Dirent(i).title = title /\ Dirent(i).ns \in {NsC, NsA, NsI, NsJ, Dash}}

\* getEntryByTitle finds a listed title, and no other.
LEMMA TitleEntryExact ==
  ASSUME arch \in Archives, CheckTitleIndex, NEW title \in Str
  PROVE  /\ EntryByTitle(title).found <=> NamedSo(title) # {}
         /\ EntryByTitle(title).found => EntryByTitle(title).index \in NamedSo(title)
<1>1. PICK rs : rs = [j \in 1 .. 5 |-> findxByTitle(TitleSpaces[j], title)]
  OBVIOUS
<1>2. Len(rs) = 5 /\ \A j \in 1 .. 5 : rs[j] = findxByTitle(TitleSpaces[j], title)
  BY <1>1
<1>3. ASSUME NEW j \in 1 .. 5
      PROVE  /\ rs[j] \in [found : BOOLEAN, index : Nat]
             /\ rs[j].found <=> \E h \in 0 .. TitleCount - 1 : TitleKey(h) = InNs(TitleSpaces[j], title)
             /\ rs[j].found => rs[j].index \in 0 .. TitleCount - 1 /\ TitleKey(rs[j].index) = InNs(TitleSpaces[j], title)
  <2>1. TitleSpaces[j] \in Nat
    BY TitleSpaceFacts
  <2>2. Answers(<<TitleSpaces[j]>> \o title, findxByTitle(TitleSpaces[j], title))
    BY <2>1, TitleFound, Zenon
  <2>3. Answers(InNs(TitleSpaces[j], title), rs[j])
    BY <1>2, <2>2, Zenon DEF InNs
  <2> QED
    BY <2>3, Zenon DEF Answers
<1>4. ASSUME NEW h \in 0 .. TitleCount - 1, NEW j \in 1 .. 5, TitleKey(h) = InNs(TitleSpaces[j], title)
      PROVE  getDirectIndex(h) \in NamedSo(title)
  <2>1. PICK i : i = getDirectIndex(h)
    OBVIOUS
  <2>2. Dirent(i).ns \in Nat /\ Dirent(i).title \in Str /\ TitleKey(h) = InNs(Dirent(i).ns, Dirent(i).title)
    BY <2>1, TitleKeyFacts, Zenon
  <2>3. TitleSpaces[j] \in Nat /\ TitleSpaces[j] \in {NsC, NsA, NsI, NsJ, Dash}
    BY TitleSpaceFacts, Zenon
  <2>4. Dirent(i).ns = TitleSpaces[j] /\ Dirent(i).title = title
    <3>1. InNs(Dirent(i).ns, Dirent(i).title) = InNs(TitleSpaces[j], title)
      BY <1>4, <2>2, Zenon
    <3> QED
      BY <2>2, <2>3, <3>1, ConsEqual
  <2>5. i \in Listed
    BY <2>1, Zenon DEF Listed
  <2> QED
    BY <2>1, <2>3, <2>4, <2>5, Zenon DEF NamedSo
<1>5. ASSUME NEW i \in NamedSo(title) PROVE \E j \in 1 .. 5 : rs[j].found
  <2>1. i \in Listed /\ Dirent(i).title = title /\ Dirent(i).ns \in {NsC, NsA, NsI, NsJ, Dash}
    BY Zenon DEF NamedSo
  <2>2. PICK h \in 0 .. TitleCount - 1 : i = getDirectIndex(h)
    BY <2>1, Zenon DEF Listed
  <2>3. TitleKey(h) = InNs(Dirent(i).ns, Dirent(i).title)
    BY <2>2, TitleKeyFacts, Zenon
  <2>4. PICK j \in 1 .. 5 : Dirent(i).ns = TitleSpaces[j]
    BY <2>1, TitleSpaceFacts, Zenon
  <2>5. TitleKey(h) = InNs(TitleSpaces[j], title)
    BY <2>1, <2>3, <2>4, Zenon
  <2> QED
    BY <1>3, <2>5, Zenon
<1>6. PICK r : r = FirstFound(rs)
  OBVIOUS
<1>7. EntryByTitle(title) = IF r.found THEN [r EXCEPT !.index = getDirectIndex(@)] ELSE r
  BY <1>1, <1>6, Zenon DEF EntryByTitle, TitleSpaces
<1>8. CASE \E j \in 1 .. 5 : rs[j].found
  <2>1. PICK j \in 1 .. Len(rs) : rs[j].found /\ r = rs[j]
    BY <1>2, <1>6, <1>8, FirstOfFound
  <2>2. /\ r \in [found : BOOLEAN, index : Nat] /\ r.found
        /\ r.index \in 0 .. TitleCount - 1 /\ TitleKey(r.index) = InNs(TitleSpaces[j], title)
    BY <1>2, <1>3, <2>1, Zenon
  <2>3. getDirectIndex(r.index) \in NamedSo(title)
    BY <1>2, <1>4, <2>1, <2>2, Zenon
  <2>4. EntryByTitle(title) = [r EXCEPT !.index = getDirectIndex(r.index)]
    BY <1>7, <2>2
  <2>5. EntryByTitle(title).found /\ EntryByTitle(title).index = getDirectIndex(r.index)
    BY <2>2, <2>4
  <2> QED
    BY <2>3, <2>5, Zenon
<1>9. CASE ~ \E j \in 1 .. 5 : rs[j].found
  <2>1. r = NotFound
    BY <1>2, <1>6, <1>9, NoneFound, Zenon
  <2>2. r.found = FALSE
    BY <2>1 DEF NotFound
  <2>3. EntryByTitle(title).found = FALSE
    BY <1>7, <2>2, Zenon
  <2>4. NamedSo(title) = {}
    BY <1>5, <1>9, Zenon
  <2> QED
    BY <2>3, <2>4, Zenon
<1> QED
  BY <1>8, <1>9

\* The titles before the index that a lookup returns are smaller, or equal to
\* the one that was found.
LEMMA TitlesBefore ==
  ASSUME arch \in Archives, CheckTitleIndex, NEW k \in Str, NEW x, Answers(k, x)
  PROVE  /\ x.index \in 0 .. TitleCount
         /\ \A j \in 0 .. TitleCount - 1 :
              (\A h \in 0 .. TitleCount - 1 : h # j => TitleKey(h) # TitleKey(j)) \/ TitleKey(j) # k =>
                (j < x.index <=> StringLess(TitleKey(j), k))
<1>1. /\ TitleCount \in Nat /\ \A j \in 0 .. TitleCount - 1 : TitleKey(j) \in Str
      /\ \A i, j \in 0 .. TitleCount - 1 : i <= j => ~ StringLess(TitleKey(j), TitleKey(i))
  BY TitlesSorted, ListingFacts
<1>2. CASE x.found
  <2>1. PICK n \in 0 .. TitleCount - 1 : n = x.index /\ TitleKey(n) = k
    BY <1>2, Zenon DEF Answers
  <2>2. ASSUME NEW j \in 0 .. TitleCount - 1, j < n,
               (\A h \in 0 .. TitleCount - 1 : h # j => TitleKey(h) # TitleKey(j)) \/ TitleKey(j) # k
        PROVE  StringLess(TitleKey(j), k)
    <3>1. ~ StringLess(k, TitleKey(j)) /\ TitleKey(j) # k
      BY <1>1, <2>1, <2>2
    <3> QED
      BY <1>1, <3>1, LessTotal
  <2>3. ASSUME NEW j \in 0 .. TitleCount - 1, ~ (j < n) PROVE ~ StringLess(TitleKey(j), k)
    BY <1>1, <2>1, <2>3
  <2>4. \A j \in 0 .. TitleCount - 1 :
          (\A h \in 0 .. TitleCount - 1 : h # j => TitleKey(h) # TitleKey(j)) \/ TitleKey(j) # k =>
            (j < n <=> StringLess(TitleKey(j), k))
    BY <2>2, <2>3, Zenon
  <2>5. n \in 0 .. TitleCount
    BY <1>1
  <2> QED
    BY <2>1, <2>4, <2>5, Zenon
<1>3. CASE ~ x.found
  <2>1. x.index \in 0 .. TitleCount
    BY <1>3, Zenon DEF Answers
  <2>2. \A j \in 0 .. TitleCount - 1 : j < x.index <=> StringLess(TitleKey(j), k)
    BY <1>3, Zenon DEF Answers
  <2> QED
    BY <2>1, <2>2, Zenon
<1> QED
  BY <1>2, <1>3

\* findByTitle looks up the two ends of the titles that have the prefix.
LEMMA TitleRangeExact ==
  ASSUME arch \in Archives, CheckTitleIndex, NEW title \in Str, title # <<>>, title[Len(title)] < CharMax
  PROVE  /\ RangeByTitle(title).begin .. RangeByTitle(title).end - 1 \subseteq 0 .. TitleCount - 1
         /\ \A j \in 0 .. TitleCount - 1 : ~ AmongTwins(j, title) =>
              (j \in RangeByTitle(title).begin .. RangeByTitle(title).end - 1 <=> Titled(j, title))
<1>1. PICK ns : ns = IF arch.newScheme THEN NsC ELSE NsA
  OBVIOUS
<1>2. ns \in Nat /\ TitleNamespaces = {ns}
  BY <1>1 DEF NsC, NsA, TitleNamespaces
<1>3. PICK w : w = After(title)
  OBVIOUS
<1>4. w \in Str
  BY <1>3, SuccessorFacts, Zenon
<1>5. PICK x, y : x = findxByTitle(ns, title) /\ y = findxByTitle(ns, w)
  BY Zenon
<1>6. RangeByTitle(title).begin = x.index /\ RangeByTitle(title).end = y.index
  <2>1. RangeByTitle(title) = EntryRange(x.index, y.index)
    BY <1>1, <1>3, <1>5, NoWrap, Zenon DEF RangeByTitle
  <2> QED
    BY <2>1 DEF EntryRange
<1>7. PICK k, l : k = InNs(ns, title) /\ l = InNs(ns, w)
  BY Zenon
<1>8. k \in Str /\ l \in Str /\ Len(k) = Len(title) + 1 /\ Len(title) \in Nat
  BY <1>2, <1>4, <1>7, ConsFacts, Zenon
<1>9. Answers(k, x) /\ Answers(l, y)
  BY <1>2, <1>4, <1>5, <1>7, TitleFound, Zenon DEF InNs
<1>10. /\ x.index \in 0 .. TitleCount
       /\ \A j \in 0 .. TitleCount - 1 :
            (\A h \in 0 .. TitleCount - 1 : h # j => TitleKey(h) # TitleKey(j)) \/ TitleKey(j) # k =>
              (j < x.index <=> StringLess(TitleKey(j), k))
  BY <1>8, <1>9, TitlesBefore, Zenon
<1>11. /\ y.index \in 0 .. TitleCount
       /\ \A j \in 0 .. TitleCount - 1 :
            (\A h \in 0 .. TitleCount - 1 : h # j => TitleKey(h) # TitleKey(j)) \/ TitleKey(j) # l =>
              (j < y.index <=> StringLess(TitleKey(j), l))
  BY <1>8, <1>9, TitlesBefore, Zenon
<1>12. l = After(k)
  BY <1>2, <1>3, <1>7, SuccessorOfCons, Zenon DEF InNs
<1>13. TitleCount \in Nat /\ \A j \in 0 .. TitleCount - 1 : TitleKey(j) \in Str
  BY TitlesSorted, ListingFacts
<1>14. k # <<>>
  BY <1>8
<1>15. ASSUME NEW j \in 0 .. TitleCount - 1,
              (\A h \in 0 .. TitleCount - 1 : h # j => TitleKey(h) # TitleKey(j)) \/ TitleKey(j) \notin {k, l}
       PROVE  j \in x.index .. y.index - 1 <=> Starts(k, TitleKey(j))
  <2>1. ~ StringLess(TitleKey(j), k) /\ StringLess(TitleKey(j), l) <=> Starts(k, TitleKey(j))
    BY <1>8, <1>12, <1>13, <1>14, PrefixRange, Zenon
  <2>2. j \in x.index .. y.index - 1 <=> ~ (j < x.index) /\ j < y.index
    BY <1>10, <1>11, <1>13
  <2>3. j < x.index <=> StringLess(TitleKey(j), k)
    BY <1>10, <1>15, Zenon
  <2>4. j < y.index <=> StringLess(TitleKey(j), l)
    BY <1>11, <1>15, Zenon
  <2> QED
    BY <2>1, <2>2, <2>3, <2>4, Zenon
<1>16. x.index .. y.index - 1 \subseteq 0 .. TitleCount - 1
  BY <1>10, <1>11, <1>13
<1>17. ASSUME NEW j \in 0 .. TitleCount - 1
       PROVE  /\ Starts(k, TitleKey(j)) <=> Titled(j, title)
              /\ TitleKey(j) \in {k, l} => Dirent(getDirectIndex(j)).title \in {title, Successor(title)}
  <2>1. PICK i : i = getDirectIndex(j)
    OBVIOUS
  <2>2. Dirent(i).ns \in Nat /\ Dirent(i).title \in Str /\ TitleKey(j) = InNs(Dirent(i).ns, Dirent(i).title)
    BY <2>1, TitleKeyFacts, Zenon
  <2>3. PICK m \in Nat, u \in Str : m = Dirent(i).ns /\ u = Dirent(i).title
    BY <2>2, Zenon
  <2>4. Starts(<<ns>> \o title, <<m>> \o u) <=> ns = m /\ Starts(title, u)
    BY <1>2, StartsOfCons, Zenon
  <2>5. Starts(title, u) <=> IsPrefix(title, u)
    BY PrefixStarts, Zenon
  <2>6. Starts(k, TitleKey(j)) <=> ns = m /\ IsPrefix(title, u)
    BY <1>7, <2>2, <2>3, <2>4, <2>5, Zenon DEF InNs
  <2>7. Starts(k, TitleKey(j)) <=> Titled(j, title)
    BY <1>2, <2>1, <2>3, <2>6, Zenon DEF Titled
  <2>8. InNs(m, u) = InNs(ns, title) => u = title
    BY <1>2, ConsEqual
  <2>9. InNs(m, u) = InNs(ns, w) => u = w
    BY <1>2, <1>4, ConsEqual
  <2>10. w = Successor(title)
    BY <1>3, NoWrap, Zenon
  <2> QED
    BY <1>7, <2>1, <2>2, <2>3, <2>7, <2>8, <2>9, <2>10, Zenon
<1>18. ASSUME NEW j \in 0 .. TitleCount - 1, ~ AmongTwins(j, title)
       PROVE  (\A h \in 0 .. TitleCount - 1 : h # j => TitleKey(h) # TitleKey(j)) \/ TitleKey(j) \notin {k, l}
  BY <1>17, <1>18, Zenon DEF AmongTwins
<1>19. ASSUME NEW j \in 0 .. TitleCount - 1, ~ AmongTwins(j, title)
       PROVE  j \in x.index .. y.index - 1 <=> Titled(j, title)
  BY <1>15, <1>17, <1>18, <1>19, Zenon
<1> QED
  BY <1>6, <1>16, <1>19, Zenon

-----------------------------------------------------------------------------
(* The order by clusters *)

PairAt(i) == <<ClusterOf(i), i>>
BeforeOf(i) == {j \in UserEntries : PairLess(PairAt(j), PairAt(i))}

\* What the list is when the entries before n have been listed
ListUpTo(n) == [h \in 1 .. n - StartUserEntry |-> PairAt(StartUserEntry + h - 1)]

LEMMA ClusterFacts ==
  ASSUME arch \in Archives, NEW i \in UserEntries
  PROVE  ClusterOf(i) \in Nat /\ i \in Nat /\ PairAt(i)[1] = ClusterOf(i) /\ PairAt(i)[2] = i
<1>1. i \in 0 .. Count - 1 /\ Count \in Nat
  BY UserFacts, ArchFacts
<1>2. Dirent(i).cluster \in Nat
  BY <1>1, ArchFacts DEF DirentSet
<1> QED
  BY <1>1, <1>2 DEF ClusterOf, PairAt

\* The order of the pairs is a strict total order.
LEMMA PairOrder ==
  ASSUME arch \in Archives, NEW i \in UserEntries, NEW j \in UserEntries
  PROVE  /\ ~ PairLess(PairAt(i), PairAt(i))
         /\ i # j => PairLess(PairAt(i), PairAt(j)) \/ PairLess(PairAt(j), PairAt(i))
BY ClusterFacts DEF PairLess

LEMMA PairTransitive ==
  ASSUME arch \in Archives, NEW i \in UserEntries, NEW j \in UserEntries, NEW h \in UserEntries,
         PairLess(PairAt(i), PairAt(j)), PairLess(PairAt(j), PairAt(h))
  PROVE  PairLess(PairAt(i), PairAt(h))
<1>1. /\ ClusterOf(i) \in Nat /\ i \in Nat /\ PairAt(i)[1] = ClusterOf(i) /\ PairAt(i)[2] = i
      /\ ClusterOf(j) \in Nat /\ j \in Nat /\ PairAt(j)[1] = ClusterOf(j) /\ PairAt(j)[2] = j
      /\ ClusterOf(h) \in Nat /\ h \in Nat /\ PairAt(h)[1] = ClusterOf(h) /\ PairAt(h)[2] = h
  BY ClusterFacts
<1> QED
  BY <1>1 DEF PairLess

LEMMA UsersFinite ==
  ASSUME arch \in Archives
  PROVE  IsFiniteSet(UserEntries) /\ Cardinality(UserEntries) = EndUserEntry - StartUserEntry
<1>1. StartUserEntry \in Nat /\ EndUserEntry \in Nat /\ StartUserEntry <= EndUserEntry
  BY UserFacts
<1>2. IsFiniteSet(StartUserEntry .. EndUserEntry - 1)
  BY <1>1, FS_Interval
<1>3. Cardinality(StartUserEntry .. EndUserEntry - 1) = EndUserEntry - StartUserEntry
  <2>1. PICK a, b \in Int : a = StartUserEntry /\ b = EndUserEntry - 1
    BY <1>1
  <2>2. Cardinality(a .. b) = IF a > b THEN 0 ELSE b - a + 1
    BY FS_Interval, Zenon
  <2>3. Cardinality(a .. b) = EndUserEntry - StartUserEntry
    BY <1>1, <2>1, <2>2
  <2> QED
    BY <2>1, <2>3, Zenon
<1> QED
  BY <1>2, <1>3 DEF UserEntries

\* An entry has its own number of entries before it.
LEMMA RankFacts ==
  ASSUME arch \in Archives, NEW i \in UserEntries
  PROVE  IsFiniteSet(BeforeOf(i)) /\ Cardinality(BeforeOf(i)) \in 0 .. EndUserEntry - StartUserEntry - 1
<1>1. IsFiniteSet(UserEntries) /\ Cardinality(UserEntries) = EndUserEntry - StartUserEntry
  BY UsersFinite
<1>2. BeforeOf(i) \in SUBSET UserEntries /\ i \notin BeforeOf(i)
  BY PairOrder DEF BeforeOf
<1>3. IsFiniteSet(BeforeOf(i)) /\ Cardinality(BeforeOf(i)) <= Cardinality(UserEntries)
  BY <1>1, <1>2, FS_Subset
<1>4. Cardinality(BeforeOf(i)) # Cardinality(UserEntries)
  BY <1>1, <1>2, FS_Subset
<1>5. Cardinality(BeforeOf(i)) \in Nat
  BY <1>3, FS_CardinalityType
<1>6. StartUserEntry \in Nat /\ EndUserEntry \in Nat
  BY UserFacts
<1> QED
  BY <1>1, <1>3, <1>4, <1>5, <1>6

LEMMA RankGrows ==
  ASSUME arch \in Archives, NEW i \in UserEntries, NEW j \in UserEntries, PairLess(PairAt(j), PairAt(i))
  PROVE  Cardinality(BeforeOf(j)) < Cardinality(BeforeOf(i))
<1>1. BeforeOf(j) \in SUBSET BeforeOf(i) /\ j \in BeforeOf(i) /\ j \notin BeforeOf(j)
  BY PairOrder, PairTransitive DEF BeforeOf
<1>2. IsFiniteSet(BeforeOf(i)) /\ Cardinality(BeforeOf(i)) \in Nat /\ Cardinality(BeforeOf(j)) \in Nat
  BY RankFacts, FS_CardinalityType
<1>3. Cardinality(BeforeOf(j)) <= Cardinality(BeforeOf(i)) /\ Cardinality(BeforeOf(i)) # Cardinality(BeforeOf(j))
  BY <1>1, <1>2, FS_Subset
<1> QED
  BY <1>2, <1>3

\* Each number of entries before it is that of some entry.
LEMMA RankOnto ==
  ASSUME arch \in Archives, NEW k \in 0 .. EndUserEntry - StartUserEntry - 1
  PROVE  \E i \in UserEntries : Cardinality(BeforeOf(i)) = k
<1> SUFFICES ASSUME \A i \in UserEntries : Cardinality(BeforeOf(i)) # k PROVE FALSE
  OBVIOUS
<1>1. PICK m : m = EndUserEntry - StartUserEntry
  OBVIOUS
<1>2. m \in Nat /\ k \in 0 .. m - 1
  BY <1>1, UserFacts
<1>3. IsFiniteSet(UserEntries) /\ Cardinality(UserEntries) = m
  BY <1>1, UsersFinite
<1>4. IsFiniteSet(0 .. m - 1) /\ Cardinality(0 .. m - 1) = m
  BY <1>2, FS_Interval
<1>5. PICK T : T = (0 .. m - 1) \ {k}
  OBVIOUS
<1>6. IsFiniteSet(T) /\ Cardinality(T) = m - 1
  BY <1>2, <1>4, <1>5, FS_RemoveElement, ZenonT(60)
<1>7. PICK f : f = [i \in UserEntries |-> Cardinality(BeforeOf(i))]
  OBVIOUS
<1>8. \A i \in UserEntries : Cardinality(BeforeOf(i)) \in T
  BY <1>1, <1>5, RankFacts
<1>9. f \in [UserEntries -> T]
  BY <1>7, <1>8
<1>10. PICK x, y \in UserEntries : x # y /\ f[x] = f[y]
  <2>1. Cardinality(T) < Cardinality(UserEntries)
    BY <1>2, <1>3, <1>6
  <2> QED
    BY <1>3, <1>6, <1>9, <2>1, FS_PigeonHole
<1>11. Cardinality(BeforeOf(x)) = Cardinality(BeforeOf(y))
  BY <1>7, <1>10
<1>12. PairLess(PairAt(x), PairAt(y)) \/ PairLess(PairAt(y), PairAt(x))
  BY <1>10, PairOrder
<1>13. Cardinality(BeforeOf(x)) \in Nat /\ Cardinality(BeforeOf(y)) \in Nat
  BY RankFacts, FS_CardinalityType
<1>14. Cardinality(BeforeOf(x)) < Cardinality(BeforeOf(y)) \/ Cardinality(BeforeOf(y)) < Cardinality(BeforeOf(x))
  BY <1>12, RankGrows
<1> QED
  BY <1>11, <1>13, <1>14

LEMMA ListedPairs ==
  ASSUME arch \in Archives
  PROVE  ToSet(ListUpTo(EndUserEntry)) = {PairAt(i) : i \in UserEntries}
<1>1. PICK a, b \in Nat : a = StartUserEntry /\ b = EndUserEntry /\ a <= b
  BY UserFacts
<1>2. UserEntries = a .. b - 1
  BY <1>1 DEF UserEntries
<1>3. PICK s : s = ListUpTo(EndUserEntry)
  OBVIOUS
<1>4. s = [h \in 1 .. b - a |-> PairAt(a + h - 1)]
  BY <1>1, <1>3, Zenon DEF ListUpTo
<1>5. ToSet(s) = {s[h] : h \in 1 .. b - a}
  BY <1>4 DEF ToSet
<1>6. \A h \in 1 .. b - a : s[h] = PairAt(a + h - 1) /\ a + h - 1 \in a .. b - 1
  BY <1>1, <1>4
<1>7. \A i \in a .. b - 1 : i - a + 1 \in 1 .. b - a /\ a + (i - a + 1) - 1 = i
  BY <1>1
<1>8. ASSUME NEW i \in a .. b - 1 PROVE \E h \in 1 .. b - a : s[h] = PairAt(i)
  <2>1. PICK h \in 1 .. b - a : a + h - 1 = i
    BY <1>7
  <2> QED
    BY <1>6, <2>1, Zenon
<1>9. {s[h] : h \in 1 .. b - a} = {PairAt(i) : i \in a .. b - 1}
  BY <1>6, <1>8, Zenon
<1> QED
  BY <1>2, <1>3, <1>5, <1>9, Zenon

\* How many pairs are smaller is how many entries are before the entry.
LEMMA PairRank ==
  ASSUME arch \in Archives, NEW i \in UserEntries
  PROVE  Cardinality({q \in {PairAt(j) : j \in UserEntries} : PairLess(q, PairAt(i))}) = Cardinality(BeforeOf(i))
<1>1. PICK T : T = {q \in {PairAt(j) : j \in UserEntries} : PairLess(q, PairAt(i))}
  OBVIOUS
<1>2. PICK f : f = [j \in BeforeOf(i) |-> PairAt(j)]
  OBVIOUS
<1>3. \A j \in BeforeOf(i) : j \in UserEntries /\ PairAt(j) \in T
  BY <1>1, Zenon DEF BeforeOf
<1>4. f \in [BeforeOf(i) -> T]
  BY <1>2, <1>3
<1>5. \A x, y \in BeforeOf(i) : f[x] = f[y] => x = y
  <2> SUFFICES ASSUME NEW x \in BeforeOf(i), NEW y \in BeforeOf(i), f[x] = f[y] PROVE x = y
    OBVIOUS
  <2>1. PairAt(x) = PairAt(y)
    BY <1>2
  <2>2. PairAt(x)[2] = x /\ PairAt(y)[2] = y
    BY <1>3, ClusterFacts
  <2> QED
    BY <2>1, <2>2
<1>6. \A q \in T : \E j \in BeforeOf(i) : f[j] = q
  <2> SUFFICES ASSUME NEW q \in T PROVE \E j \in BeforeOf(i) : f[j] = q
    OBVIOUS
  <2>1. PICK j \in UserEntries : q = PairAt(j) /\ PairLess(PairAt(j), PairAt(i))
    BY <1>1, Zenon
  <2>2. j \in BeforeOf(i)
    BY <2>1 DEF BeforeOf
  <2> QED
    BY <1>2, <2>1, <2>2
<1>7. f \in Bijection(BeforeOf(i), T)
  BY <1>4, <1>5, <1>6 DEF Bijection, Injection, Surjection, IsInjective
<1>8. ExistsBijection(BeforeOf(i), T)
  BY <1>7 DEF ExistsBijection
<1>9. IsFiniteSet(BeforeOf(i))
  BY RankFacts
<1>10. Cardinality(T) = Cardinality(BeforeOf(i))
  BY <1>8, <1>9, FS_Bijection
<1> QED
  BY <1>1, <1>10, Zenon

\* std::sort puts at each place the entry that has so many before it.
LEMMA SortedAt ==
  ASSUME arch \in Archives, NEW s, s = SortedList(ListUpTo(EndUserEntry))
  PROVE  /\ Len(s) = EndUserEntry - StartUserEntry
         /\ \A k \in 1 .. Len(s) : s[k][2] \in UserEntries /\ Cardinality(BeforeOf(s[k][2])) = k - 1
<1>1. PICK a, b \in Nat : a = StartUserEntry /\ b = EndUserEntry /\ a <= b
  BY UserFacts
<1>2. PICK L, S : L = ListUpTo(EndUserEntry) /\ S = {PairAt(j) : j \in UserEntries}
  BY Zenon
<1>3. ToSet(L) = S
  BY <1>2, ListedPairs
<1>4. L = [h \in 1 .. b - a |-> PairAt(a + h - 1)]
  BY <1>1, <1>2, Zenon DEF ListUpTo
<1>5. Len(L) = b - a
  BY <1>1, <1>4
<1>6. s = [k \in 1 .. Len(L) |-> CHOOSE p \in ToSet(L) : Cardinality({q \in ToSet(L) : PairLess(q, p)}) = k - 1]
  <2>1. s = SortedList(L)
    BY <1>2, Zenon
  <2> QED
    BY <2>1, Zenon DEF SortedList
<1>7. Len(s) = b - a
  BY <1>1, <1>5, <1>6
<1>8. ASSUME NEW k \in 1 .. b - a PROVE s[k][2] \in UserEntries /\ Cardinality(BeforeOf(s[k][2])) = k - 1
  <2>1. k - 1 \in 0 .. EndUserEntry - StartUserEntry - 1
    BY <1>1
  <2>2. PICK i \in UserEntries : Cardinality(BeforeOf(i)) = k - 1
    BY <2>1, RankOnto
  <2>3. PairAt(i) \in S /\ Cardinality({q \in S : PairLess(q, PairAt(i))}) = k - 1
    BY <1>2, <2>2, PairRank, Zenon
  <2>4. PICK p : p = CHOOSE p2 \in ToSet(L) : Cardinality({q \in ToSet(L) : PairLess(q, p2)}) = k - 1
    OBVIOUS
  <2>5. p \in S /\ Cardinality({q \in S : PairLess(q, p)}) = k - 1
    <3>1. PairAt(i) \in ToSet(L) /\ Cardinality({q \in ToSet(L) : PairLess(q, PairAt(i))}) = k - 1
      BY <1>3, <2>3, Zenon
    <3>2. p \in ToSet(L) /\ Cardinality({q \in ToSet(L) : PairLess(q, p)}) = k - 1
      BY <2>4, <3>1, Zenon
    <3> QED
      BY <1>3, <3>2, Zenon
  <2>6. s[k] = p
    <3>1. k \in 1 .. Len(L)
      BY <1>5
    <3> QED
      BY <1>6, <2>4, <3>1, Zenon
  <2>7. PICK j \in UserEntries : p = PairAt(j)
    BY <1>2, <2>5, Zenon
  <2>8. Cardinality(BeforeOf(j)) = k - 1
    BY <1>2, <2>5, <2>7, PairRank, Zenon
  <2>9. PairAt(j)[2] = j
    BY ClusterFacts
  <2> QED
    BY <2>6, <2>7, <2>8, <2>9, Zenon
<1> QED
  BY <1>1, <1>7, <1>8, Zenon

-----------------------------------------------------------------------------
(* Chains of redirects *)

HopStep(i, f, k) ==
  IF k = 0 THEN i ELSE IF isRedirect(f[k - 1]) THEN Dirent(f[k - 1]).target ELSE f[k - 1]
Hops(i, f) == f = [k \in 0 .. Watchdog |-> HopStep(i, f, k)]
Chain(i) == CHOOSE f : Hops(i, f)

LEMMA ChainDef == ASSUME NEW i PROVE EndOfChain(i) = Chain(i)[Watchdog]
BY Zenon DEF EndOfChain, Chain, Hops, HopStep

HopTable(i, g, n) == \A k \in 0 .. n : g[k] = HopStep(i, g, k)

LEMMA HopTables == ASSUME NEW i PROVE \A n \in Nat : \E g : HopTable(i, g, n)
<1> DEFINE T == {n \in Nat : ~ \E g : HopTable(i, g, n)}
<1> SUFFICES ASSUME T # {} PROVE FALSE
  BY Zenon
<1>1. T \subseteq Nat
  OBVIOUS
<1>2. PICK m \in T : \A y \in T : m <= y
  BY <1>1, LeastOf
<1>3. m \in Nat /\ ~ \E g : HopTable(i, g, m)
  BY <1>2
<1>4. CASE m = 0
  <2>1. PICK g : g = [k \in {0} |-> i]
    OBVIOUS
  <2>2. g[0] = i /\ HopStep(i, g, 0) = i
    BY <2>1 DEF HopStep
  <2>3. \A k \in 0 .. 0 : k = 0
    OBVIOUS
  <2>4. HopTable(i, g, 0)
    BY <2>2, <2>3, Zenon DEF HopTable
  <2> QED
    BY <1>3, <1>4, <2>4, Zenon
<1>5. CASE m # 0
  <2>1. m - 1 \in Nat /\ m - 1 \notin T
    BY <1>2, <1>3, <1>5
  <2>2. PICK g : HopTable(i, g, m - 1)
    BY <2>1
  <2>3. PICK h : h = [k \in 0 .. m |-> IF k = m THEN HopStep(i, g, m) ELSE g[k]]
    OBVIOUS
  <2>4. h[m] = HopStep(i, g, m) /\ \A k \in 0 .. m - 1 : h[k] = g[k]
    BY <1>3, <2>1, <2>3
  <2>5. ASSUME NEW k \in 0 .. m PROVE h[k] = HopStep(i, h, k)
    <3>1. h[k] = HopStep(i, g, k)
      <4>1. k = m \/ k \in 0 .. m - 1
        BY <1>3
      <4> QED
        BY <2>2, <2>4, <4>1, Zenon DEF HopTable
    <3>2. k # 0 => h[k - 1] = g[k - 1]
      <4>1. k # 0 => k - 1 \in 0 .. m - 1
        BY <1>3
      <4> QED
        BY <2>4, <4>1, Zenon
    <3>3. HopStep(i, g, k) = HopStep(i, h, k)
      <4>1. CASE k = 0
        BY <4>1, Zenon DEF HopStep
      <4>2. CASE k # 0
        <5>1. h[k - 1] = g[k - 1]
          BY <3>2, <4>2
        <5> QED
          BY <5>1, Zenon DEF HopStep
      <4> QED
        BY <4>1, <4>2
    <3> QED
      BY <3>1, <3>3, Zenon
  <2>6. HopTable(i, h, m)
    BY <2>5, Zenon DEF HopTable
  <2> QED
    BY <1>3, <2>6, Zenon
<1> QED
  BY <1>4, <1>5

\* A chain goes from each redirect to its target.
LEMMA ChainFacts ==
  ASSUME NEW i
  PROVE  \A k \in 0 .. Watchdog : Chain(i)[k] = HopStep(i, Chain(i), k)
<1>0. Watchdog \in Nat
  BY WatchdogAssumption
<1>1. PICK g : HopTable(i, g, Watchdog)
  BY <1>0, HopTables, Zenon
<1>2. PICK f : f = [k \in 0 .. Watchdog |-> g[k]]
  OBVIOUS
<1>3. ASSUME NEW k \in 0 .. Watchdog PROVE g[k] = HopStep(i, f, k)
  <2>1. g[k] = HopStep(i, g, k)
    BY <1>1, Zenon DEF HopTable
  <2>2. CASE k = 0
    BY <2>1, <2>2, Zenon DEF HopStep
  <2>3. CASE k # 0
    <3>1. k - 1 \in 0 .. Watchdog
      BY <1>0, <2>3
    <3>2. f[k - 1] = g[k - 1]
      BY <1>2, <3>1, Zenon
    <3> QED
      BY <2>1, <3>2, Zenon DEF HopStep
  <2> QED
    BY <2>2, <2>3
<1>4. Hops(i, f)
  BY <1>2, <1>3, Zenon DEF Hops
<1>5. PICK c : c = Chain(i)
  OBVIOUS
<1>6. Hops(i, c)
  BY <1>4, <1>5, Zenon DEF Chain
<1>7. \A k \in 0 .. Watchdog : c[k] = HopStep(i, c, k)
  <2> SUFFICES ASSUME NEW k \in 0 .. Watchdog PROVE c[k] = HopStep(i, c, k)
    OBVIOUS
  <2>1. c = [x \in 0 .. Watchdog |-> HopStep(i, c, x)]
    BY <1>6, Zenon DEF Hops
  <2> QED
    BY <2>1, Zenon
<1> QED
  BY <1>5, <1>7, Zenon

\* Where a chain reaches what is no redirect it ends.
LEMMA ChainEnds ==
  ASSUME NEW i, NEW k \in 0 .. Watchdog, ~ isRedirect(Chain(i)[k])
  PROVE  Chain(i)[Watchdog] = Chain(i)[k]
<1>0. Watchdog \in Nat
  BY WatchdogAssumption
<1>c. PICK c : c = Chain(i)
  OBVIOUS
<1> DEFINE T == {n \in Nat : n >= k /\ n <= Watchdog /\ c[n] # c[k]}
<1> SUFFICES ASSUME T # {} PROVE FALSE
  BY <1>0, <1>c
<1>1. T \subseteq Nat
  OBVIOUS
<1>2. PICK m \in T : \A y \in T : m <= y
  BY <1>1, LeastOf
<1>3. m \in Nat /\ m >= k /\ m <= Watchdog /\ c[m] # c[k]
  BY <1>2
<1>4. m # k
  BY <1>3
<1>5. m \in 0 .. Watchdog /\ m # 0 /\ m - 1 \in Nat /\ m - 1 >= k /\ m - 1 <= Watchdog
  BY <1>0, <1>3, <1>4
<1>6. m - 1 \notin T
  BY <1>2, <1>3
<1>7. c[m - 1] = c[k]
  BY <1>5, <1>6
<1>8. c[m] = HopStep(i, c, m)
  BY <1>5, <1>c, ChainFacts, Zenon
<1>9. ~ isRedirect(c[m - 1])
  BY <1>7, <1>c, Zenon
<1>10. c[m] = c[m - 1]
  BY <1>5, <1>8, <1>9, Zenon DEF HopStep
<1> QED
  BY <1>3, <1>7, <1>10, Zenon

-----------------------------------------------------------------------------
(* The archive never changes, nor does what follows from it. *)

LEMMA DirentFixed ==
  ASSUME arch' = arch
  PROVE  /\ Count' = Count
         /\ \A i : Dirent(i)' = Dirent(i)
         /\ \A i : Key(i)' = Key(i)
         /\ \A i : isRedirect(i)' <=> isRedirect(i)
BY DEF Count, Dirent, Key, isRedirect

LEMMA UserFixed ==
  ASSUME arch' = arch
  PROVE  StartUserEntry' = StartUserEntry /\ EndUserEntry' = EndUserEntry /\ UserEntries' = UserEntries
<1>1. Count' = Count /\ \A i : Dirent(i)' = Dirent(i)
  BY DirentFixed
<1>2. ASSUME NEW ch PROVE NamespaceBegin(ch)' = NamespaceBegin(ch)
  BY <1>1 DEF NamespaceBegin
<1>3. StartUserEntry' = StartUserEntry /\ EndUserEntry' = EndUserEntry
  BY <1>1, <1>2 DEF StartUserEntry, EndUserEntry
<1> QED
  BY <1>3 DEF UserEntries

LEMMA PathFixed ==
  ASSUME arch' = arch
  PROVE  /\ \A i : getPath(i)' = getPath(i)
         /\ \A i, p : HasPrefix(i, p)' <=> HasPrefix(i, p)
<1>1. \A i : getPath(i)' = getPath(i)
  BY DirentFixed DEF getPath
<1> QED
  BY <1>1 DEF HasPrefix

LEMMA TitleFixed ==
  ASSUME arch' = arch
  PROVE  /\ TitleListing' = TitleListing /\ TitleCount' = TitleCount
         /\ \A j : getDirectIndex(j)' = getDirectIndex(j)
         /\ \A j : TitleKey(j)' = TitleKey(j)
         /\ CheckTitleIndex' <=> CheckTitleIndex
         /\ \A title : NamedSo(title)' = NamedSo(title)
         /\ \A j, title : Titled(j, title)' <=> Titled(j, title)
         /\ \A j, title : AmongTwins(j, title)' <=> AmongTwins(j, title)
<1>1. Count' = Count /\ \A i : Dirent(i)' = Dirent(i)
  BY DirentFixed
<1>2. ASSUME NEW ns, NEW url PROVE findx(ns, url)' = findx(ns, url)
  <2>1. \A i : Key(i)' = Key(i)
    BY DirentFixed
  <2>2. PICK k : k = <<ns>> \o url
    OBVIOUS
  <2>3. {i \in 0 .. Count - 1 : StringLess(Key(i), k)}' = {i \in 0 .. Count - 1 : StringLess(Key(i), k)}
    BY <1>1, <2>1
  <2> QED
    BY <1>1, <2>1, <2>2, <2>3, Zenon DEF findx
<1>3. HasListingV1' <=> HasListingV1
  BY <1>1, <1>2, Zenon DEF HasListingV1
<1>4. TitleListing' = TitleListing
  BY <1>3 DEF TitleListing
<1>5. TitleCount' = TitleCount /\ \A j : getDirectIndex(j)' = getDirectIndex(j)
  BY <1>4 DEF TitleCount, getDirectIndex
<1>6. \A j : TitleKey(j)' = TitleKey(j)
  BY <1>1, <1>5 DEF TitleKey
<1>7. ASSUME NEW s PROVE CheckTitleListing(s)' <=> CheckTitleListing(s)
  BY <1>1 DEF CheckTitleListing
<1>8. CheckTitleIndex' <=> CheckTitleIndex
  BY <1>3, <1>7 DEF CheckTitleIndex
<1>9. \A j, title : AmongTwins(j, title)' <=> AmongTwins(j, title)
  BY <1>1, <1>5, <1>6 DEF AmongTwins, Successor
<1>10. Listed' = Listed
  BY <1>5 DEF Listed
<1>11. TitleNamespaces' = TitleNamespaces
  BY DEF TitleNamespaces
<1>12. \A title : NamedSo(title)' = NamedSo(title)
  BY <1>1, <1>10 DEF NamedSo
<1>13. \A j, title : Titled(j, title)' <=> Titled(j, title)
  BY <1>1, <1>5, <1>11 DEF Titled
<1> QED
  BY <1>4, <1>5, <1>6, <1>8, <1>9, <1>12, <1>13

LEMMA OrderFixed ==
  ASSUME arch' = arch
  PROVE  /\ \A i : PairAt(i)' = PairAt(i)
         /\ \A i : BeforeOf(i)' = BeforeOf(i)
         /\ \A n : ListUpTo(n)' = ListUpTo(n)
<1>1. \A i : PairAt(i)' = PairAt(i)
  BY DirentFixed DEF PairAt, ClusterOf
<1>2. \A i : BeforeOf(i)' = BeforeOf(i)
  BY <1>1, UserFixed DEF BeforeOf
<1>3. \A n : ListUpTo(n)' = ListUpTo(n)
  BY <1>1, UserFixed DEF ListUpTo
<1> QED
  BY <1>1, <1>2, <1>3

LEMMA ChainFixed ==
  ASSUME arch' = arch
  PROVE  \A i : Chain(i)' = Chain(i)
<1>1. ASSUME NEW i, NEW f, NEW k PROVE HopStep(i, f, k)' = HopStep(i, f, k)
  BY DirentFixed DEF HopStep
<1>2. ASSUME NEW i, NEW f PROVE Hops(i, f)' <=> Hops(i, f)
  BY <1>1 DEF Hops
<1> QED
  BY <1>2, Zenon DEF Chain

-----------------------------------------------------------------------------
(* The inductive invariant: what a thread holds answers its call, a thread  *)
(* that follows redirects is on the chain of the entry it asked, and the     *)
(* list by clusters is complete and sorted once the flag says so.            *)

Record(a) ==
  a = [op |-> a.op, arg |-> a.arg, n |-> a.n, found |-> a.found, begin |-> a.begin, end |-> a.end]

PathOK(a) == a.op = "byPath" => \A i \in UserEntries : a.arg = getPath(i) => a.found /\ a.n = i
RangeOK(a) == a.op = "pathRange" => Between(a) = {i \in UserEntries : HasPrefix(i, a.arg)}
TitleOK(a) ==
  CheckTitleIndex /\ a.op = "byTitle" =>
    (a.found <=> NamedSo(a.arg) # {}) /\ (a.found => a.n \in NamedSo(a.arg))
TitleRangeOK(a) ==
  CheckTitleIndex /\ a.op = "titleRange" =>
    /\ Between(a) \subseteq 0 .. TitleCount - 1
    /\ \A j \in 0 .. TitleCount - 1 :
         ~ AmongTwins(j, a.arg) => (j \in Between(a) <=> Titled(j, a.arg))
OrderOK(a) == a.op \in {"order", "list"} => a.begin \in Nat
OrderedOK(a) ==
  a.op = "ordered" => /\ a.found <=> a.begin < Cardinality(UserEntries)
                      /\ a.found => a.n \in UserEntries /\ Cardinality(BeforeOf(a.n)) = a.begin
FollowOK(a) == a.op = "follow" => a.end \in 1 .. Watchdog /\ a.n = Chain(a.begin)[Watchdog - a.end + 1]
ItemOK(a) ==
  a.op = "item" => /\ a.found <=> ~ isRedirect(Chain(a.begin)[Watchdog])
                   /\ a.found => a.n = Chain(a.begin)[Watchdog]

AnswerOK(a) ==
  /\ Record(a)
  /\ PathOK(a) /\ RangeOK(a) /\ TitleOK(a) /\ TitleRangeOK(a)
  /\ OrderOK(a) /\ OrderedOK(a) /\ FollowOK(a) /\ ItemOK(a)

AnswersInv == act = [t \in Threads |-> act[t]] /\ \A t \in Threads : AnswerOK(act[t])

ListInv ==
  /\ orderOnceFlag = "free" => articleListByCluster = <<>>
  /\ orderOnceFlag = "set" => articleListByCluster = SortedList(ListUpTo(EndUserEntry))
  /\ \A t \in Threads : act[t].op = "list" => /\ orderOnceFlag = t
                                              /\ act[t].n \in StartUserEntry .. EndUserEntry
                                              /\ articleListByCluster = ListUpTo(act[t].n)

ArchiveInv == arch \in Archives /\ AnswersInv /\ ListInv

LEMMA AnswerFixed ==
  ASSUME arch' = arch, NEW a, AnswerOK(a)
  PROVE  AnswerOK(a)'
<1>0. /\ Record(a) /\ PathOK(a) /\ RangeOK(a) /\ TitleOK(a) /\ TitleRangeOK(a)
      /\ OrderOK(a) /\ OrderedOK(a) /\ FollowOK(a) /\ ItemOK(a)
  BY DEF AnswerOK
<1>1. Record(a)' /\ OrderOK(a)'
  BY <1>0 DEF Record, OrderOK
<1>2. PathOK(a)'
  BY <1>0, UserFixed, PathFixed DEF PathOK
<1>3. RangeOK(a)'
  BY <1>0, UserFixed, PathFixed DEF RangeOK, Between
<1>4. TitleOK(a)'
  BY <1>0, TitleFixed DEF TitleOK
<1>5. TitleRangeOK(a)'
  BY <1>0, TitleFixed DEF TitleRangeOK, Between
<1>6. OrderedOK(a)'
  BY <1>0, UserFixed, OrderFixed DEF OrderedOK
<1>7. FollowOK(a)'
  BY <1>0, ChainFixed DEF FollowOK
<1>8. ItemOK(a)'
  BY <1>0, ChainFixed, DirentFixed DEF ItemOK
<1> QED
  BY <1>1, <1>2, <1>3, <1>4, <1>5, <1>6, <1>7, <1>8 DEF AnswerOK

\* One thread gets an answer that is right.
LEMMA OneAnswers ==
  ASSUME AnswersInv, arch' = arch, NEW t \in Threads, NEW b, AnswerOK(b), act' = [act EXCEPT ![t] = b]
  PROVE  AnswersInv' /\ \A u \in Threads : act'[u] = IF u = t THEN b ELSE act[u]
<1>1. act = [u \in Threads |-> act[u]] /\ \A u \in Threads : AnswerOK(act[u])
  BY DEF AnswersInv
<1>2. \A u \in Threads : act'[u] = IF u = t THEN b ELSE act[u]
  BY <1>1
<1>3. act' = [u \in Threads |-> act'[u]]
  BY <1>1
<1>4. ASSUME NEW u \in Threads PROVE AnswerOK(act[u])'
  <2>1. PICK a : a = act'[u]
    OBVIOUS
  <2>2. AnswerOK(a)
    BY <1>1, <1>2, <2>1
  <2>3. AnswerOK(a)'
    BY <2>2, AnswerFixed
  <2> QED
    BY <2>1, <2>3
<1> QED
  BY <1>2, <1>3, <1>4 DEF AnswersInv

\* The list is left alone, and the thread does not make it.
LEMMA ListKept ==
  ASSUME ListInv, arch' = arch, orderOnceFlag' = orderOnceFlag, articleListByCluster' = articleListByCluster,
         NEW t \in Threads, NEW b, b.op # "list", \A u \in Threads : act'[u] = IF u = t THEN b ELSE act[u]
  PROVE  ListInv'
<1>1. StartUserEntry' = StartUserEntry /\ EndUserEntry' = EndUserEntry
  BY UserFixed
<1>2. \A n : ListUpTo(n)' = ListUpTo(n)
  BY OrderFixed
<1>3. ListUpTo(EndUserEntry)' = ListUpTo(EndUserEntry)
  BY <1>1, <1>2
<1>4. ASSUME NEW u \in Threads, act'[u].op = "list"
      PROVE  /\ orderOnceFlag' = u /\ act'[u].n \in StartUserEntry' .. EndUserEntry'
             /\ articleListByCluster' = ListUpTo(act[u].n)'
  <2>1. act'[u] = act[u]
    BY <1>4
  <2>2. orderOnceFlag = u /\ act[u].n \in StartUserEntry .. EndUserEntry /\ articleListByCluster = ListUpTo(act[u].n)
    BY <1>4, <2>1 DEF ListInv
  <2>3. ListUpTo(act[u].n)' = ListUpTo(act[u].n)
    BY <1>2, <2>1
  <2> QED
    BY <1>1, <2>1, <2>2, <2>3
<1>5. /\ orderOnceFlag' = "free" => articleListByCluster' = <<>>
      /\ orderOnceFlag' = "set" => articleListByCluster' = SortedList(ListUpTo(EndUserEntry)')
  BY <1>3 DEF ListInv
<1> QED
  BY <1>4, <1>5 DEF ListInv

-----------------------------------------------------------------------------
(* Each step keeps the invariant. *)

\* Any answer of another kind is right.
Other == {"idle", "main", "favicon", "check", "keys", "iterPath", "iterTitle", "itself", "metadata"}

LEMMA OtherOK == ASSUME NEW b, Record(b), b.op \in Other PROVE AnswerOK(b)
BY DEF Other, AnswerOK, PathOK, RangeOK, TitleOK, TitleRangeOK, OrderOK, OrderedOK, FollowOK, ItemOK

\* A call that is answered at once
LEMMA BeginsKeeps ==
  ASSUME ArchiveInv, NEW t \in Threads, Begins(t), NEW b, act' = [act EXCEPT ![t] = b], AnswerOK(b), b.op # "list"
  PROVE  ArchiveInv'
<1>1. arch' = arch /\ orderOnceFlag' = orderOnceFlag /\ articleListByCluster' = articleListByCluster
  BY DEF Begins
<1>2. AnswersInv' /\ \A u \in Threads : act'[u] = IF u = t THEN b ELSE act[u]
  BY <1>1, OneAnswers DEF ArchiveInv
<1>3. ListInv'
  BY <1>1, <1>2, ListKept DEF ArchiveInv
<1> QED
  BY <1>1, <1>2, <1>3 DEF ArchiveInv

\* The records that calls leave behind
EntryRec(op, arg, found, n) == [Idle EXCEPT !.op = op, !.arg = arg, !.found = found, !.n = n]
RangeRec(op, arg, begin, end) == [Idle EXCEPT !.op = op, !.arg = arg, !.begin = begin, !.end = end]

LEMMA EntryRecord ==
  \A op, arg, found, n : LET b == EntryRec(op, arg, found, n)
                         IN  Record(b) /\ b.op = op /\ b.arg = arg /\ b.found = found /\ b.n = n
<1> TAKE op, arg, found, n
<1>0. PICK b : b = EntryRec(op, arg, found, n)
  OBVIOUS
<1>1. b = [op |-> op, arg |-> arg, n |-> n, found |-> found, begin |-> 0, end |-> 0]
  BY <1>0 DEF EntryRec, Idle
<1>2. Record(b) /\ b.op = op /\ b.arg = arg /\ b.found = found /\ b.n = n
  BY <1>1 DEF Record
<1> QED
  BY <1>0, <1>2

LEMMA RangeRecord ==
  \A op, arg, begin, end : LET b == RangeRec(op, arg, begin, end)
                           IN  Record(b) /\ b.op = op /\ b.arg = arg /\ b.begin = begin /\ b.end = end
<1> TAKE op, arg, begin, end
<1>0. PICK b : b = RangeRec(op, arg, begin, end)
  OBVIOUS
<1>1. b = [op |-> op, arg |-> arg, n |-> 0, found |-> FALSE, begin |-> begin, end |-> end]
  BY <1>0 DEF RangeRec, Idle
<1>2. Record(b) /\ b.op = op /\ b.arg = arg /\ b.begin = begin /\ b.end = end
  BY <1>1 DEF Record
<1> QED
  BY <1>0, <1>2

LEMMA OtherEntry ==
  ASSUME ArchiveInv, NEW t \in Threads, NEW op \in Other, NEW arg, NEW r, AnswerEntry(t, op, arg, r)
  PROVE  ArchiveInv'
<1>1. PICK b : b = EntryRec(op, arg, r.found, r.index)
  OBVIOUS
<1>2. Record(b) /\ b.op = op
  BY <1>1, EntryRecord
<1>3. AnswerOK(b) /\ b.op # "list"
  BY <1>2, OtherOK DEF Other
<1>4. Begins(t) /\ act' = [act EXCEPT ![t] = b]
  BY <1>1 DEF AnswerEntry, EntryRec
<1> QED
  BY <1>3, <1>4, BeginsKeeps

LEMMA OtherRange ==
  ASSUME ArchiveInv, NEW t \in Threads, NEW op \in Other, NEW arg, NEW r, AnswerRange(t, op, arg, r)
  PROVE  ArchiveInv'
<1>1. PICK b : b = RangeRec(op, arg, r.begin, r.end)
  OBVIOUS
<1>2. Record(b) /\ b.op = op
  BY <1>1, RangeRecord
<1>3. AnswerOK(b) /\ b.op # "list"
  BY <1>2, OtherOK DEF Other
<1>4. Begins(t) /\ act' = [act EXCEPT ![t] = b]
  BY <1>1 DEF AnswerRange, RangeRec
<1> QED
  BY <1>3, <1>4, BeginsKeeps

LEMMA ByPathKeeps ==
  ASSUME ArchiveInv, NEW t \in Threads, NEW p, GetEntryByPath(t, p)
  PROVE  ArchiveInv'
<1>1. PICK b : b = EntryRec("byPath", p, EntryByPath(p).found, EntryByPath(p).index)
  OBVIOUS
<1>2. Record(b) /\ b.op = "byPath" /\ b.arg = p /\ b.found = EntryByPath(p).found /\ b.n = EntryByPath(p).index
  BY <1>1, EntryRecord
<1>3. arch \in Archives
  BY DEF ArchiveInv
<1>4. ASSUME NEW i \in UserEntries, p = getPath(i) PROVE EntryByPath(p).found /\ EntryByPath(p).index = i
  BY <1>3, <1>4, OwnPath
<1>5. PathOK(b)
  BY <1>2, <1>4, Zenon DEF PathOK
<1>6. AnswerOK(b)
  BY <1>2, <1>5 DEF AnswerOK, RangeOK, TitleOK, TitleRangeOK, OrderOK, OrderedOK, FollowOK, ItemOK
<1>7. Begins(t) /\ act' = [act EXCEPT ![t] = b]
  BY <1>1 DEF GetEntryByPath, AnswerEntry, EntryRec
<1> QED
  BY <1>2, <1>6, <1>7, BeginsKeeps

LEMMA QueryFacts == \A s \in Paths \cup Titles : s \in Str /\ \A i \in 1 .. Len(s) : s[i] < CharMax
<1> SUFFICES ASSUME NEW s \in Paths \cup Titles PROVE s \in Str /\ \A i \in 1 .. Len(s) : s[i] < CharMax
  OBVIOUS
<1>1. s \in Seq(0 .. CharMax - 1)
  BY QueriesAssumption
<1>2. 0 .. CharMax - 1 \subseteq Nat /\ \A c \in 0 .. CharMax - 1 : c < CharMax
  BY DEF CharMax
<1>3. \A i \in 1 .. Len(s) : s[i] \in 0 .. CharMax - 1
  <2>1. PICK C : C = 0 .. CharMax - 1
    OBVIOUS
  <2>2. s \in Seq(C)
    BY <1>1, <2>1, Zenon
  <2>3. \A i \in 1 .. Len(s) : s[i] \in C
    BY <2>2
  <2> QED
    BY <2>1, <2>3, Zenon
<1>4. s \in Seq(Nat)
  <2>1. Len(s) \in Nat /\ s = [i \in 1 .. Len(s) |-> s[i]]
    BY <1>1
  <2>2. \A i \in 1 .. Len(s) : s[i] \in Nat
    BY <1>2, <1>3, Zenon
  <2> QED
    BY <2>1, <2>2
<1> QED
  BY <1>2, <1>3, <1>4, Zenon DEF Str

LEMMA PathRangeKeeps ==
  ASSUME ArchiveInv, NEW t \in Threads, NEW p \in Paths, FindByPath(t, p)
  PROVE  ArchiveInv'
<1>1. PICK b : b = RangeRec("pathRange", p, RangeByPath(p).begin, RangeByPath(p).end)
  OBVIOUS
<1>2. /\ Record(b) /\ b.op = "pathRange" /\ b.arg = p
      /\ b.begin = RangeByPath(p).begin /\ b.end = RangeByPath(p).end
  BY <1>1, RangeRecord
<1>3. arch \in Archives /\ p \in Str /\ \A i \in 1 .. Len(p) : p[i] < CharMax
  BY QueryFacts DEF ArchiveInv
<1>4. RangeByPath(p).begin .. RangeByPath(p).end - 1 = {i \in UserEntries : HasPrefix(i, p)}
  BY <1>3, RangeExact
<1>5. RangeOK(b)
  BY <1>2, <1>4, Zenon DEF RangeOK, Between
<1>6. AnswerOK(b)
  BY <1>2, <1>5 DEF AnswerOK, PathOK, TitleOK, TitleRangeOK, OrderOK, OrderedOK, FollowOK, ItemOK
<1>7. Begins(t) /\ act' = [act EXCEPT ![t] = b]
  BY <1>1 DEF FindByPath, AnswerRange, RangeRec
<1> QED
  BY <1>2, <1>6, <1>7, BeginsKeeps

LEMMA ByTitleKeeps ==
  ASSUME ArchiveInv, NEW t \in Threads, NEW title \in Titles, GetEntryByTitle(t, title)
  PROVE  ArchiveInv'
<1>1. PICK b : b = EntryRec("byTitle", title, EntryByTitle(title).found, EntryByTitle(title).index)
  OBVIOUS
<1>2. /\ Record(b) /\ b.op = "byTitle" /\ b.arg = title
      /\ b.found = EntryByTitle(title).found /\ b.n = EntryByTitle(title).index
  BY <1>1, EntryRecord
<1>3. arch \in Archives /\ title \in Str
  BY QueryFacts DEF ArchiveInv
<1>4. ASSUME CheckTitleIndex
      PROVE  /\ EntryByTitle(title).found <=> NamedSo(title) # {}
             /\ EntryByTitle(title).found => EntryByTitle(title).index \in NamedSo(title)
  BY <1>3, <1>4, TitleEntryExact
<1>5. TitleOK(b)
  BY <1>2, <1>4, Zenon DEF TitleOK
<1>6. AnswerOK(b)
  BY <1>2, <1>5 DEF AnswerOK, PathOK, RangeOK, TitleRangeOK, OrderOK, OrderedOK, FollowOK, ItemOK
<1>7. Begins(t) /\ act' = [act EXCEPT ![t] = b]
  BY <1>1 DEF GetEntryByTitle, AnswerEntry, EntryRec
<1> QED
  BY <1>2, <1>6, <1>7, BeginsKeeps

LEMMA TitleRangeKeeps ==
  ASSUME ArchiveInv, NEW t \in Threads, NEW title \in Titles, FindByTitle(t, title)
  PROVE  ArchiveInv'
<1>1. PICK b : b = RangeRec("titleRange", title, RangeByTitle(title).begin, RangeByTitle(title).end)
  OBVIOUS
<1>2. /\ Record(b) /\ b.op = "titleRange" /\ b.arg = title
      /\ b.begin = RangeByTitle(title).begin /\ b.end = RangeByTitle(title).end
  BY <1>1, RangeRecord
<1>3. arch \in Archives /\ title \in Str /\ title # <<>>
  BY QueryFacts DEF ArchiveInv, FindByTitle
<1>c. title[Len(title)] < CharMax
  <2>1. Len(title) \in 1 .. Len(title)
    BY <1>3 DEF Str
  <2> QED
    BY <2>1, QueryFacts
<1>4. ASSUME CheckTitleIndex
      PROVE  /\ RangeByTitle(title).begin .. RangeByTitle(title).end - 1 \subseteq 0 .. TitleCount - 1
             /\ \A j \in 0 .. TitleCount - 1 : ~ AmongTwins(j, title) =>
                  (j \in RangeByTitle(title).begin .. RangeByTitle(title).end - 1 <=> Titled(j, title))
  BY <1>3, <1>4, <1>c, TitleRangeExact
<1>5. TitleRangeOK(b)
  BY <1>2, <1>4, Zenon DEF TitleRangeOK, Between
<1>6. AnswerOK(b)
  BY <1>2, <1>5 DEF AnswerOK, PathOK, RangeOK, TitleOK, OrderOK, OrderedOK, FollowOK, ItemOK
<1>7. Begins(t) /\ act' = [act EXCEPT ![t] = b]
  BY <1>1 DEF FindByTitle, AnswerRange, RangeRec
<1> QED
  BY <1>2, <1>6, <1>7, BeginsKeeps

\* getItem starts on the chain.
LEMMA ItemOfKeeps ==
  ASSUME ArchiveInv, NEW t \in Threads, NEW i, ItemOf(t, i)
  PROVE  ArchiveInv'
<1>0. Watchdog \in Nat /\ Watchdog >= 1
  BY WatchdogAssumption
<1>c. PICK c : c = Chain(i)
  OBVIOUS
<1>1. c[0] = i /\ c[1] = IF isRedirect(i) THEN Dirent(i).target ELSE i
  <2>1. 0 \in 0 .. Watchdog /\ 1 \in 0 .. Watchdog /\ 1 - 1 = 0 /\ 1 # 0
    BY <1>0
  <2>2. c[0] = HopStep(i, c, 0) /\ c[1] = HopStep(i, c, 1)
    BY <1>c, <2>1, ChainFacts, Zenon
  <2>3. c[0] = i
    BY <2>2, Zenon DEF HopStep
  <2> QED
    BY <2>1, <2>2, <2>3, Zenon DEF HopStep
<1>2. CASE isRedirect(i)
  <2>1. PICK b : b = [Idle EXCEPT !.op = "follow", !.begin = i, !.n = Dirent(i).target, !.end = Watchdog]
    OBVIOUS
  <2>2. b = [op |-> "follow", arg |-> <<>>, n |-> Dirent(i).target, found |-> FALSE, begin |-> i, end |-> Watchdog]
    BY <2>1 DEF Idle
  <2>3. Record(b) /\ b.op = "follow" /\ b.n = Dirent(i).target /\ b.begin = i /\ b.end = Watchdog
    BY <2>2 DEF Record
  <2>4. Watchdog - b.end + 1 = 1 /\ b.end \in 1 .. Watchdog
    BY <1>0, <2>3
  <2>5. FollowOK(b)
    BY <1>c, <1>1, <1>2, <2>3, <2>4, Zenon DEF FollowOK
  <2>6. AnswerOK(b)
    BY <2>3, <2>5 DEF AnswerOK, PathOK, RangeOK, TitleOK, TitleRangeOK, OrderOK, OrderedOK, ItemOK
  <2>7. Begins(t) /\ act' = [act EXCEPT ![t] = b]
    BY <1>2, <2>1 DEF ItemOf
  <2> QED
    BY <2>3, <2>6, <2>7, BeginsKeeps
<1>3. CASE ~ isRedirect(i)
  <2>1. PICK b : b = [Idle EXCEPT !.op = "item", !.begin = i, !.n = i, !.found = TRUE]
    OBVIOUS
  <2>2. b = [op |-> "item", arg |-> <<>>, n |-> i, found |-> TRUE, begin |-> i, end |-> 0]
    BY <2>1 DEF Idle
  <2>3. Record(b) /\ b.op = "item" /\ b.n = i /\ b.begin = i /\ b.found = TRUE
    BY <2>2 DEF Record
  <2>4. c[Watchdog] = i
    <3>1. 0 \in 0 .. Watchdog
      BY <1>0
    <3>2. ~ isRedirect(Chain(i)[0])
      BY <1>c, <1>1, <1>3, Zenon
    <3>3. Chain(i)[Watchdog] = Chain(i)[0]
      BY <3>1, <3>2, ChainEnds, Zenon
    <3> QED
      BY <1>c, <1>1, <3>3, Zenon
  <2>5. ItemOK(b)
    BY <1>c, <1>3, <2>3, <2>4, Zenon DEF ItemOK
  <2>6. AnswerOK(b)
    BY <2>3, <2>5 DEF AnswerOK, PathOK, RangeOK, TitleOK, TitleRangeOK, OrderOK, OrderedOK, FollowOK
  <2>7. Begins(t) /\ act' = [act EXCEPT ![t] = b]
    BY <1>3, <2>1 DEF ItemOf
  <2> QED
    BY <2>3, <2>6, <2>7, BeginsKeeps
<1> QED
  BY <1>2, <1>3

LEMMA MetadataKeeps ==
  ASSUME ArchiveInv, NEW t \in Threads, NEW name, GetMetadata(t, name)
  PROVE  ArchiveInv'
<1>1. PICK r : r = findx(NsM, name)
  OBVIOUS
<1>2. CASE r.found
  <2>1. ItemOf(t, r.index)
    BY <1>1, <1>2 DEF GetMetadata
  <2> QED
    BY <2>1, ItemOfKeeps
<1>3. CASE ~ r.found
  <2>1. AnswerEntry(t, "metadata", name, r)
    BY <1>1, <1>3 DEF GetMetadata
  <2>2. "metadata" \in Other
    BY DEF Other
  <2> QED
    BY <2>1, <2>2, OtherEntry
<1> QED
  BY <1>2, <1>3

LEMMA OrderCallKeeps ==
  ASSUME ArchiveInv, NEW t \in Threads, NEW n, GetEntryByClusterOrder(t, n)
  PROVE  ArchiveInv'
<1>1. PICK b : b = [Idle EXCEPT !.op = "order", !.begin = n]
  OBVIOUS
<1>2. b = [op |-> "order", arg |-> <<>>, n |-> 0, found |-> FALSE, begin |-> n, end |-> 0]
  BY <1>1 DEF Idle
<1>3. Record(b) /\ b.op = "order" /\ b.begin = n
  BY <1>2 DEF Record
<1>4. n \in Nat
  BY ArchFacts DEF ArchiveInv, GetEntryByClusterOrder
<1>5. OrderOK(b)
  BY <1>3, <1>4 DEF OrderOK
<1>6. AnswerOK(b)
  BY <1>3, <1>5 DEF AnswerOK, PathOK, RangeOK, TitleOK, TitleRangeOK, OrderedOK, FollowOK, ItemOK
<1>7. Begins(t) /\ act' = [act EXCEPT ![t] = b]
  BY <1>1 DEF GetEntryByClusterOrder
<1> QED
  BY <1>3, <1>6, <1>7, BeginsKeeps

\* A step of a call that leaves the list alone
LEMMA StepKeeps ==
  ASSUME ArchiveInv, NEW t \in Threads, NEW b, act' = [act EXCEPT ![t] = b], AnswerOK(b), b.op # "list",
         UNCHANGED <<arch, orderOnceFlag, articleListByCluster>>
  PROVE  ArchiveInv'
<1>1. AnswersInv' /\ \A u \in Threads : act'[u] = IF u = t THEN b ELSE act[u]
  BY OneAnswers DEF ArchiveInv
<1>2. ListInv'
  BY <1>1, ListKept DEF ArchiveInv
<1> QED
  BY <1>1, <1>2 DEF ArchiveInv

LEMMA CallFacts ==
  ASSUME ArchiveInv, NEW t \in Threads
  PROVE  AnswerOK(act[t]) /\ Record(act[t]) /\ arch \in Archives
BY DEF ArchiveInv, AnswersInv, AnswerOK

\* One turn of getRedirect is one step along the chain.
LEMMA FollowKeeps ==
  ASSUME ArchiveInv, NEW t \in Threads, Follow(t)
  PROVE  ArchiveInv'
<1>0. Watchdog \in Nat /\ Watchdog >= 1
  BY WatchdogAssumption
<1>1. PICK a : a = act[t]
  OBVIOUS
<1>2. a.op = "follow" /\ AnswerOK(a) /\ Record(a)
  BY <1>1, CallFacts DEF Follow
<1>3. PICK c, w : c = Chain(a.begin) /\ w = a.end
  BY Zenon
<1>4. w \in 1 .. Watchdog /\ a.n = c[Watchdog - w + 1]
  BY <1>2, <1>3, Zenon DEF AnswerOK, FollowOK
<1>5. Watchdog - w + 1 \in 0 .. Watchdog
  BY <1>0, <1>4
<1>6. CASE isRedirect(a.n) /\ Watched(w)
  <2>1. PICK b : b = [a EXCEPT !.n = Dirent(a.n).target, !.end = w - 1]
    OBVIOUS
  <2>2. b = [op |-> a.op, arg |-> a.arg, n |-> Dirent(a.n).target, found |-> a.found, begin |-> a.begin, end |-> w - 1]
    BY <1>2, <2>1 DEF Record
  <2>3. Record(b) /\ b.op = "follow" /\ b.n = Dirent(a.n).target /\ b.begin = a.begin /\ b.end = w - 1
    BY <1>2, <2>2 DEF Record
  <2>4. w - 1 \in 1 .. Watchdog
    BY <1>0, <1>4, <1>6 DEF Watched
  <2>5. PICK k : k = Watchdog - (w - 1) + 1
    OBVIOUS
  <2>6. k \in 0 .. Watchdog /\ k # 0 /\ k - 1 = Watchdog - w + 1
    BY <1>0, <1>4, <2>4, <2>5
  <2>7. c[k] = HopStep(a.begin, c, k)
    BY <1>3, <2>6, ChainFacts, Zenon
  <2>8. c[k - 1] = a.n
    BY <1>4, <2>6, Zenon
  <2>9. c[k] = Dirent(a.n).target
    <3>1. isRedirect(c[k - 1])
      BY <1>6, <2>8, Zenon
    <3>2. c[k] = Dirent(c[k - 1]).target
      BY <2>6, <2>7, <3>1, Zenon DEF HopStep
    <3> QED
      BY <2>8, <3>2, Zenon
  <2>10. FollowOK(b)
    BY <1>3, <2>3, <2>4, <2>5, <2>9, Zenon DEF FollowOK
  <2>11. AnswerOK(b)
    BY <2>3, <2>10 DEF AnswerOK, PathOK, RangeOK, TitleOK, TitleRangeOK, OrderOK, OrderedOK, ItemOK
  <2>12. act' = [act EXCEPT ![t] = b] /\ UNCHANGED <<arch, orderOnceFlag, articleListByCluster>>
    BY <1>1, <1>3, <1>6, <2>1 DEF Follow
  <2> QED
    BY <2>3, <2>11, <2>12, StepKeeps
<1>7. CASE ~ (isRedirect(a.n) /\ Watched(w))
  <2>1. PICK b : b = [a EXCEPT !.op = "item", !.found = ~ isRedirect(a.n)]
    OBVIOUS
  <2>f. PICK f \in BOOLEAN : f = (~ isRedirect(a.n))
    BY Zenon
  <2>2. b = [op |-> "item", arg |-> a.arg, n |-> a.n, found |-> f, begin |-> a.begin, end |-> a.end]
    <3>1. b = [a EXCEPT !.op = "item", !.found = f]
      BY <2>1, <2>f, Zenon
    <3> QED
      BY <1>2, <3>1 DEF Record
  <2>3. Record(b) /\ b.op = "item" /\ b.n = a.n /\ b.begin = a.begin /\ b.found = f
    BY <2>2 DEF Record
  <2>6. ItemOK(b)
    <3>4. CASE isRedirect(a.n)
      <4>1. w = 1
        BY <1>0, <1>4, <1>7, <3>4 DEF Watched
      <4>2. Watchdog - w + 1 = Watchdog
        BY <1>0, <4>1
      <4>3. a.n = c[Watchdog]
        BY <1>4, <4>2, Zenon
      <4> QED
        BY <1>3, <2>3, <3>4, <2>f, <4>3, Zenon DEF ItemOK
    <3>5. CASE ~ isRedirect(a.n)
      <4>1. PICK k \in 0 .. Watchdog : k = Watchdog - w + 1
        BY <1>5
      <4>2. ~ isRedirect(Chain(a.begin)[k])
        BY <1>3, <1>4, <3>5, <4>1, Zenon
      <4>3. Chain(a.begin)[Watchdog] = Chain(a.begin)[k]
        BY <4>2, ChainEnds, Zenon
      <4>4. c[Watchdog] = a.n
        BY <1>3, <1>4, <4>1, <4>3, Zenon
      <4> QED
        BY <1>3, <2>3, <3>5, <2>f, <4>4, Zenon DEF ItemOK
    <3> QED
      BY <3>4, <3>5
  <2>7. AnswerOK(b)
    BY <2>3, <2>6 DEF AnswerOK, PathOK, RangeOK, TitleOK, TitleRangeOK, OrderOK, OrderedOK, FollowOK
  <2>8. act' = [act EXCEPT ![t] = b] /\ UNCHANGED <<arch, orderOnceFlag, articleListByCluster>>
    BY <1>1, <1>3, <1>7, <2>1, Zenon DEF Follow
  <2> QED
    BY <2>3, <2>7, <2>8, StepKeeps
<1> QED
  BY <1>6, <1>7

LEMMA AnsweredKeeps ==
  ASSUME ArchiveInv, NEW t \in Threads, Answered(t)
  PROVE  ArchiveInv'
<1>1. Record(Idle) /\ Idle.op = "idle"
  BY DEF Record, Idle
<1>2. "idle" \in Other
  BY DEF Other
<1>3. AnswerOK(Idle)
  BY <1>1, <1>2, OtherOK
<1>4. act' = [act EXCEPT ![t] = Idle] /\ UNCHANGED <<arch, orderOnceFlag, articleListByCluster>>
  BY DEF Answered
<1> QED
  BY <1>1, <1>3, <1>4, StepKeeps

\* A thread that is in the middle of making the list, with n still to come
Moved(a, op, n) == [op |-> op, arg |-> a.arg, n |-> n, found |-> a.found, begin |-> a.begin, end |-> a.end]
LEMMA ListingOK ==
  ASSUME NEW a, AnswerOK(a), a.op \in {"order", "list"}, NEW op \in {"order", "list"}, NEW n
  PROVE  AnswerOK(Moved(a, op, n)) /\ Moved(a, op, n).op = op /\ Moved(a, op, n).n = n
<1>0. PICK b : b = Moved(a, op, n)
  OBVIOUS
<1>1. Record(a) /\ a.begin \in Nat
  BY DEF AnswerOK, OrderOK
<1>3. Record(b) /\ b.op = op /\ b.n = n /\ b.begin \in Nat
  BY <1>0, <1>1 DEF Record, Moved
<1>4. OrderOK(b)
  BY <1>3 DEF OrderOK
<1>5. AnswerOK(b)
  BY <1>3, <1>4 DEF AnswerOK, PathOK, RangeOK, TitleOK, TitleRangeOK, OrderedOK, FollowOK, ItemOK
<1> QED
  BY <1>0, <1>3, <1>5, Zenon

LEMMA FieldsChanged ==
  ASSUME AnswersInv, NEW t \in Threads, NEW op, NEW n, act' = [act EXCEPT ![t].op = op, ![t].n = n]
  PROVE  act' = [act EXCEPT ![t] = [act[t] EXCEPT !.op = op, !.n = n]]
<1>1. act = [u \in Threads |-> act[u]] /\ Record(act[t])
  BY DEF AnswersInv, AnswerOK
<1> QED
  BY <1>1 DEF Record

\* The list grows by the next entry.
LEMMA ListGrows ==
  ASSUME arch \in Archives, NEW n \in StartUserEntry .. EndUserEntry - 1
  PROVE  Append(ListUpTo(n), PairAt(n)) = ListUpTo(n + 1)
<1>1. PICK m \in Nat : m = StartUserEntry
  BY UserFacts
<1>2. n \in Nat /\ n >= m
  BY <1>1, UserFacts
<1>3. PICK s : s = ListUpTo(n)
  OBVIOUS
<1>4. s = [h \in 1 .. n - m |-> PairAt(m + h - 1)]
  BY <1>1, <1>3, Zenon DEF ListUpTo
<1>5. PICK r : r = ListUpTo(n + 1)
  OBVIOUS
<1>6. r = [h \in 1 .. n + 1 - m |-> PairAt(m + h - 1)]
  <2>1. PICK q : q = n + 1
    OBVIOUS
  <2>2. r = [h \in 1 .. q - m |-> PairAt(m + h - 1)]
    BY <1>1, <1>5, <2>1, Zenon DEF ListUpTo
  <2> QED
    BY <2>1, <2>2
<1>7. Len(s) = n - m /\ n - m \in Nat
  BY <1>2, <1>4
<1>8. Append(s, PairAt(n)) = [h \in 1 .. Len(s) + 1 |-> IF h = Len(s) + 1 THEN PairAt(n) ELSE s[h]]
  <2>1. s \in Seq({PairAt(j) : j \in Nat})
    <3>1. \A h \in 1 .. n - m : m + h - 1 \in Nat
      BY <1>2
    <3>2. \A h \in 1 .. n - m : PairAt(m + h - 1) \in {PairAt(j) : j \in Nat}
      BY <3>1, Zenon
    <3> QED
      BY <1>4, <1>7, <3>2, IsASeq
  <2>2. PairAt(n) \in {PairAt(j) : j \in Nat}
    BY <1>2, Zenon
  <2> QED
    <3>1. PICK S : S = {PairAt(j) : j \in Nat}
      OBVIOUS
    <3>2. s \in Seq(S) /\ PairAt(n) \in S
      BY <2>1, <2>2, <3>1, Zenon
    <3>3. PICK x \in S : x = PairAt(n)
      BY <3>2, Zenon
    <3>4. Append(s, x) = [h \in 1 .. Len(s) + 1 |-> IF h = Len(s) + 1 THEN x ELSE s[h]]
      <4>1. PICK c : c = Append(s, x)
        OBVIOUS
      <4>2. c \in Seq(S) /\ Len(c) = Len(s) + 1
        BY <3>2, <4>1, AppendProperties
      <4>3. c = [h \in 1 .. Len(c) |-> c[h]]
        BY <4>2
      <4>4. ASSUME NEW h \in 1 .. Len(s) + 1
            PROVE  c[h] = IF h = Len(s) + 1 THEN x ELSE s[h]
        BY <3>2, <4>1, AppendProperties, LenProperties
      <4> QED
        BY <4>1, <4>2, <4>3, <4>4, Zenon
    <3> QED
      BY <3>3, <3>4, Zenon
<1>9. 1 .. Len(s) + 1 = 1 .. n + 1 - m
  BY <1>2, <1>7
<1>10. ASSUME NEW h \in 1 .. n + 1 - m
       PROVE  (IF h = Len(s) + 1 THEN PairAt(n) ELSE s[h]) = PairAt(m + h - 1)
  <2>1. CASE h = Len(s) + 1
    <3>1. m + h - 1 = n
      BY <1>2, <1>7, <2>1
    <3> QED
      BY <2>1, <3>1, Zenon
  <2>2. CASE h # Len(s) + 1
    <3>1. h \in 1 .. n - m
      BY <1>2, <1>7, <2>2
    <3>2. s[h] = PairAt(m + h - 1)
      BY <1>4, <3>1, Zenon
    <3> QED
      BY <2>2, <3>2, Zenon
  <2> QED
    BY <2>1, <2>2
<1>11. [h \in 1 .. Len(s) + 1 |-> IF h = Len(s) + 1 THEN PairAt(n) ELSE s[h]] = r
  BY <1>6, <1>9, <1>10, Zenon
<1> QED
  BY <1>3, <1>5, <1>8, <1>11, Zenon

LEMMA NothingListed == ASSUME arch \in Archives PROVE ListUpTo(StartUserEntry) = <<>>
<1>1. StartUserEntry \in Nat
  BY UserFacts
<1>2. 1 .. StartUserEntry - StartUserEntry = {}
  BY <1>1
<1> QED
  BY <1>2 DEF ListUpTo

\* The thread that is in call_once is the only one that makes the list.
LEMMA OnlyMaker ==
  ASSUME ArchiveInv, NEW t \in Threads, act[t].op = "list", NEW u \in Threads, u # t
  PROVE  act[u].op # "list"
BY DEF ArchiveInv, ListInv

LEMMA StartOrderKeeps ==
  ASSUME ArchiveInv, NEW t \in Threads, StartOrder(t)
  PROVE  ArchiveInv'
<1>1. PICK a, b : a = act[t] /\ b = [act[t] EXCEPT !.op = "list", !.n = StartUserEntry]
  BY Zenon
<1>2. AnswerOK(a) /\ a.op = "order" /\ orderOnceFlag = "free" /\ arch \in Archives
  BY <1>1, CallFacts DEF StartOrder
<1>3. AnswerOK(b) /\ b.op = "list" /\ b.n = StartUserEntry
  <2>1. PICK op, n : op = "list" /\ n = StartUserEntry
    OBVIOUS
  <2>2. b = [a EXCEPT !.op = op, !.n = n]
    BY <1>1, <2>1, Zenon
  <2>3. a.op \in {"order", "list"} /\ op \in {"order", "list"}
    BY <1>2, <2>1
  <2>4. Record(a)
    BY <1>2 DEF AnswerOK
  <2>5. b = [op |-> op, arg |-> a.arg, n |-> n, found |-> a.found, begin |-> a.begin, end |-> a.end]
    BY <2>2, <2>4 DEF Record
  <2>6. AnswerOK(Moved(a, op, n)) /\ Moved(a, op, n).op = op /\ Moved(a, op, n).n = n
    BY <1>2, <2>3, ListingOK
  <2> QED
    BY <1>1, <2>1, <2>5, <2>6, Zenon DEF Moved
<1>4. act' = [act EXCEPT ![t] = b]
  BY <1>1, FieldsChanged DEF StartOrder, ArchiveInv
<1>5. arch' = arch /\ orderOnceFlag' = t /\ articleListByCluster' = articleListByCluster
  BY DEF StartOrder
<1>6. AnswersInv' /\ \A u \in Threads : act'[u] = IF u = t THEN b ELSE act[u]
  BY <1>3, <1>4, <1>5, OneAnswers DEF ArchiveInv
<1>7. articleListByCluster' = ListUpTo(StartUserEntry)
  BY <1>2, <1>5, NothingListed DEF ArchiveInv, ListInv
<1>8. \A u \in Threads : act[u].op # "list"
  BY <1>2, ThreadsAssumption DEF ArchiveInv, ListInv
<1>9. StartUserEntry \in StartUserEntry .. EndUserEntry
  BY <1>2, UserFacts
<1>10. StartUserEntry' = StartUserEntry /\ EndUserEntry' = EndUserEntry /\ \A n : ListUpTo(n)' = ListUpTo(n)
  BY <1>5, UserFixed, OrderFixed
<1>11. ASSUME NEW u \in Threads, act'[u].op = "list"
       PROVE  /\ orderOnceFlag' = u /\ act'[u].n \in StartUserEntry' .. EndUserEntry'
              /\ articleListByCluster' = ListUpTo(act[u].n)'
  <2>1. u = t /\ act'[u] = b
    BY <1>6, <1>8, <1>11
  <2>2. act'[u].n = StartUserEntry
    BY <1>3, <2>1
  <2>3. ListUpTo(act[u].n)' = ListUpTo(StartUserEntry)
    BY <1>10, <2>2
  <2> QED
    BY <1>5, <1>7, <1>9, <1>10, <2>1, <2>2, <2>3
<1>12. ListInv'
  BY <1>5, <1>11, ThreadsAssumption DEF ListInv
<1> QED
  BY <1>2, <1>5, <1>6, <1>12 DEF ArchiveInv

LEMMA ListEntryKeeps ==
  ASSUME ArchiveInv, NEW t \in Threads, ListEntry(t)
  PROVE  ArchiveInv'
<1>1. PICK a, i, b : a = act[t] /\ i = act[t].n /\ b = [act[t] EXCEPT !.op = "list", !.n = act[t].n + 1]
  BY Zenon
<1>2. AnswerOK(a) /\ Record(a) /\ a.op = "list" /\ arch \in Archives
  BY <1>1, CallFacts DEF ListEntry
<1>3. AnswerOK(b) /\ b.op = "list" /\ b.n = i + 1
  <2>1. PICK op, n : op = "list" /\ n = act[t].n + 1
    OBVIOUS
  <2>2. b = [a EXCEPT !.op = op, !.n = n]
    BY <1>1, <2>1, Zenon
  <2>3. a.op \in {"order", "list"} /\ op \in {"order", "list"}
    BY <1>2, <2>1
  <2>4. Record(a)
    BY <1>2 DEF AnswerOK
  <2>5. b = [op |-> op, arg |-> a.arg, n |-> n, found |-> a.found, begin |-> a.begin, end |-> a.end]
    BY <2>2, <2>4 DEF Record
  <2>6. AnswerOK(Moved(a, op, n)) /\ Moved(a, op, n).op = op /\ Moved(a, op, n).n = n
    BY <1>2, <2>3, ListingOK
  <2> QED
    BY <1>1, <2>1, <2>5, <2>6, Zenon DEF Moved
<1>4. act' = [act EXCEPT ![t] = b]
  <2>1. act = [u \in Threads |-> act[u]]
    BY DEF ArchiveInv, AnswersInv
  <2>2. act' = [act EXCEPT ![t].n = i + 1]
    BY <1>1 DEF ListEntry
  <2>3. [act[t] EXCEPT !.n = i + 1] = b
    BY <1>1, <1>2 DEF Record
  <2> QED
    BY <2>1, <2>2, <2>3
<1>5. arch' = arch /\ orderOnceFlag' = orderOnceFlag
  BY DEF ListEntry
<1>6. AnswersInv' /\ \A u \in Threads : act'[u] = IF u = t THEN b ELSE act[u]
  BY <1>3, <1>4, <1>5, OneAnswers DEF ArchiveInv
<1>7. /\ orderOnceFlag = t /\ i \in StartUserEntry .. EndUserEntry /\ articleListByCluster = ListUpTo(i)
      /\ i < EndUserEntry
  BY <1>1, <1>2 DEF ArchiveInv, ListInv, ListEntry
<1>8. i \in StartUserEntry .. EndUserEntry - 1 /\ i + 1 \in StartUserEntry .. EndUserEntry
  BY <1>2, <1>7, UserFacts
<1>9. articleListByCluster' = ListUpTo(i + 1)
  <2>1. articleListByCluster' = Append(articleListByCluster, PairAt(i))
    BY <1>1 DEF ListEntry, PairAt, ClusterOf
  <2> QED
    BY <1>2, <1>7, <1>8, <2>1, ListGrows
<1>10. StartUserEntry' = StartUserEntry /\ EndUserEntry' = EndUserEntry /\ \A n : ListUpTo(n)' = ListUpTo(n)
  BY <1>5, UserFixed, OrderFixed
<1>11. ASSUME NEW u \in Threads, act'[u].op = "list"
       PROVE  /\ orderOnceFlag' = u /\ act'[u].n \in StartUserEntry' .. EndUserEntry'
              /\ articleListByCluster' = ListUpTo(act[u].n)'
  <2>1. u = t /\ act'[u] = b
    BY <1>1, <1>2, <1>6, <1>11, OnlyMaker
  <2>2. act'[u].n = i + 1
    BY <1>3, <2>1
  <2>3. ListUpTo(act[u].n)' = ListUpTo(i + 1)
    BY <1>10, <2>2
  <2> QED
    BY <1>5, <1>7, <1>8, <1>9, <1>10, <2>1, <2>2, <2>3
<1>12. ListInv'
  BY <1>5, <1>7, <1>11, ThreadsAssumption DEF ListInv
<1> QED
  BY <1>2, <1>5, <1>6, <1>12 DEF ArchiveInv

LEMMA SortListKeeps ==
  ASSUME ArchiveInv, NEW t \in Threads, SortList(t)
  PROVE  ArchiveInv'
<1>1. PICK a, i, b : a = act[t] /\ i = act[t].n /\ b = [act[t] EXCEPT !.op = "order", !.n = act[t].n]
  BY Zenon
<1>2. AnswerOK(a) /\ Record(a) /\ a.op = "list" /\ arch \in Archives
  BY <1>1, CallFacts DEF SortList
<1>3. AnswerOK(b) /\ b.op = "order"
  <2>1. PICK op, n : op = "order" /\ n = act[t].n
    OBVIOUS
  <2>2. b = [a EXCEPT !.op = op, !.n = n]
    BY <1>1, <2>1, Zenon
  <2>3. a.op \in {"order", "list"} /\ op \in {"order", "list"}
    BY <1>2, <2>1
  <2>4. Record(a)
    BY <1>2 DEF AnswerOK
  <2>5. b = [op |-> op, arg |-> a.arg, n |-> n, found |-> a.found, begin |-> a.begin, end |-> a.end]
    BY <2>2, <2>4 DEF Record
  <2>6. AnswerOK(Moved(a, op, n)) /\ Moved(a, op, n).op = op /\ Moved(a, op, n).n = n
    BY <1>2, <2>3, ListingOK
  <2> QED
    BY <1>1, <2>1, <2>5, <2>6, Zenon DEF Moved
<1>4. act' = [act EXCEPT ![t] = b]
  <2>1. act = [u \in Threads |-> act[u]]
    BY DEF ArchiveInv, AnswersInv
  <2>2. act' = [act EXCEPT ![t].op = "order"]
    BY DEF SortList
  <2>3. [act[t] EXCEPT !.op = "order"] = b
    BY <1>1, <1>2 DEF Record
  <2> QED
    BY <2>1, <2>2, <2>3
<1>5. arch' = arch /\ orderOnceFlag' = "set" /\ articleListByCluster' = SortedList(articleListByCluster)
  BY DEF SortList
<1>6. AnswersInv' /\ \A u \in Threads : act'[u] = IF u = t THEN b ELSE act[u]
  BY <1>3, <1>4, <1>5, OneAnswers DEF ArchiveInv
<1>7. i \in StartUserEntry .. EndUserEntry /\ articleListByCluster = ListUpTo(i) /\ i >= EndUserEntry
  BY <1>1, <1>2 DEF ArchiveInv, ListInv, SortList
<1>8. i = EndUserEntry
  BY <1>2, <1>7, UserFacts
<1>9. articleListByCluster' = SortedList(ListUpTo(EndUserEntry))
  BY <1>5, <1>7, <1>8, Zenon
<1>10. EndUserEntry' = EndUserEntry /\ \A n : ListUpTo(n)' = ListUpTo(n)
  BY <1>5, UserFixed, OrderFixed
<1>11. ListUpTo(EndUserEntry)' = ListUpTo(EndUserEntry)
  BY <1>10
<1>12. \A u \in Threads : act'[u].op # "list"
  BY <1>1, <1>2, <1>3, <1>6, OnlyMaker
<1>13. articleListByCluster' = SortedList(ListUpTo(EndUserEntry)')
  BY <1>9, <1>11, Zenon
<1>14. ListInv'
  BY <1>5, <1>12, <1>13 DEF ListInv
<1> QED
  BY <1>2, <1>5, <1>6, <1>14 DEF ArchiveInv

LEMMA OrderedKeeps ==
  ASSUME ArchiveInv, NEW t \in Threads, IndexByClusterOrder(t)
  PROVE  ArchiveInv'
<1>1. PICK a, s, k : a = act[t] /\ s = articleListByCluster /\ k = act[t].begin
  BY Zenon
<1>2. AnswerOK(a) /\ Record(a) /\ a.op = "order" /\ arch \in Archives /\ orderOnceFlag = "set"
  BY <1>1, CallFacts DEF IndexByClusterOrder, OrderSet
<1>3. k \in Nat
  BY <1>1, <1>2 DEF AnswerOK, OrderOK
<1>4. s = SortedList(ListUpTo(EndUserEntry))
  BY <1>1, <1>2 DEF ArchiveInv, ListInv
<1>5. /\ Len(s) = EndUserEntry - StartUserEntry
      /\ \A h \in 1 .. Len(s) : s[h][2] \in UserEntries /\ Cardinality(BeforeOf(s[h][2])) = h - 1
  BY <1>2, <1>4, SortedAt
<1>6. Cardinality(UserEntries) = Len(s) /\ Len(s) \in Int
  BY <1>2, <1>5, UsersFinite, UserFacts
<1>7. PICK f : f \in BOOLEAN /\ f = (k < Len(s))
  <2>1. CASE k < Len(s)
    <3>1. TRUE = (k < Len(s))
      BY <2>1
    <3> QED
      BY <3>1, Zenon
  <2>2. CASE ~ (k < Len(s))
    <3>1. FALSE = (k < Len(s))
      BY <2>2
    <3> QED
      BY <3>1, Zenon
  <2> QED
    BY <2>1, <2>2
<1>8. PICK n : n = IF k < Len(s) THEN s[k + 1][2] ELSE 0
  OBVIOUS
<1>9. PICK b : b = [op |-> "ordered", arg |-> a.arg, n |-> n, found |-> f, begin |-> a.begin, end |-> a.end]
  OBVIOUS
<1>10. Record(b) /\ b.op = "ordered" /\ b.n = n /\ b.found = f /\ b.begin = k
  BY <1>1, <1>9 DEF Record
<1>11. ASSUME f PROVE n \in UserEntries /\ Cardinality(BeforeOf(n)) = k
  <2>1. k + 1 \in 1 .. Len(s) /\ (k + 1) - 1 = k
    <3>1. k < Len(s)
      BY <1>7, <1>11, Zenon
    <3> QED
      BY <1>3, <1>6, <3>1
  <2>2. n = s[k + 1][2]
    BY <1>7, <1>8, <1>11, Zenon
  <2> QED
    BY <1>5, <2>1, <2>2, Zenon
<1>12. OrderedOK(b)
  BY <1>6, <1>7, <1>10, <1>11, Zenon DEF OrderedOK
<1>13. AnswerOK(b)
  BY <1>10, <1>12 DEF AnswerOK, PathOK, RangeOK, TitleOK, TitleRangeOK, OrderOK, FollowOK, ItemOK
<1>14. act' = [act EXCEPT ![t] = b]
  <2>1. act = [u \in Threads |-> act[u]]
    BY DEF ArchiveInv, AnswersInv
  <2>2. act' = [act EXCEPT ![t].op = "ordered", ![t].found = f, ![t].n = n]
    BY <1>1, <1>7, <1>8, Zenon DEF IndexByClusterOrder
  <2>3. [act[t] EXCEPT !.op = "ordered", !.found = f, !.n = n] = b
    <3>1. a = [op |-> a.op, arg |-> a.arg, n |-> a.n, found |-> a.found, begin |-> a.begin, end |-> a.end]
      BY <1>2 DEF Record
    <3>2. [a EXCEPT !.op = "ordered", !.found = f, !.n = n] = b
      <4>1. PICK c : c = [a EXCEPT !.op = "ordered", !.found = f, !.n = n]
        OBVIOUS
      <4>2. c = [op |-> "ordered", arg |-> a.arg, n |-> n, found |-> f, begin |-> a.begin, end |-> a.end]
        BY <3>1, <4>1
      <4> QED
        BY <1>9, <4>1, <4>2, Zenon
    <3> QED
      BY <1>1, <3>2, Zenon
  <2> QED
    BY <2>1, <2>2, <2>3
<1>15. UNCHANGED <<arch, orderOnceFlag, articleListByCluster>>
  BY DEF IndexByClusterOrder
<1> QED
  BY <1>10, <1>13, <1>14, <1>15, StepKeeps

LEMMA InitInv == ASSUME Init PROVE ArchiveInv
<1>1. Record(Idle) /\ Idle.op = "idle"
  BY DEF Record, Idle
<1>2. AnswerOK(Idle)
  BY <1>1, OtherOK DEF Other
<1>3. act = [t \in Threads |-> act[t]] /\ \A t \in Threads : act[t] = Idle
  BY DEF Init
<1>4. AnswersInv
  BY <1>2, <1>3, Zenon DEF AnswersInv
<1>5. \A t \in Threads : act[t].op # "list"
  BY <1>1, <1>3
<1>6. ListInv
  BY <1>5 DEF Init, ListInv
<1> QED
  BY <1>4, <1>6 DEF Init, ArchiveInv

\* The queries that leave nothing for later steps
LEMMA OtherKeeps ==
  ASSUME ArchiveInv, NEW t \in Threads,
         \/ GetMainEntry(t) \/ GetFaviconEntry(t) \/ GetMetadataKeys(t) \/ CheckIntegrity(t)
         \/ IterByPath(t) \/ IterByTitle(t) \/ \E i \in 0 .. Count : GetItemItself(t, i)
  PROVE  ArchiveInv'
<1>0. /\ "main" \in Other /\ "favicon" \in Other /\ "check" \in Other /\ "keys" \in Other
      /\ "iterPath" \in Other /\ "iterTitle" \in Other /\ "itself" \in Other
  BY DEF Other
<1>1. CASE GetMainEntry(t)
  BY <1>0, <1>1, OtherEntry, Zenon DEF GetMainEntry
<1>2. CASE GetFaviconEntry(t)
  BY <1>0, <1>2, OtherEntry, Zenon DEF GetFaviconEntry
<1>3. CASE GetMetadataKeys(t)
  BY <1>0, <1>3, OtherRange, Zenon DEF GetMetadataKeys
<1>4. CASE CheckIntegrity(t)
  BY <1>0, <1>4, OtherEntry, Zenon DEF CheckIntegrity
<1>5. CASE IterByPath(t)
  BY <1>0, <1>5, OtherRange, Zenon DEF IterByPath
<1>6. CASE IterByTitle(t)
  BY <1>0, <1>6, OtherRange, Zenon DEF IterByTitle
<1>7. ASSUME NEW i, GetItemItself(t, i) PROVE ArchiveInv'
  BY <1>0, <1>7, OtherEntry, Zenon DEF GetItemItself
<1> QED
  BY <1>1, <1>2, <1>3, <1>4, <1>5, <1>6, <1>7

LEMMA StutterKeeps == ASSUME ArchiveInv, UNCHANGED vars PROVE ArchiveInv'
<1>1. arch' = arch /\ act' = act /\ orderOnceFlag' = orderOnceFlag /\ articleListByCluster' = articleListByCluster
  BY DEF vars
<1>2. ASSUME NEW t \in Threads PROVE AnswerOK(act[t])'
  <2>1. PICK a : a = act[t]
    OBVIOUS
  <2>2. AnswerOK(a)
    BY <2>1, CallFacts
  <2>3. AnswerOK(a)'
    BY <1>1, <2>2, AnswerFixed
  <2>4. act'[t] = a
    BY <1>1, <2>1
  <2> QED
    BY <2>3, <2>4, Zenon
<1>3. AnswersInv'
  <2>1. act = [t \in Threads |-> act[t]]
    BY DEF ArchiveInv, AnswersInv
  <2>2. act' = [t \in Threads |-> act'[t]]
    BY <1>1, <2>1, Zenon
  <2> QED
    BY <1>2, <2>2, Zenon DEF AnswersInv
<1>4. StartUserEntry' = StartUserEntry /\ EndUserEntry' = EndUserEntry
  BY <1>1, UserFixed
<1>5. \A n : ListUpTo(n)' = ListUpTo(n)
  BY <1>1, OrderFixed
<1>6. ListUpTo(EndUserEntry)' = ListUpTo(EndUserEntry)
  BY <1>4, <1>5
<1>7. ASSUME NEW u \in Threads, act'[u].op = "list"
      PROVE  /\ orderOnceFlag' = u /\ act'[u].n \in StartUserEntry' .. EndUserEntry'
             /\ articleListByCluster' = ListUpTo(act[u].n)'
  <2>1. /\ orderOnceFlag = u /\ act[u].n \in StartUserEntry .. EndUserEntry
        /\ articleListByCluster = ListUpTo(act[u].n)
    BY <1>1, <1>7 DEF ArchiveInv, ListInv
  <2>2. ListUpTo(act[u].n)' = ListUpTo(act[u].n)
    BY <1>1, <1>5
  <2> QED
    BY <1>1, <1>4, <2>1, <2>2
<1>8. ListInv'
  <2>1. orderOnceFlag' = "free" => articleListByCluster' = <<>>
    BY <1>1 DEF ArchiveInv, ListInv
  <2>2. orderOnceFlag' = "set" => articleListByCluster' = SortedList(ListUpTo(EndUserEntry)')
    BY <1>1, <1>6, Zenon DEF ArchiveInv, ListInv
  <2> QED
    BY <1>7, <2>1, <2>2 DEF ListInv
<1> QED
  BY <1>1, <1>3, <1>8 DEF ArchiveInv

LEMMA NextKeeps == ASSUME ArchiveInv, [Next]_vars PROVE ArchiveInv'
<1>1. ASSUME NEW t \in Threads, Calls(t) PROVE ArchiveInv'
  <2>1. ASSUME NEW p \in Paths, GetEntryByPath(t, p) PROVE ArchiveInv'
    BY <2>1, ByPathKeeps
  <2>2. ASSUME NEW p \in Paths, FindByPath(t, p) PROVE ArchiveInv'
    BY <2>2, PathRangeKeeps
  <2>3. ASSUME NEW p \in Paths, GetMetadata(t, p) PROVE ArchiveInv'
    BY <2>3, MetadataKeeps
  <2>4. ASSUME NEW title \in Titles, GetEntryByTitle(t, title) PROVE ArchiveInv'
    BY <2>4, ByTitleKeeps
  <2>5. ASSUME NEW title \in Titles, FindByTitle(t, title) PROVE ArchiveInv'
    BY <2>5, TitleRangeKeeps
  <2>6. ASSUME NEW i \in 0 .. Count, GetItem(t, i) PROVE ArchiveInv'
    BY <2>6, ItemOfKeeps DEF GetItem
  <2>7. ASSUME NEW i \in 0 .. Count, GetEntryByClusterOrder(t, i) PROVE ArchiveInv'
    BY <2>7, OrderCallKeeps
  <2> QED
    BY <1>1, <2>1, <2>2, <2>3, <2>4, <2>5, <2>6, <2>7, OtherKeeps, Zenon DEF Calls
<1>2. ASSUME NEW t \in Threads, Steps(t) PROVE ArchiveInv'
  BY <1>2, FollowKeeps, StartOrderKeeps, ListEntryKeeps, SortListKeeps, OrderedKeeps, AnsweredKeeps DEF Steps
<1>3. ASSUME Finished PROVE ArchiveInv'
  BY <1>3, StutterKeeps DEF Finished
<1> QED
  BY <1>1, <1>2, <1>3, StutterKeeps DEF Next

\* The inductive invariant of the queries
LEMMA ArchiveInvariant == Spec => []ArchiveInv
<1>1. Init => ArchiveInv
  BY InitInv
<1>2. ArchiveInv /\ [Next]_vars => ArchiveInv'
  BY NextKeeps
<1> QED
  BY <1>1, <1>2, PTL DEF Spec

-----------------------------------------------------------------------------
(* What the invariant says of the answers *)

\* Whichever thread asks, and whatever the archive holds, getEntryByPath finds
\* the entry whose path Entry::getPath returned.
THEOREM RoundTrip == Spec => []PathRoundTrip
<1>1. ArchiveInv => PathRoundTrip
  BY DEF ArchiveInv, AnswersInv, AnswerOK, PathOK, PathRoundTrip, Has
<1> QED
  BY <1>1, ArchiveInvariant, PTL

\* In every archive, in either scheme of namespaces, findByPath returns the user's
\* entries that have the prefix, all of them and no other.
THEOREM PathRange == Spec => []PathRangeExact
<1>1. ArchiveInv => PathRangeExact
  BY DEF ArchiveInv, AnswersInv, AnswerOK, RangeOK, PathRangeExact, Has
<1> QED
  BY <1>1, ArchiveInvariant, PTL

\* In every archive that passes checkTitleIndex the bisection of findxByTitle
\* finds the titles that are listed, and findByTitle the range of a prefix in the
\* listing, but for entries with equal titles at the two ends.
THEOREM TitleLookup == Spec => []ListedTitlesExact
<1>1. ASSUME ArchiveInv, CheckTitleIndex, NEW t \in Threads, Has(t, "byTitle")
      PROVE  /\ act[t].found <=> NamedSo(act[t].arg) # {}
             /\ act[t].found => act[t].n \in NamedSo(act[t].arg)
  BY <1>1, CallFacts DEF AnswerOK, TitleOK, Has
<1>2. ASSUME ArchiveInv, CheckTitleIndex, NEW t \in Threads, Has(t, "titleRange")
      PROVE  /\ Between(act[t]) \subseteq 0 .. TitleCount - 1
             /\ \A j \in 0 .. TitleCount - 1 :
                  ~ AmongTwins(j, act[t].arg) => (j \in Between(act[t]) <=> Titled(j, act[t].arg))
  BY <1>2, CallFacts DEF AnswerOK, TitleRangeOK, Has
<1>3. ArchiveInv => ListedTitlesExact
  BY <1>1, <1>2, Zenon DEF ListedTitlesExact, NamedSo
<1> QED
  BY <1>3, ArchiveInvariant, PTL

\* The n-th entry by clusters is the same for every thread, and each entry of the
\* user is the n-th for one n, also for threads that wait for another to make the list.
THEOREM ClusterOrder == Spec => []EachEntryOnce
<1>1. ASSUME ArchiveInv, NEW t \in Threads, Has(t, "ordered")
      PROVE  /\ act[t].found <=> act[t].begin < Cardinality(UserEntries)
             /\ act[t].found => act[t].n \in UserEntries /\ Cardinality(BeforeOf(act[t].n)) = act[t].begin
  BY <1>1, CallFacts DEF AnswerOK, OrderedOK, Has
<1>2. ArchiveInv => EachEntryOnce
  BY <1>1, Zenon DEF EachEntryOnce, BeforeOf, PairAt
<1> QED
  BY <1>2, ArchiveInvariant, PTL

\* Entry::getItem returns the item at the end of the chain of redirects when that
\* is at most Watchdog redirects away, and throws otherwise, circles included.
THEOREM ItemsOfChains == Spec => [](\A t \in Threads : ItemExact(t))
<1>1. ASSUME ArchiveInv, NEW t \in Threads, Has(t, "item")
      PROVE  /\ act[t].found <=> ~ isRedirect(EndOfChain(act[t].begin))
             /\ act[t].found => act[t].n = EndOfChain(act[t].begin)
  <2>1. EndOfChain(act[t].begin) = Chain(act[t].begin)[Watchdog]
    BY ChainDef
  <2>2. /\ act[t].found <=> ~ isRedirect(Chain(act[t].begin)[Watchdog])
        /\ act[t].found => act[t].n = Chain(act[t].begin)[Watchdog]
    BY <1>1, CallFacts DEF AnswerOK, ItemOK, Has
  <2> QED
    BY <2>1, <2>2, Zenon
<1>2. ArchiveInv => \A t \in Threads : ItemExact(t)
  BY <1>1, Zenon DEF ItemExact
<1> QED
  BY <1>2, ArchiveInvariant, PTL
=============================================================================
