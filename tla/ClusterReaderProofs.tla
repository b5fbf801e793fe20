------------------------- MODULE ClusterReaderProofs -------------------------
(***************************************************************************)
(* Proofs about Compressor and ClusterReader: the file holds the content   *)
(* of a cluster, and every blob is read from it as it was added, for any   *)
(* sizes of blobs, pieces, buffers and chunks, any number of threads and   *)
(* whatever the codecs take and deliver at a time.  Streams are described  *)
(* by position: which unit of the content is where.                        *)
(***************************************************************************)
EXTENDS ClusterReader, SequenceTheorems, WellFoundedInduction, TLAPS

-----------------------------------------------------------------------------
(* Induction, for a set of numbers *)

LEMMA SmallestOf == ASSUME NEW T, T \subseteq Nat, T # {} PROVE \E x \in T : \A y \in T : x <= y
<1>1. PICK x \in T : \A y \in T : ~ (<<y, x>> \in OpToRel(<, Nat))
  BY WFMin, NatLessThanWellFounded
<1>2. \A y \in T : ~ (y < x)
  BY <1>1 DEF OpToRel
<1> QED
  BY <1>2

LEMMA FromOneOn ==
  ASSUME NEW T, 1 \in T, \A k \in Nat \ {0} : k \in T => k + 1 \in T
  PROVE  \A k \in Nat \ {0} : k \in T
<1> DEFINE U == {k \in Nat \ {0} : k \notin T}
<1> SUFFICES ASSUME U # {} PROVE FALSE
  BY Zenon
<1>1. U \subseteq Nat
  OBVIOUS
<1>2. PICK m \in U : \A y \in U : m <= y
  BY <1>1, SmallestOf
<1>3. m \in Nat /\ m # 0 /\ m # 1 /\ m \notin T
  BY <1>2
<1>4. m - 1 \in Nat \ {0} /\ m - 1 \notin U /\ (m - 1) + 1 = m
  BY <1>2, <1>3
<1>5. m - 1 \in T
  BY <1>4
<1> QED
  BY <1>3, <1>4, <1>5

\* Recursion from 1 to n: the k-th value comes from the one before by G.
Recursion(f, n, base, G) == (n # 0 => f[1] = base) /\ \A k \in 2 .. n : f[k] = G[<<k, f[k - 1]>>]

LEMMA RecursionExists ==
  ASSUME NEW n \in Nat, NEW V, NEW base \in V, NEW G \in [Nat \X V -> V]
  PROVE  \E f \in [1 .. n -> V] : Recursion(f, n, base, G)
<1> DEFINE Table(f, m) == f[1] = base /\ \A k \in 2 .. m : f[k] = G[<<k, f[k - 1]>>]
           T == {m \in Nat \ {0} : \E f \in [1 .. m -> V] : Table(f, m)}
<1>1. 1 \in T
  <2>1. PICK f : f = [k \in 1 .. 1 |-> base]
    OBVIOUS
  <2>2. f \in [1 .. 1 -> V] /\ f[1] = base
    BY <2>1
  <2> QED
    BY <2>2
<1>2. ASSUME NEW m \in Nat \ {0}, m \in T PROVE m + 1 \in T
  <2>1. PICK f \in [1 .. m -> V] : Table(f, m)
    BY <1>2
  <2>2. PICK x \in V : x = G[<<m + 1, f[m]>>]
    BY <1>2, <2>1
  <2>3. PICK g : g = [k \in 1 .. m + 1 |-> IF k = m + 1 THEN x ELSE f[k]]
    OBVIOUS
  <2>4. g \in [1 .. m + 1 -> V] /\ g[m + 1] = x /\ \A k \in 1 .. m : g[k] = f[k]
    BY <1>2, <2>3
  <2>5. g[1] = base
    BY <1>2, <2>1, <2>4
  <2>6. ASSUME NEW k \in 2 .. m + 1 PROVE g[k] = G[<<k, g[k - 1]>>]
    <3>1. CASE k = m + 1
      <4>1. k - 1 = m /\ g[m] = f[m]
        BY <1>2, <2>4, <3>1
      <4> QED
        BY <2>2, <2>4, <3>1, <4>1
    <3>2. CASE k # m + 1
      <4>1. k \in 2 .. m /\ k \in 1 .. m /\ k - 1 \in 1 .. m
        BY <1>2, <3>2
      <4>2. f[k] = G[<<k, f[k - 1]>>]
        BY <2>1, <4>1
      <4> QED
        BY <2>4, <4>1, <4>2
    <3> QED
      BY <3>1, <3>2
  <2>7. Table(g, m + 1)
    BY <2>5, <2>6
  <2> QED
    BY <2>4, <2>7
<1> HIDE DEF T
<1>3. \A k \in Nat \ {0} : k \in T
  BY <1>1, <1>2, FromOneOn
<1>4. CASE n = 0
  <2>1. PICK f : f = [k \in 1 .. n |-> base]
    OBVIOUS
  <2>2. f \in [1 .. n -> V] /\ 2 .. n = {}
    BY <1>4, <2>1
  <2> QED
    BY <1>4, <2>2 DEF Recursion
<1>5. CASE n # 0
  <2>1. n \in T
    BY <1>3, <1>5
  <2> QED
    BY <2>1 DEF T, Recursion
<1> QED
  BY <1>4, <1>5

\* What satisfies the recursion has all its values in V.
LEMMA RecursionType ==
  ASSUME NEW n \in Nat, NEW V, NEW c, c[1] \in V, \A k \in 2 .. n : c[k - 1] \in V => c[k] \in V
  PROVE  \A k \in 1 .. n : c[k] \in V
<1> DEFINE T == {k \in Nat \ {0} : k <= n => c[k] \in V}
<1>1. 1 \in T
  OBVIOUS
<1>2. ASSUME NEW k \in Nat \ {0}, k \in T PROVE k + 1 \in T
  <2>1. CASE k + 1 <= n
    <3>1. k + 1 \in 2 .. n /\ (k + 1) - 1 = k /\ k <= n
      BY <2>1
    <3>2. c[k] \in V
      BY <1>2, <3>1
    <3>3. c[k + 1] \in V
      BY <3>1, <3>2
    <3> QED
      BY <3>3
  <2>2. CASE ~ (k + 1 <= n)
    BY <2>2
  <2> QED
    BY <2>1, <2>2
<1> HIDE DEF T
<1>3. \A k \in Nat \ {0} : k \in T
  BY <1>1, <1>2, FromOneOn
<1>4. ASSUME NEW k \in 1 .. n PROVE c[k] \in V
  <2>1. k \in Nat \ {0} /\ k <= n
    OBVIOUS
  <2> QED
    BY <1>3, <2>1 DEF T
<1> QED
  BY <1>4

-----------------------------------------------------------------------------
(* Where the blobs begin *)

SumStep(cl, f, k) == IF k = 1 THEN 0 ELSE f[k - 1] + cl.sizes[k - 1]
IsSum(cl, f) == f = [k \in 1 .. Len(cl.sizes) + 1 |-> SumStep(cl, f, k)]
Sums(cl) == CHOOSE f : IsSum(cl, f)

LEMMA SumDef == ASSUME NEW cl, NEW i PROVE BlobOffset(cl, i) = Sums(cl)[i]
BY Zenon DEF BlobOffset, Sums, IsSum, SumStep

LEMMA ClusterFacts ==
  ASSUME NEW cl \in Clusters
  PROVE  /\ Len(cl.sizes) \in Nat /\ \A i \in 1 .. Len(cl.sizes) : cl.sizes[i] \in Nat
         /\ OffsetSize(cl) \in Nat \ {0}
<1>1. cl.sizes \in Seq(Nat)
  BY ClustersAssumption
<1>2. OffsetSize(cl) \in Nat \ {0}
  BY SizesAssumption DEF OffsetSize
<1> QED
  BY <1>1, <1>2

LEMMA SumFacts ==
  ASSUME NEW cl \in Clusters
  PROVE  /\ BlobOffset(cl, 1) = 0
         /\ \A i \in 1 .. Len(cl.sizes) : BlobOffset(cl, i + 1) = BlobOffset(cl, i) + cl.sizes[i]
         /\ \A i \in 1 .. Len(cl.sizes) + 1 : BlobOffset(cl, i) \in Nat
<1>0. PICK n \in Nat : n = Len(cl.sizes) /\ \A i \in 1 .. n : cl.sizes[i] \in Nat
  BY ClusterFacts
<1>1. PICK G : G = [x \in Nat \X Nat |-> IF x[1] - 1 \in 1 .. n THEN x[2] + cl.sizes[x[1] - 1] ELSE 0]
  OBVIOUS
<1>2. G \in [Nat \X Nat -> Nat]
  BY <1>0, <1>1
<1>3. PICK f \in [1 .. n + 1 -> Nat] :
        /\ n + 1 # 0 => f[1] = 0
        /\ \A k \in 2 .. n + 1 : f[k] = G[<<k, f[k - 1]>>]
  <2>1. PICK m \in Nat, base \in Nat : m = n + 1 /\ base = 0
    BY <1>0
  <2>2. \E f \in [1 .. m -> Nat] : Recursion(f, m, base, G)
    BY <1>2, RecursionExists
  <2> QED
    BY <2>1, <2>2 DEF Recursion
<1>4. ASSUME NEW k \in 1 .. n + 1 PROVE f[k] = SumStep(cl, f, k)
  <2>1. CASE k = 1
    BY <1>0, <1>3, <2>1 DEF SumStep
  <2>2. CASE k # 1
    <3>1. k \in 2 .. n + 1 /\ k - 1 \in 1 .. n /\ k - 1 \in 1 .. n + 1 /\ k \in Nat
      BY <1>0, <2>2
    <3>2. f[k - 1] \in Nat
      BY <1>3, <3>1
    <3>3. G[<<k, f[k - 1]>>] = f[k - 1] + cl.sizes[k - 1]
      BY <1>1, <3>1, <3>2
    <3> QED
      BY <1>3, <2>2, <3>1, <3>3 DEF SumStep
  <2> QED
    BY <2>1, <2>2
<1>5. IsSum(cl, f)
  <2>1. f = [k \in 1 .. n + 1 |-> f[k]]
    BY <1>3
  <2>2. [k \in 1 .. n + 1 |-> f[k]] = [k \in 1 .. n + 1 |-> SumStep(cl, f, k)]
    BY <1>4, Zenon
  <2> QED
    BY <1>0, <2>1, <2>2, Zenon DEF IsSum
<1>6. PICK c : c = Sums(cl)
  OBVIOUS
<1>7. IsSum(cl, c)
  BY <1>5, <1>6, Zenon DEF Sums
<1>8. \A k \in 1 .. n + 1 : c[k] = SumStep(cl, c, k)
  <2> SUFFICES ASSUME NEW k \in 1 .. n + 1 PROVE c[k] = SumStep(cl, c, k)
    OBVIOUS
  <2>1. c = [x \in 1 .. n + 1 |-> SumStep(cl, c, x)]
    BY <1>0, <1>7, Zenon DEF IsSum
  <2> QED
    BY <2>1, Zenon
<1>9. c[1] = 0
  <2>1. 1 \in 1 .. n + 1
    BY <1>0
  <2> QED
    BY <1>8, <2>1, Zenon DEF SumStep
<1>10. ASSUME NEW k \in 1 .. n PROVE c[k + 1] = c[k] + cl.sizes[k]
  <2>1. k + 1 \in 1 .. n + 1 /\ k + 1 # 1 /\ (k + 1) - 1 = k
    BY <1>0
  <2>2. c[k + 1] = c[(k + 1) - 1] + cl.sizes[(k + 1) - 1]
    BY <1>8, <2>1, Zenon DEF SumStep
  <2> QED
    BY <2>1, <2>2
<1>11. \A k \in 1 .. n + 1 : c[k] \in Nat
  <2>1. ASSUME NEW k \in 2 .. n + 1, c[k - 1] \in Nat PROVE c[k] \in Nat
    <3>1. k - 1 \in 1 .. n /\ (k - 1) + 1 = k
      BY <1>0
    <3>2. c[(k - 1) + 1] = c[k - 1] + cl.sizes[k - 1]
      BY <1>10, <3>1, Zenon
    <3> QED
      BY <1>0, <2>1, <3>1, <3>2
  <2>2. c[1] \in Nat /\ n + 1 \in Nat
    BY <1>0, <1>9
  <2> QED
    BY <2>1, <2>2, RecursionType
<1>12. \A i : BlobOffset(cl, i) = c[i]
  BY <1>6, SumDef, Zenon
<1> QED
  BY <1>0, <1>9, <1>10, <1>11, <1>12

LEMMA SumsGrow ==
  ASSUME NEW cl \in Clusters, NEW i \in 1 .. Len(cl.sizes) + 1
  PROVE  BlobOffset(cl, i) <= BlobOffset(cl, Len(cl.sizes) + 1)
<1>0. PICK n \in Nat : n = Len(cl.sizes) /\ \A k \in 1 .. n : cl.sizes[k] \in Nat
  BY ClusterFacts
<1> DEFINE T == {d \in Nat \ {0} : d <= n + 1 => BlobOffset(cl, n + 2 - d) <= BlobOffset(cl, n + 1)}
<1>1. 1 \in T
  <2>1. n + 2 - 1 = n + 1 /\ n + 1 \in 1 .. n + 1
    BY <1>0
  <2>2. BlobOffset(cl, n + 1) \in Nat
    BY <1>0, <2>1, SumFacts
  <2> QED
    BY <2>1, <2>2
<1>2. ASSUME NEW d \in Nat \ {0}, d \in T PROVE d + 1 \in T
  <2>1. CASE d + 1 <= n + 1
    <3>0. PICK j : j = n + 2 - (d + 1)
      OBVIOUS
    <3>1. j \in 1 .. n /\ j = n + 2 - (d + 1) /\ j + 1 = n + 2 - d /\ j \in 1 .. n + 1 /\ j + 1 \in 1 .. n + 1
      BY <1>0, <2>1, <3>0
    <3>2. BlobOffset(cl, j + 1) = BlobOffset(cl, j) + cl.sizes[j] /\ BlobOffset(cl, j) \in Nat
      BY <1>0, <3>1, SumFacts
    <3>3. BlobOffset(cl, j + 1) <= BlobOffset(cl, n + 1)
      BY <1>2, <2>1, <3>1
    <3>4. BlobOffset(cl, n + 1) \in Nat
      BY <1>0, SumFacts
    <3>n. cl.sizes[j] \in Nat
      BY <1>0, <3>1
    <3>5. BlobOffset(cl, j) <= BlobOffset(cl, n + 1)
      BY <3>n, <3>2, <3>3, <3>4
    <3> QED
      BY <3>1, <3>5
  <2>2. CASE ~ (d + 1 <= n + 1)
    BY <2>2
  <2> QED
    BY <2>1, <2>2
<1> HIDE DEF T
<1>3. \A d \in Nat \ {0} : d \in T
  BY <1>1, <1>2, FromOneOn
<1>d. PICK d : d = n + 2 - i
  OBVIOUS
<1>4. d \in Nat \ {0} /\ d <= n + 1 /\ n + 2 - d = i
  BY <1>0, <1>d
<1>5. d \in T
  BY <1>3, <1>4
<1> QED
  BY <1>0, <1>4, <1>5 DEF T

-----------------------------------------------------------------------------
(* Sequences *)

FlatStep(s, f, k) == IF k = 1 THEN s[k] ELSE f[k - 1] \o s[k]
IsFlat(s, f) == f = [k \in 1 .. Len(s) |-> FlatStep(s, f, k)]
Flats(s) == CHOOSE f : IsFlat(s, f)

LEMMA FlatDef == ASSUME NEW s, Len(s) # 0 PROVE FlattenSeq(s) = Flats(s)[Len(s)]
BY Zenon DEF FlattenSeq, Flats, IsFlat, FlatStep

LEMMA FlatRecursion ==
  ASSUME NEW S, NEW s \in Seq(Seq(S)), Len(s) # 0
  PROVE  /\ \A k \in 1 .. Len(s) : Flats(s)[k] \in Seq(S)
         /\ Flats(s)[1] = s[1]
         /\ \A k \in 2 .. Len(s) : Flats(s)[k] = Flats(s)[k - 1] \o s[k]
<1>0. PICK n \in Nat \ {0} : n = Len(s) /\ \A k \in 1 .. n : s[k] \in Seq(S)
  OBVIOUS
<1>1. PICK G : G = [x \in Nat \X Seq(S) |-> IF x[1] \in 1 .. n THEN x[2] \o s[x[1]] ELSE x[2]]
  OBVIOUS
<1>2. G \in [Nat \X Seq(S) -> Seq(S)]
  <2>1. ASSUME NEW x \in Nat \X Seq(S)
        PROVE  (IF x[1] \in 1 .. n THEN x[2] \o s[x[1]] ELSE x[2]) \in Seq(S)
    <3>1. x[2] \in Seq(S)
      OBVIOUS
    <3>2. CASE x[1] \in 1 .. n
      BY <1>0, <3>1, <3>2, ConcatProperties
    <3> QED
      BY <3>1, <3>2
  <2> QED
    BY <1>1, <2>1, Zenon
<1>3. PICK f \in [1 .. n -> Seq(S)] :
        /\ n # 0 => f[1] = s[1]
        /\ \A k \in 2 .. n : f[k] = G[<<k, f[k - 1]>>]
  <2>1. PICK V, base : V = Seq(S) /\ base = s[1]
    BY Zenon
  <2>2. base \in V /\ n \in Nat /\ G \in [Nat \X V -> V]
    BY <1>0, <1>2, <2>1
  <2>3. \E f \in [1 .. n -> V] : Recursion(f, n, base, G)
    BY <2>2, RecursionExists
  <2> QED
    BY <2>1, <2>3, Zenon DEF Recursion
<1>4. ASSUME NEW k \in 1 .. n PROVE f[k] = FlatStep(s, f, k)
  <2>1. CASE k = 1
    BY <1>0, <1>3, <2>1, Zenon DEF FlatStep
  <2>2. CASE k # 1
    <3>1. k \in 2 .. n /\ k - 1 \in 1 .. n /\ k \in Nat
      BY <1>0, <2>2
    <3>2. f[k - 1] \in Seq(S)
      BY <1>3, <3>1
    <3>3. PICK x : x = <<k, f[k - 1]>>
      OBVIOUS
    <3>4. x \in Nat \X Seq(S) /\ x[1] = k /\ x[2] = f[k - 1]
      BY <3>1, <3>2, <3>3
    <3>5. G[x] = f[k - 1] \o s[k]
      BY <1>1, <3>4, Zenon
    <3> QED
      BY <1>3, <2>2, <3>1, <3>3, <3>5, Zenon DEF FlatStep
  <2> QED
    BY <2>1, <2>2
<1>5. IsFlat(s, f)
  <2>1. f = [k \in 1 .. n |-> f[k]]
    BY <1>3
  <2>2. [k \in 1 .. n |-> f[k]] = [k \in 1 .. n |-> FlatStep(s, f, k)]
    BY <1>4, Zenon
  <2> QED
    BY <1>0, <2>1, <2>2, Zenon DEF IsFlat
<1>6. PICK c : c = Flats(s)
  OBVIOUS
<1>7. IsFlat(s, c)
  BY <1>5, <1>6, Zenon DEF Flats
<1>8. \A k \in 1 .. n : c[k] = FlatStep(s, c, k)
  <2> SUFFICES ASSUME NEW k \in 1 .. n PROVE c[k] = FlatStep(s, c, k)
    OBVIOUS
  <2>1. c = [x \in 1 .. n |-> FlatStep(s, c, x)]
    BY <1>0, <1>7, Zenon DEF IsFlat
  <2> QED
    BY <2>1, Zenon
<1>9. c[1] = s[1]
  <2>1. 1 \in 1 .. n
    BY <1>0
  <2> QED
    BY <1>8, <2>1, Zenon DEF FlatStep
<1>10. ASSUME NEW k \in 2 .. n PROVE c[k] = c[k - 1] \o s[k]
  <2>1. k \in 1 .. n /\ k # 1
    BY <1>0
  <2> QED
    BY <1>8, <2>1, Zenon DEF FlatStep
<1>11. \A k \in 1 .. n : c[k] \in Seq(S)
  <2>1. ASSUME NEW k \in 2 .. n, c[k - 1] \in Seq(S) PROVE c[k] \in Seq(S)
    <3>1. s[k] \in Seq(S)
      BY <1>0
    <3>2. c[k - 1] \o s[k] \in Seq(S)
      BY <2>1, <3>1, ConcatProperties
    <3> QED
      BY <1>10, <3>2
  <2>2. c[1] \in Seq(S)
    BY <1>0, <1>9
  <2> QED
    BY <1>0, <2>1, <2>2, RecursionType
<1> QED
  BY <1>0, <1>6, <1>9, <1>10, <1>11

\* The first k of the sequences of s, laid end to end: m says where each ends.
Laid(c, s, m, k) ==
  /\ Len(c) = m[k]
  /\ \A j \in 1 .. k : \A x \in 1 .. Len(s[j]) : m[j - 1] + x \in 1 .. m[k] /\ c[m[j - 1] + x] = s[j][x]

LEMMA BehindEnd ==
  ASSUME NEW a \in Nat, NEW b \in Nat, NEW x \in 1 .. b
  PROVE  a + x \in 1 .. a + b /\ ~ (a + x <= a) /\ (a + x) - a = x
OBVIOUS

LEMMA OneMoreLaid ==
  ASSUME NEW S, NEW s \in Seq(Seq(S)), NEW m, NEW k \in 1 .. Len(s) - 1, NEW c \in Seq(S),
         Laid(c, s, m, k), m[k] \in Nat, m[k + 1] = m[k] + Len(s[k + 1])
  PROVE  Laid(c \o s[k + 1], s, m, k + 1)
<1>1. PICK r : r = s[k + 1]
  OBVIOUS
<1>2. r \in Seq(S)
  BY <1>1
<1>3. PICK d : d = c \o r
  OBVIOUS
<1>4. /\ Len(d) = Len(c) + Len(r)
      /\ \A i \in 1 .. Len(c) + Len(r) : d[i] = IF i <= Len(c) THEN c[i] ELSE r[i - Len(c)]
  BY <1>2, <1>3, ConcatProperties
<1>5. Len(r) \in Nat /\ m[k] \in Nat /\ Len(c) = m[k] /\ m[k + 1] = m[k] + Len(r)
  BY <1>1, <1>2 DEF Laid
<1>6. ASSUME NEW j \in 1 .. k + 1, NEW x \in 1 .. Len(s[j])
      PROVE  m[j - 1] + x \in 1 .. m[k + 1] /\ d[m[j - 1] + x] = s[j][x]
  <2>1. CASE j = k + 1
    <3>1. j - 1 = k /\ s[j] = r
      BY <1>1, <2>1
    <3>2. x \in Nat /\ x \in 1 .. Len(r)
      BY <1>5, <1>6, <3>1
    <3>n. PICK a, b : a = m[k] /\ b = Len(r)
      BY Zenon
    <3>3. a + x \in 1 .. a + b /\ ~ (a + x <= a) /\ (a + x) - a = x
      <4>1. a \in Nat /\ b \in Nat /\ x \in 1 .. b
        BY <1>5, <3>2, <3>n, Zenon
      <4> QED
        BY <4>1, BehindEnd
    <3>4. d[a + x] = r[x]
      <4>1. Len(c) = a
        BY <1>5, <3>n, Zenon
      <4> QED
        BY <1>4, <3>3, <3>n, <4>1, Zenon
    <3> QED
      BY <1>5, <3>1, <3>3, <3>4, <3>n, Zenon
  <2>2. CASE j # k + 1
    <3>1. j \in 1 .. k
      BY <2>2
    <3>2. PICK i : i = m[j - 1] + x
      OBVIOUS
    <3>3. i \in 1 .. m[k] /\ c[i] = s[j][x]
      BY <1>6, <3>1, <3>2, Zenon DEF Laid
    <3>4. i \in 1 .. Len(c) + Len(r) /\ i <= Len(c)
      BY <1>5, <3>3, SMTT(30)
    <3>5. d[i] = c[i]
      BY <1>4, <3>4
    <3> QED
      BY <1>5, <3>2, <3>3, <3>4, <3>5
  <2> QED
    BY <2>1, <2>2
<1>7. Laid(d, s, m, k + 1)
  BY <1>4, <1>5, <1>6, Zenon DEF Laid
<1> QED
  BY <1>1, <1>3, <1>7, Zenon

LEMMA FlattenFacts ==
  ASSUME NEW S, NEW s \in Seq(Seq(S)), NEW m, m[0] = 0, m[1] = Len(s[1]), Len(s) # 0,
         \A k \in 1 .. Len(s) : m[k] \in Nat,
         \A k \in 1 .. Len(s) - 1 : m[k + 1] = m[k] + Len(s[k + 1])
  PROVE  FlattenSeq(s) \in Seq(S) /\ Laid(FlattenSeq(s), s, m, Len(s))
<1>0. PICK n \in Nat \ {0} : n = Len(s) /\ \A k \in 1 .. n : s[k] \in Seq(S)
  OBVIOUS
<1>1. PICK c : c = Flats(s)
  OBVIOUS
<1>2. /\ \A k \in 1 .. n : c[k] \in Seq(S)
      /\ c[1] = s[1]
      /\ \A k \in 2 .. n : c[k] = c[k - 1] \o s[k]
  BY <1>0, <1>1, FlatRecursion
<1> DEFINE T == {k \in Nat \ {0} : k <= n => Laid(c[k], s, m, k)}
<1>3. 1 \in T
  <2>1. \A j \in 1 .. 1 : j = 1 /\ j - 1 = 0
    OBVIOUS
  <2>2. Len(s[1]) \in Nat
    BY <1>0
  <2>3. ASSUME NEW j \in 1 .. 1, NEW x \in 1 .. Len(s[j])
        PROVE  m[j - 1] + x \in 1 .. m[1] /\ s[1][m[j - 1] + x] = s[j][x]
    <3>1. j = 1 /\ m[j - 1] = 0
      BY <2>1, <2>3
    <3>2. x \in 1 .. Len(s[1])
      BY <2>3, <3>1
    <3>3. m[j - 1] + x = x
      BY <2>2, <3>1, <3>2
    <3> QED
      BY <2>2, <3>1, <3>2, <3>3
  <2>4. Laid(s[1], s, m, 1)
    BY <2>3, Zenon DEF Laid
  <2> QED
    BY <1>2, <2>4
<1>4. ASSUME NEW k \in Nat \ {0}, k \in T PROVE k + 1 \in T
  <2>1. CASE k + 1 <= n
    <3>1. k \in 1 .. Len(s) - 1 /\ k \in 1 .. n /\ k + 1 \in 2 .. n /\ (k + 1) - 1 = k
      BY <1>0, <2>1
    <3>2. Laid(c[k], s, m, k)
      BY <1>4, <3>1
    <3>3. c[k] \in Seq(S) /\ m[k] \in Nat /\ m[k + 1] = m[k] + Len(s[k + 1])
      BY <1>0, <1>2, <3>1
    <3>4. Laid(c[k] \o s[k + 1], s, m, k + 1)
      BY <3>1, <3>2, <3>3, OneMoreLaid
    <3>5. c[k + 1] = c[k] \o s[k + 1]
      BY <1>2, <3>1
    <3>6. Laid(c[k + 1], s, m, k + 1)
      BY <3>4, <3>5, Zenon
    <3> QED
      BY <3>6
  <2>2. CASE ~ (k + 1 <= n)
    BY <2>2
  <2> QED
    BY <2>1, <2>2
<1> HIDE DEF T
<1>5. \A k \in Nat \ {0} : k \in T
  BY <1>3, <1>4, FromOneOn
<1>6. n \in T /\ n <= n
  BY <1>5
<1>7. Laid(c[n], s, m, n)
  BY <1>6 DEF T
<1>8. c[n] \in Seq(S)
  BY <1>2
<1>9. FlattenSeq(s) = c[n]
  BY <1>0, <1>1, FlatDef
<1> QED
  BY <1>0, <1>7, <1>8, <1>9, Zenon

IsSeq(s) == \E S : s \in Seq(S)

LEMMA SeqFacts == ASSUME NEW s, IsSeq(s) PROVE Len(s) \in Nat
BY LenProperties DEF IsSeq

LEMMA FunctionSeq ==
  ASSUME NEW n \in Nat, NEW s, s = [i \in 1 .. n |-> s[i]]
  PROVE  IsSeq(s) /\ Len(s) = n
<1>1. PICK S : S = {s[i] : i \in 1 .. n}
  OBVIOUS
<1>2. s \in [1 .. n -> S]
  BY <1>1
<1>3. s \in Seq(S)
  BY <1>2
<1> QED
  BY <1>2, <1>3 DEF IsSeq

LEMMA CatFacts ==
  ASSUME NEW s, NEW t, IsSeq(s), IsSeq(t)
  PROVE  /\ IsSeq(s \o t)
         /\ Len(s \o t) = Len(s) + Len(t)
         /\ \A i \in 1 .. Len(s) + Len(t) : (s \o t)[i] = IF i <= Len(s) THEN s[i] ELSE t[i - Len(s)]
<1>1. PICK A : s \in Seq(A)
  BY DEF IsSeq
<1>2. PICK B : t \in Seq(B)
  BY DEF IsSeq
<1>3. PICK S : S = A \cup B
  OBVIOUS
<1>4. s \in Seq(S) /\ t \in Seq(S)
  BY <1>1, <1>2, <1>3, SeqMonotonic
<1> QED
  BY <1>4, ConcatProperties DEF IsSeq

LEMMA CatAssociates ==
  ASSUME NEW s, NEW t, NEW u, IsSeq(s), IsSeq(t), IsSeq(u)
  PROVE  (s \o t) \o u = s \o (t \o u)
<1>1. PICK A : s \in Seq(A)
  BY DEF IsSeq
<1>2. PICK B : t \in Seq(B)
  BY DEF IsSeq
<1>3. PICK D : u \in Seq(D)
  BY DEF IsSeq
<1>4. PICK S : S = A \cup B \cup D
  OBVIOUS
<1>5. s \in Seq(S) /\ t \in Seq(S) /\ u \in Seq(S)
  BY <1>1, <1>2, <1>3, <1>4, SeqMonotonic
<1> QED
  BY <1>5, ConcatAssociative

LEMMA SubFacts ==
  ASSUME NEW s, IsSeq(s), NEW a \in Nat, NEW b \in Nat, a <= b, b <= Len(s)
  PROVE  /\ IsSeq(SubSeq(s, a + 1, b))
         /\ Len(SubSeq(s, a + 1, b)) = b - a
         /\ \A i \in 1 .. b - a : SubSeq(s, a + 1, b)[i] = s[a + i]
<1>1. PICK S : s \in Seq(S)
  BY DEF IsSeq
<1>2. \A i \in a + 1 .. b : s[i] \in S
  BY <1>1
<1>3. PICK m \in Int : m = a + 1
  OBVIOUS
<1>4. /\ SubSeq(s, m, b) \in Seq(S)
      /\ Len(SubSeq(s, m, b)) = IF m <= b THEN b - m + 1 ELSE 0
      /\ \A i \in 1 .. b - m + 1 : SubSeq(s, m, b)[i] = s[m + i - 1]
  BY <1>2, <1>3, SubSeqProperties
<1>5. b - m + 1 = b - a /\ (~ (m <= b) => b - a = 0)
  BY <1>3
<1>6. \A i \in 1 .. b - a : m + i - 1 = a + i
  BY <1>3
<1> QED
  BY <1>3, <1>4, <1>5, <1>6 DEF IsSeq

LEMMA SameSeq ==
  ASSUME NEW s, NEW t, IsSeq(s), IsSeq(t), Len(s) = Len(t), \A i \in 1 .. Len(s) : s[i] = t[i]
  PROVE  s = t
<1>1. PICK A : s \in Seq(A)
  BY DEF IsSeq
<1>2. PICK B : t \in Seq(B)
  BY DEF IsSeq
<1>3. PICK S : S = A \cup B
  OBVIOUS
<1>4. s \in Seq(S) /\ t \in Seq(S)
  BY <1>1, <1>2, <1>3, SeqMonotonic
<1> QED
  BY <1>4, SeqEqual

LEMMA SmallSeqs ==
  /\ IsSeq(<<>>) /\ Len(<<>>) = 0
  /\ \A x : IsSeq(<<x>>) /\ Len(<<x>>) = 1 /\ <<x>>[1] = x
<1>1. <<>> \in Seq({})
  OBVIOUS
<1>2. ASSUME NEW x PROVE <<x>> \in Seq({x})
  OBVIOUS
<1> QED
  BY <1>1, <1>2 DEF IsSeq

-----------------------------------------------------------------------------
(* Parts of a stream: s is what stream c holds from a on. *)

PartOf(s, c, a) ==
  /\ IsSeq(s)
  /\ a + Len(s) <= Len(c)
  /\ \A i \in 1 .. Len(s) : s[i] = c[a + i]

LEMMA PartCat ==
  ASSUME NEW s, NEW t, NEW c, NEW a \in Nat, NEW b \in Nat, PartOf(s, c, a), PartOf(t, c, b),
         b = a + Len(s)
  PROVE  PartOf(s \o t, c, a) /\ Len(s \o t) = Len(s) + Len(t)
<1>1. IsSeq(s) /\ IsSeq(t)
  BY DEF PartOf
<1>2. PICK m \in Nat, n \in Nat : m = Len(s) /\ n = Len(t)
  BY <1>1, SeqFacts
<1>3. PICK r : r = s \o t
  OBVIOUS
<1>4. IsSeq(r) /\ Len(r) = m + n /\ \A i \in 1 .. m + n : r[i] = IF i <= m THEN s[i] ELSE t[i - m]
  BY <1>1, <1>2, <1>3, CatFacts
<1>5. b + n <= Len(c) /\ b = a + m
  BY <1>2 DEF PartOf
<1>6. ASSUME NEW i \in 1 .. m + n PROVE r[i] = c[a + i]
  <2>1. CASE i <= m
    <3>1. i \in 1 .. m
      BY <2>1
    <3> QED
      BY <1>2, <1>4, <2>1, <3>1 DEF PartOf
  <2>2. CASE ~ (i <= m)
    <3>1. i - m \in 1 .. n /\ b + (i - m) = a + i
      BY <1>5, <2>2
    <3>2. t[i - m] = c[b + (i - m)]
      BY <1>2, <3>1, Zenon DEF PartOf
    <3>3. t[i - m] = c[a + i]
      BY <3>1, <3>2, Zenon
    <3> QED
      BY <1>4, <2>2, <3>3, Zenon
  <2> QED
    BY <2>1, <2>2
<1>7. a + Len(r) <= Len(c)
  <2>1. b + n = a + (m + n)
    BY <1>5
  <2> QED
    BY <1>4, <1>5, <2>1, Zenon
<1>8. PartOf(r, c, a)
  BY <1>4, <1>6, <1>7, Zenon DEF PartOf
<1> QED
  BY <1>2, <1>3, <1>4, <1>8

LEMMA PartSub ==
  ASSUME NEW s, NEW c, NEW a \in Nat, PartOf(s, c, a), Len(c) \in Nat,
         NEW x \in Nat, NEW y \in Nat, x <= y, y <= Len(s)
  PROVE  PartOf(SubSeq(s, x + 1, y), c, a + x) /\ Len(SubSeq(s, x + 1, y)) = y - x
<1>1. IsSeq(s)
  BY DEF PartOf
<1>2. PICK n \in Nat : n = Len(s)
  BY <1>1, SeqFacts
<1>3. PICK r : r = SubSeq(s, x + 1, y)
  OBVIOUS
<1>4. IsSeq(r) /\ Len(r) = y - x /\ \A i \in 1 .. y - x : r[i] = s[x + i]
  BY <1>1, <1>3, SubFacts
<1>5. a + n <= Len(c)
  BY <1>2 DEF PartOf
<1>6. ASSUME NEW i \in 1 .. y - x PROVE r[i] = c[(a + x) + i]
  <2>1. x + i \in 1 .. n /\ a + (x + i) = (a + x) + i
    BY <1>2
  <2>2. s[x + i] = c[a + (x + i)]
    BY <1>2, <2>1, Zenon DEF PartOf
  <2> QED
    BY <1>4, <2>1, <2>2, Zenon
<1>7. (a + x) + Len(r) <= Len(c)
  BY <1>2, <1>4, <1>5
<1>8. PartOf(r, c, a + x)
  BY <1>4, <1>6, <1>7, Zenon DEF PartOf
<1> QED
  BY <1>3, <1>4, <1>8

LEMMA PartSame ==
  ASSUME NEW s, NEW t, NEW c, NEW a \in Nat, PartOf(s, c, a), PartOf(t, c, a), Len(s) = Len(t)
  PROVE  s = t
<1>1. IsSeq(s) /\ IsSeq(t) /\ \A i \in 1 .. Len(s) : s[i] = t[i]
  BY Zenon DEF PartOf
<1> QED
  BY <1>1, SameSeq, Zenon

LEMMA PartEmpty ==
  ASSUME NEW c, NEW a \in Nat, Len(c) \in Nat, a <= Len(c)
  PROVE  PartOf(<<>>, c, a) /\ Len(<<>>) = 0
<1>1. a + 0 <= Len(c) /\ 1 .. 0 = {}
  OBVIOUS
<1> QED
  BY <1>1, SmallSeqs DEF PartOf
-----------------------------------------------------------------------------
(* The content of a cluster *)

LEMMA OneMoreTime ==
  ASSUME NEW k \in Nat, NEW w \in Nat
  PROVE  k * w \in Nat /\ (k + 1) * w = k * w + w
OBVIOUS

OffsetUnitsOf(cl) == [i \in 1 .. Len(cl.sizes) + 1 |-> OffsetUnit(cl, i)]
BlobUnitsOf(cl) == [i \in 1 .. Len(cl.sizes) |-> BlobUnits(cl, i)]

LEMMA OffsetUnitFacts ==
  ASSUME NEW cl \in Clusters, NEW i
  PROVE  /\ IsSeq(OffsetUnit(cl, i)) /\ Len(OffsetUnit(cl, i)) = OffsetSize(cl)
         /\ \A k \in 1 .. OffsetSize(cl) :
              OffsetUnit(cl, i)[k] = <<"offset", OffsetType(cl, BlobOffset(cl, i) + DataStart(cl)), k>>
<1>1. PICK n \in Nat : n = OffsetSize(cl)
  BY ClusterFacts
<1>2. PICK v : v = OffsetType(cl, BlobOffset(cl, i) + DataStart(cl))
  OBVIOUS
<1>3. PICK s : s = [k \in 1 .. n |-> <<"offset", v, k>>]
  OBVIOUS
<1>4. s = [k \in 1 .. n |-> s[k]] /\ \A k \in 1 .. n : s[k] = <<"offset", v, k>>
  BY <1>3
<1>5. IsSeq(s) /\ Len(s) = n
  BY <1>4, FunctionSeq
<1> QED
  BY <1>1, <1>2, <1>3, <1>4, <1>5, Zenon DEF OffsetUnit

LEMMA BlobUnitFacts ==
  ASSUME NEW cl \in Clusters, NEW i \in 1 .. Len(cl.sizes)
  PROVE  IsSeq(BlobUnits(cl, i)) /\ Len(BlobUnits(cl, i)) = cl.sizes[i]
<1>1. PICK n \in Nat : n = cl.sizes[i]
  BY ClusterFacts
<1>2. PICK s : s = [j \in 1 .. n |-> <<"byte", i, j>>]
  OBVIOUS
<1>3. s = [j \in 1 .. n |-> s[j]]
  BY <1>2
<1>4. IsSeq(s) /\ Len(s) = n
  BY <1>3, FunctionSeq
<1> QED
  BY <1>1, <1>2, <1>4, Zenon DEF BlobUnits

\* A function of sequences is a sequence of sequences over some set.
LEMMA SeqOfSeqs ==
  ASSUME NEW n \in Nat, NEW s, s = [i \in 1 .. n |-> s[i]], \A i \in 1 .. n : IsSeq(s[i])
  PROVE  \E S : s \in Seq(Seq(S)) /\ Len(s) = n
<1> DEFINE Elements(r) == {r[k] : k \in 1 .. Len(r)}
<1>1. PICK S : S = UNION {Elements(s[i]) : i \in 1 .. n}
  OBVIOUS
<1>2. ASSUME NEW i \in 1 .. n PROVE s[i] \in Seq(S)
  <2>1. PICK T : s[i] \in Seq(T)
    BY <1>2 DEF IsSeq
  <2>2. Len(s[i]) \in Nat /\ s[i] \in [1 .. Len(s[i]) -> T]
    BY <2>1, LenProperties
  <2>3. ASSUME NEW k \in 1 .. Len(s[i]) PROVE s[i][k] \in S
    <3>1. s[i][k] \in Elements(s[i])
      OBVIOUS
    <3> HIDE DEF Elements
    <3> QED
      BY <1>1, <3>1
  <2>4. s[i] \in [1 .. Len(s[i]) -> S]
    BY <2>2, <2>3
  <2> QED
    BY <2>2, <2>4
<1>3. PICK V : V = Seq(S)
  OBVIOUS
<1>4. s \in [1 .. n -> V]
  BY <1>2, <1>3, Zenon
<1>5. s \in Seq(V) /\ Len(s) = n
  BY <1>4
<1> QED
  BY <1>3, <1>5, Zenon

LEMMA OffsetsLaid ==
  ASSUME NEW cl \in Clusters
  PROVE  /\ IsSeq(FlattenSeq(OffsetUnitsOf(cl)))
         /\ Len(FlattenSeq(OffsetUnitsOf(cl))) = DataStart(cl)
         /\ \A i \in 1 .. Len(cl.sizes) + 1 :
              PartOf(OffsetUnit(cl, i), FlattenSeq(OffsetUnitsOf(cl)), (i - 1) * OffsetSize(cl))
<1>1. PICK n \in Nat : n = Len(cl.sizes) + 1
  BY ClusterFacts
<1>2. PICK w \in Nat \ {0} : w = OffsetSize(cl)
  BY ClusterFacts
<1>3. PICK s : s = OffsetUnitsOf(cl)
  OBVIOUS
<1>4. s = [i \in 1 .. n |-> s[i]] /\ \A i \in 1 .. n : s[i] = OffsetUnit(cl, i)
  BY <1>1, <1>3 DEF OffsetUnitsOf
<1>5. \A i \in 1 .. n : IsSeq(s[i]) /\ Len(s[i]) = w
  BY <1>2, <1>4, OffsetUnitFacts, Zenon
<1>6. PICK S : s \in Seq(Seq(S)) /\ Len(s) = n
  BY <1>4, <1>5, SeqOfSeqs
<1>7. PICK m : m = [k \in 0 .. n |-> k * w]
  OBVIOUS
<1>n. n # 0 /\ 1 \in 1 .. n /\ 0 \in 0 .. n /\ 1 \in 0 .. n
  BY <1>1, ClusterFacts
<1>8. m[0] = 0 /\ m[1] = Len(s[1])
  BY <1>5, <1>7, <1>n
<1>9. \A k \in 1 .. n : m[k] \in Nat
  BY <1>7, OneMoreTime
<1>10. \A k \in 1 .. n - 1 : m[k + 1] = m[k] + Len(s[k + 1])
  <2> SUFFICES ASSUME NEW k \in 1 .. n - 1 PROVE m[k + 1] = m[k] + Len(s[k + 1])
    OBVIOUS
  <2>1. k \in Nat /\ k \in 0 .. n /\ k + 1 \in 0 .. n /\ k + 1 \in 1 .. n
    OBVIOUS
  <2>2. m[k + 1] = (k + 1) * w /\ m[k] = k * w /\ Len(s[k + 1]) = w
    BY <1>5, <1>7, <2>1
  <2>3. (k + 1) * w = k * w + w
    BY <2>1, OneMoreTime
  <2> QED
    BY <2>2, <2>3, Zenon
<1>11. PICK c : c = FlattenSeq(s)
  OBVIOUS
<1>12. c \in Seq(S) /\ Laid(c, s, m, n)
  BY <1>6, <1>8, <1>9, <1>10, <1>11, <1>n, FlattenFacts
<1>13. IsSeq(c) /\ Len(c) = m[n] /\ m[n] = n * w
  BY <1>7, <1>12 DEF Laid, IsSeq
<1>14. ASSUME NEW i \in 1 .. n PROVE PartOf(OffsetUnit(cl, i), c, (i - 1) * w)
  <2>1. PICK a : a = (i - 1) * w
    OBVIOUS
  <2>2. i - 1 \in Nat /\ i - 1 \in 0 .. n
    OBVIOUS
  <2>3. a \in Nat /\ m[i - 1] = a
    BY <1>7, <2>1, <2>2, OneMoreTime
  <2>4. \A x \in 1 .. w : a + x \in 1 .. m[n] /\ c[a + x] = s[i][x]
    BY <1>5, <1>12, <2>3, Zenon DEF Laid
  <2>5. m[n] \in Nat
    BY <1>9, <1>n
  <2>6. a + w <= m[n]
    BY <2>3, <2>4, <2>5
  <2>7. PartOf(s[i], c, a)
    BY <1>5, <1>13, <2>4, <2>6, Zenon DEF PartOf
  <2> QED
    BY <1>4, <2>1, <2>7, Zenon
<1>15. DataStart(cl) = n * w
  BY <1>1, <1>2, Zenon DEF DataStart
<1> QED
  BY <1>1, <1>2, <1>3, <1>11, <1>13, <1>14, <1>15, Zenon

LEMMA BlobsLaid ==
  ASSUME NEW cl \in Clusters
  PROVE  /\ IsSeq(FlattenSeq(BlobUnitsOf(cl)))
         /\ Len(FlattenSeq(BlobUnitsOf(cl))) = BlobOffset(cl, Len(cl.sizes) + 1)
         /\ \A i \in 1 .. Len(cl.sizes) :
              PartOf(BlobUnits(cl, i), FlattenSeq(BlobUnitsOf(cl)), BlobOffset(cl, i))
<1>1. PICK n \in Nat : n = Len(cl.sizes)
  BY ClusterFacts
<1>3. PICK s : s = BlobUnitsOf(cl)
  OBVIOUS
<1>4. s = [i \in 1 .. n |-> s[i]] /\ \A i \in 1 .. n : s[i] = BlobUnits(cl, i)
  BY <1>1, <1>3 DEF BlobUnitsOf
<1>5. \A i \in 1 .. n : IsSeq(s[i]) /\ Len(s[i]) = cl.sizes[i]
  BY <1>1, <1>4, BlobUnitFacts, Zenon
<1>6. PICK S : s \in Seq(Seq(S)) /\ Len(s) = n
  BY <1>4, <1>5, SeqOfSeqs
<1>7. /\ BlobOffset(cl, 1) = 0
      /\ \A i \in 1 .. n : BlobOffset(cl, i + 1) = BlobOffset(cl, i) + cl.sizes[i]
      /\ \A i \in 1 .. n + 1 : BlobOffset(cl, i) \in Nat /\ BlobOffset(cl, i) <= BlobOffset(cl, n + 1)
  BY <1>1, SumFacts, SumsGrow
<1>11. PICK c : c = FlattenSeq(s)
  OBVIOUS
<1>12. CASE n = 0
  <2>1. s = <<>>
    BY <1>6, <1>12
  <2>2. FlattenSeq(<<>>) = <<>>
    BY SmallSeqs DEF FlattenSeq
  <2>3. IsSeq(c) /\ Len(c) = 0 /\ 1 .. n = {} /\ n + 1 = 1
    BY <1>11, <1>12, <2>1, <2>2, SmallSeqs
  <2> QED
    BY <1>1, <1>3, <1>7, <1>11, <2>3, Zenon
<1>13. CASE n # 0
  <2>1. PICK m : m = [k \in 0 .. n |-> BlobOffset(cl, k + 1)]
    OBVIOUS
  <2>2. \A k \in 0 .. n : k + 1 \in 1 .. n + 1 /\ m[k] = BlobOffset(cl, k + 1) /\ m[k] \in Nat /\ m[k] <= m[n]
    BY <1>7, <2>1
  <2>3. m[0] = 0 /\ m[1] = Len(s[1])
    <3>1. 0 \in 0 .. n /\ 1 \in 0 .. n /\ 1 \in 1 .. n /\ 0 + 1 = 1
      BY <1>13
    <3>2. m[0] = BlobOffset(cl, 0 + 1) /\ m[1] = BlobOffset(cl, 1 + 1)
      BY <2>2, <3>1, Zenon
    <3>3. BlobOffset(cl, 1 + 1) = BlobOffset(cl, 1) + cl.sizes[1] /\ cl.sizes[1] \in Nat
      BY <1>1, <1>7, <3>1, ClusterFacts, Zenon
    <3>4. Len(s[1]) = cl.sizes[1] /\ BlobOffset(cl, 1) = 0
      BY <1>5, <1>7, <3>1, Zenon
    <3> QED
      BY <3>1, <3>2, <3>3, <3>4
  <2>4. ASSUME NEW k \in 1 .. n - 1 PROVE m[k + 1] = m[k] + Len(s[k + 1])
    <3>1. k \in 0 .. n /\ k + 1 \in 0 .. n /\ k + 1 \in 1 .. n
      OBVIOUS
    <3>2. m[k + 1] = BlobOffset(cl, (k + 1) + 1) /\ m[k] = BlobOffset(cl, k + 1)
      BY <2>2, <3>1, Zenon
    <3>3. BlobOffset(cl, (k + 1) + 1) = BlobOffset(cl, k + 1) + cl.sizes[k + 1]
      BY <1>7, <3>1, Zenon
    <3> QED
      BY <1>5, <3>1, <3>2, <3>3, Zenon
  <2>5. \A k \in 1 .. n : m[k] \in Nat
    BY <2>2
  <2>6. c \in Seq(S) /\ Laid(c, s, m, n)
    BY <1>6, <1>11, <1>13, <2>3, <2>4, <2>5, FlattenFacts
  <2>7. IsSeq(c) /\ Len(c) = m[n] /\ m[n] = BlobOffset(cl, n + 1)
    <3>1. n \in 0 .. n
      OBVIOUS
    <3> QED
      BY <2>2, <2>6, <3>1, Zenon DEF Laid, IsSeq
  <2>8. ASSUME NEW i \in 1 .. n PROVE PartOf(BlobUnits(cl, i), c, BlobOffset(cl, i))
    <3>1. PICK a \in Nat : a = BlobOffset(cl, i)
      BY <1>7
    <3>2. i - 1 \in 0 .. n /\ (i - 1) + 1 = i /\ i + 1 \in 1 .. n + 1
      OBVIOUS
    <3>3. m[i - 1] = a
      BY <2>2, <3>1, <3>2, Zenon
    <3>4. \A x \in 1 .. Len(s[i]) : c[a + x] = s[i][x]
      BY <2>6, <3>3, Zenon DEF Laid
    <3>5. a + cl.sizes[i] <= BlobOffset(cl, n + 1)
      BY <1>7, <3>1, <3>2, Zenon
    <3>6. PartOf(s[i], c, a)
      BY <1>5, <2>7, <3>4, <3>5, Zenon DEF PartOf
    <3> QED
      BY <1>4, <3>1, <3>6, Zenon
  <2> QED
    BY <1>1, <1>3, <1>11, <2>7, <2>8, Zenon
<1> QED
  BY <1>12, <1>13

\* What the content holds, and where.
LEMMA ContentFacts ==
  ASSUME NEW cl \in Clusters
  PROVE  /\ IsSeq(Content(cl))
         /\ DataStart(cl) \in Nat \ {0}
         /\ Len(Content(cl)) = DataStart(cl) + BlobOffset(cl, Len(cl.sizes) + 1)
         /\ \A i \in 1 .. Len(cl.sizes) + 1 :
              PartOf(OffsetUnit(cl, i), Content(cl), (i - 1) * OffsetSize(cl))
         /\ \A i \in 1 .. Len(cl.sizes) :
              PartOf(BlobUnits(cl, i), Content(cl), DataStart(cl) + BlobOffset(cl, i))
<1>1. PICK o, b : o = FlattenSeq(OffsetUnitsOf(cl)) /\ b = FlattenSeq(BlobUnitsOf(cl))
  BY Zenon
<1>2. PICK c : c = o \o b
  OBVIOUS
<1>3. Content(cl) = c
  BY <1>1, <1>2, Zenon DEF Content, OffsetUnitsOf, BlobUnitsOf
<1>4. /\ IsSeq(o) /\ Len(o) = DataStart(cl)
      /\ \A i \in 1 .. Len(cl.sizes) + 1 : PartOf(OffsetUnit(cl, i), o, (i - 1) * OffsetSize(cl))
  BY <1>1, OffsetsLaid, Zenon
<1>5. /\ IsSeq(b) /\ Len(b) = BlobOffset(cl, Len(cl.sizes) + 1)
      /\ \A i \in 1 .. Len(cl.sizes) : PartOf(BlobUnits(cl, i), b, BlobOffset(cl, i))
  BY <1>1, BlobsLaid, Zenon
<1>6. PICK d \in Nat, e \in Nat : d = Len(o) /\ e = Len(b)
  BY <1>4, <1>5, SeqFacts
<1>7. IsSeq(c) /\ Len(c) = d + e /\ \A i \in 1 .. d + e : c[i] = IF i <= d THEN o[i] ELSE b[i - d]
  BY <1>2, <1>4, <1>5, <1>6, CatFacts
<1>8. d # 0
  <2>1. PICK n \in Nat, w \in Nat \ {0} : n = Len(cl.sizes) /\ w = OffsetSize(cl)
    BY ClusterFacts
  <2>2. d = (n + 1) * w
    BY <1>4, <1>6, <2>1, Zenon DEF DataStart
  <2>3. (n + 1) * w = n * w + w /\ n * w \in Nat
    BY OneMoreTime
  <2> QED
    BY <2>1, <2>2, <2>3
<1>9. ASSUME NEW s, NEW a \in Nat, PartOf(s, o, a) PROVE PartOf(s, c, a)
  <2>1. IsSeq(s) /\ a + Len(s) <= d
    BY <1>6, <1>9 DEF PartOf
  <2>2. PICK k \in Nat : k = Len(s)
    BY <2>1, SeqFacts
  <2>3. ASSUME NEW i \in 1 .. k PROVE s[i] = c[a + i]
    <3>1. a + i \in 1 .. d + e /\ a + i <= d
      BY <2>1, <2>2
    <3> QED
      BY <1>7, <1>9, <2>2, <3>1, Zenon DEF PartOf
  <2>4. a + Len(s) <= Len(c)
    BY <1>7, <2>1, <2>2
  <2> QED
    BY <2>1, <2>2, <2>3, <2>4, Zenon DEF PartOf
<1>10. ASSUME NEW s, NEW a \in Nat, PartOf(s, b, a) PROVE PartOf(s, c, d + a)
  <2>1. IsSeq(s) /\ a + Len(s) <= e
    BY <1>6, <1>10 DEF PartOf
  <2>2. PICK k \in Nat : k = Len(s)
    BY <2>1, SeqFacts
  <2>3. ASSUME NEW i \in 1 .. k PROVE s[i] = c[(d + a) + i]
    <3>1. (d + a) + i \in 1 .. d + e /\ ~ ((d + a) + i <= d) /\ ((d + a) + i) - d = a + i
      BY <2>1, <2>2
    <3>2. c[(d + a) + i] = b[a + i]
      BY <1>7, <3>1, Zenon
    <3> QED
      BY <1>10, <2>2, <3>2, Zenon DEF PartOf
  <2>4. (d + a) + Len(s) <= Len(c)
    BY <1>7, <2>1, <2>2
  <2> QED
    BY <2>1, <2>2, <2>3, <2>4, Zenon DEF PartOf
<1>11. ASSUME NEW i \in 1 .. Len(cl.sizes) + 1 PROVE PartOf(OffsetUnit(cl, i), c, (i - 1) * OffsetSize(cl))
  <2>1. i - 1 \in Nat /\ OffsetSize(cl) \in Nat
    BY ClusterFacts
  <2>2. (i - 1) * OffsetSize(cl) \in Nat
    BY <2>1, OneMoreTime
  <2> QED
    BY <1>4, <1>9, <2>2, Zenon
<1>12. ASSUME NEW i \in 1 .. Len(cl.sizes) PROVE PartOf(BlobUnits(cl, i), c, d + BlobOffset(cl, i))
  <2>1. i \in 1 .. Len(cl.sizes) + 1
    BY ClusterFacts
  <2>2. BlobOffset(cl, i) \in Nat
    BY <2>1, SumFacts
  <2> QED
    BY <1>5, <1>10, <2>2, Zenon
<1>13. d \in Nat \ {0}
  BY <1>6, <1>8
<1> QED
  BY <1>3, <1>4, <1>5, <1>6, <1>7, <1>11, <1>12, <1>13, Zenon
-----------------------------------------------------------------------------
(* The inductive invariant of the writer *)

\* The content as the codec encodes it, with the marks of two frames
Encodings(cl) ==
  [i \in 1 .. Len(Content(cl)) + 2 |-> IF i <= Len(Content(cl)) THEN Encoded(Content(cl)[i]) ELSE EndOfFrame]

\* Where write_content may be, and how many units it has given away by then
GivenOk(cl, o, b, d) ==
  /\ o \in 1 .. Len(cl.sizes) + 2 /\ b \in 1 .. Len(cl.sizes) + 1 /\ d \in Nat
  /\ b <= Len(cl.sizes) => d <= cl.sizes[b]
  /\ b > Len(cl.sizes) => d = 0
  /\ o <= Len(cl.sizes) + 1 => b = 1 /\ d = 0

GivenUnits(cl, o, b, d) == (o - 1) * OffsetSize(cl) + BlobOffset(cl, b) + d
GivenNow == GivenUnits(cluster, given.offset, given.blob, given.done)

\* The output buffer r holds the first t units and has room for a more.
BufferOk(cl, r, t, a) ==
  /\ IsSeq(r) /\ t \in Nat /\ a \in Nat /\ t + a = Len(r)
  /\ \A i \in 1 .. t : r[i] = Encodings(cl)[i]

\* Behind the t units of the output come those that the library holds (h), and
\* then the input that is left (in): all that has been given away.
StepOk(cl, h, f, t, in, g) ==
  /\ f = "open"
  /\ PartOf(h, Encodings(cl), t)
  /\ PartOf(in, Content(cl), t + Len(h))
  /\ t + Len(h) + Len(in) = g

\* At the end the library has all of the content, with the end of the frame
\* once it was asked for that.  zstd ends a second frame when the first one
\* filled the buffer exactly.
FinishOk(cl, h, f, t, a) ==
  /\ PartOf(h, Encodings(cl), t)
  /\ LET total == t + Len(h)
         all == Len(Content(cl))
     IN  \/ f = "open" /\ total = all
         \/ f = "closing" /\ total = all + 1
         \/ f = "closing" /\ cl.codec = "zstd" /\ t = all + 1 /\ Len(h) = 1 /\ a >= 2
         \/ f = "closed" /\ cl.codec = "zstd" /\ t = all + 1 /\ Len(h) = 0 /\ a = 0

RawInv ==
  /\ wpc = "content"
  /\ \E data : /\ file = <<ClusterInfo(cluster)>> \o data
               /\ PartOf(data, Content(cluster), 0) /\ Len(data) = GivenNow

CodecInv ==
  /\ next_out = total_out
  /\ BufferOk(cluster, ret_data, total_out, avail_out)
  /\ \/ /\ step = "STEP" /\ wpc \in {"content", "run"}
        /\ StepOk(cluster, codec.held, codec.frame, total_out, next_in, GivenNow)
        /\ wpc = "content" => next_in = <<>>
     \/ /\ step = "FINISH" /\ wpc = "run" /\ next_in = <<>>
        /\ FinishOk(cluster, codec.held, codec.frame, total_out, avail_out)

WrittenInv ==
  \E data :
    /\ file = Written(data)
    /\ IF cluster.codec = "none" THEN PartOf(data, Content(cluster), 0) /\ Len(data) = Len(Content(cluster))
       ELSE /\ PartOf(data, Encodings(cluster), 0)
            /\ \/ Len(data) = Len(Content(cluster)) + 1
               \/ cluster.codec = "zstd" /\ Len(data) = Len(Content(cluster)) + 2

WriterInv ==
  /\ cluster \in Clusters
  /\ given = [offset |-> given.offset, blob |-> given.blob, done |-> given.done]
  /\ GivenOk(cluster, given.offset, given.blob, given.done)
  /\ wpc = "written" => WrittenInv
  /\ wpc # "written" /\ cluster.codec = "none" => RawInv
  /\ wpc # "written" /\ cluster.codec # "none" => CodecInv

-----------------------------------------------------------------------------
(* The inductive invariant of the reader *)

\* The next unit that stream s delivers is that behind the first q of the
\* content.  f: the file; d: what the decoder has taken of it
RawAt(s, q) == s.avail_out = 0 /\ s.pos = q
DecoderAt(f, cl, s, q, d) ==
  /\ d \in Nat /\ s.pos \in Nat /\ s.pos = d + Len(s.chunk)
  /\ PartOf(s.chunk, f, 1 + d)
  /\ s.ended \in BOOLEAN
  /\ IF s.ended THEN d = Len(Content(cl)) + 1 ELSE d <= Len(Content(cl))
  /\ PartOf(s.held, Content(cl), q)
  /\ q + Len(s.held) = IF s.ended THEN Len(Content(cl)) ELSE d

IsStream(s) ==
  s = [pos |-> s.pos, chunk |-> s.chunk, held |-> s.held, ended |-> s.ended, buf |-> s.buf,
       avail_out |-> s.avail_out]

StreamAt(f, cl, s, q) ==
  /\ IsStream(s)
  /\ q \in Nat
  /\ IF cl.codec = "none" THEN RawAt(s, q) ELSE DecoderAt(f, cl, s, q, s.pos - Len(s.chunk))

\* The stream is reading n units from start on.
ReadingAt(f, cl, s, start, n) ==
  /\ start \in Nat /\ n \in Nat /\ start + n <= Len(Content(cl))
  /\ PartOf(s.buf, Content(cl), start)
  /\ s.avail_out \in Nat /\ Len(s.buf) + s.avail_out = n
  /\ StreamAt(f, cl, s, start + Len(s.buf))

OffsetTable(cl) == [i \in 1 .. Len(cl.sizes) + 1 |-> DataStart(cl) + BlobOffset(cl, i)]
BlobStart(cl, i) == DataStart(cl) + BlobOffset(cl, i)

\* The first b blobs have their readers.
ReadersOk(cl, readers, b) ==
  /\ IsSeq(readers) /\ Len(readers) = b /\ b <= Len(cl.sizes)
  /\ \A i \in 1 .. b : readers[i] = BlobUnits(cl, i)

\* Somebody reads the blob behind them, or the stream is at its beginning.
BlobReading(f, cl, s, b) ==
  b < Len(cl.sizes) /\ ReadingAt(f, cl, s, BlobStart(cl, b + 1), cl.sizes[b + 1])
BlobAhead(f, cl, s, b) == StreamAt(f, cl, s, BlobStart(cl, b + 1))

Reading == \E t \in Threads : req[t].pc = "reading"

IsRequest(r) == r = [pc |-> r.pc, n |-> r.n, offset |-> r.offset, size |-> r.size, blob |-> r.blob]

\* The answer to r is what was asked for.
AnswerExact(cl, r) ==
  LET blob == IF r.n < Len(cl.sizes) THEN BlobUnits(cl, r.n + 1) ELSE <<>>
  IN  r.blob = SubSeq(blob, r.offset + 1, Least(Len(blob), r.offset + r.size))

RequestOk(cl, r) ==
  /\ IsRequest(r)
  /\ r.n \in Nat /\ r.offset \in Nat /\ r.size \in Nat
  /\ r.pc \in {"lock", "locked", "reading"} => r.n < Len(cl.sizes) /\ r.offset <= cl.sizes[r.n + 1]
  /\ r.pc = "done" => AnswerExact(cl, r)

RequestsInv ==
  /\ req = [t \in Threads |-> req[t]]
  /\ \A t \in Threads : RequestOk(cluster, req[t])
  /\ \A t \in Threads : req[t].pc \in {"locked", "reading"} <=> m_readerAccessMutex = t

\* The cluster is being opened.
OpeningInv ==
  /\ m_blobReaders = <<>> /\ \A t \in Threads : req[t].pc = "idle"
  /\ \/ rpc = "closed"
     \/ /\ rpc = "first" /\ wpc = "written"
        /\ ReadingAt(file, cluster, stream, 0, OffsetSize(cluster))
     \/ /\ rpc = "offsets" /\ wpc = "written" /\ m_blobOffsets = <<DataStart(cluster)>>
        /\ ReadingAt(file, cluster, stream, OffsetSize(cluster), DataStart(cluster) - OffsetSize(cluster))
     \/ rpc = "threw" /\ wpc = "written"

\* The clusters that are opened, and those that are refused
VerdictInv ==
  /\ rpc = "threw" => ~ OffsetsFit(cluster)
  /\ rpc = "open" => OffsetsFit(cluster)

OpenInv ==
  /\ rpc = "open" /\ wpc = "written" /\ m_blobOffsets = OffsetTable(cluster)
  /\ ReadersOk(cluster, m_blobReaders, Len(m_blobReaders))
  /\ Reading => BlobReading(file, cluster, stream, Len(m_blobReaders))
  /\ ~ Reading => BlobAhead(file, cluster, stream, Len(m_blobReaders))

ReaderInv == RequestsInv /\ (OpeningInv \/ OpenInv)

-----------------------------------------------------------------------------
(* The writer *)

LEMMA EncodingFacts ==
  ASSUME NEW cl \in Clusters
  PROVE  /\ Len(Content(cl)) \in Nat \ {0}
         /\ IsSeq(Encodings(cl)) /\ Len(Encodings(cl)) = Len(Content(cl)) + 2
         /\ \A i \in 1 .. Len(Content(cl)) : Encodings(cl)[i] = Encoded(Content(cl)[i])
         /\ Encodings(cl)[Len(Content(cl)) + 1] = EndOfFrame
         /\ Encodings(cl)[Len(Content(cl)) + 2] = EndOfFrame
<1>1. PICK c : c = Content(cl)
  OBVIOUS
<1>2. PICK l \in Nat \ {0} : l = Len(c)
  <2>1. PICK d \in Nat \ {0} : d = DataStart(cl)
    BY ContentFacts
  <2>2. PICK e \in Nat : e = BlobOffset(cl, Len(cl.sizes) + 1)
    BY ClusterFacts, SumFacts
  <2>3. Len(c) = d + e
    BY <1>1, <2>1, <2>2, ContentFacts, Zenon
  <2> QED
    BY <2>3
<1>3. PICK z : z = Encodings(cl)
  OBVIOUS
<1>4. z = [i \in 1 .. l + 2 |-> IF i <= l THEN Encoded(c[i]) ELSE EndOfFrame]
  BY <1>1, <1>2, <1>3, Zenon DEF Encodings
<1>5. z = [i \in 1 .. l + 2 |-> z[i]]
  BY <1>4
<1>6. IsSeq(z) /\ Len(z) = l + 2
  BY <1>2, <1>5, FunctionSeq
<1>7. \A i \in 1 .. l : i \in 1 .. l + 2 /\ i <= l
  BY <1>2
<1>8. \A i \in 1 .. l : z[i] = Encoded(c[i])
  BY <1>4, <1>7, Zenon
<1>9. l + 1 \in 1 .. l + 2 /\ l + 2 \in 1 .. l + 2 /\ ~ (l + 1 <= l) /\ ~ (l + 2 <= l)
  BY <1>2
<1>10. z[l + 1] = EndOfFrame /\ z[l + 2] = EndOfFrame
  BY <1>4, <1>9, Zenon
<1> QED
  BY <1>1, <1>2, <1>3, <1>6, <1>8, <1>10, Zenon

LEMMA GivenNumber ==
  ASSUME NEW cl \in Clusters, NEW o, NEW b, NEW d, GivenOk(cl, o, b, d)
  PROVE  GivenUnits(cl, o, b, d) \in Nat
<1>1. PICK w \in Nat, n \in Nat : w = OffsetSize(cl) /\ n = Len(cl.sizes)
  BY ClusterFacts
<1>2. PICK k \in Nat : k = o - 1
  BY <1>1 DEF GivenOk
<1>3. k * w \in Nat
  BY OneMoreTime
<1>4. b \in 1 .. n + 1 /\ d \in Nat
  BY <1>1 DEF GivenOk
<1>5. BlobOffset(cl, b) \in Nat
  BY <1>1, <1>4, SumFacts
<1>6. GivenUnits(cl, o, b, d) = k * w + BlobOffset(cl, b) + d
  BY <1>1, <1>2, Zenon DEF GivenUnits
<1> QED
  BY <1>3, <1>4, <1>5, <1>6

LEMMA OffsetGiven ==
  ASSUME NEW cl \in Clusters, NEW o, NEW b, NEW d, GivenOk(cl, o, b, d), o <= Len(cl.sizes) + 1
  PROVE  /\ GivenOk(cl, o + 1, b, d)
         /\ PartOf(OffsetUnit(cl, o), Content(cl), GivenUnits(cl, o, b, d))
         /\ GivenUnits(cl, o + 1, b, d) = GivenUnits(cl, o, b, d) + Len(OffsetUnit(cl, o))
<1>1. PICK w \in Nat, n \in Nat : w = OffsetSize(cl) /\ n = Len(cl.sizes)
  BY ClusterFacts
<1>2. o \in 1 .. n + 1 /\ b = 1 /\ d = 0 /\ b \in 1 .. n + 1
  BY <1>1 DEF GivenOk
<1>3. PICK k \in Nat : k = o - 1
  BY <1>1, <1>2
<1>4. k * w \in Nat /\ (k + 1) * w = k * w + w
  BY OneMoreTime
<1>5. BlobOffset(cl, 1) = 0
  BY SumFacts
<1>6. GivenUnits(cl, o, b, d) = k * w
  <2>1. GivenUnits(cl, o, b, d) = k * w + 0 + 0
    BY <1>1, <1>2, <1>3, <1>5, Zenon DEF GivenUnits
  <2> QED
    BY <1>4, <2>1
<1>7. GivenUnits(cl, o + 1, b, d) = k * w + w
  <2>1. (o + 1) - 1 = k + 1
    BY <1>1, <1>2, <1>3
  <2>2. GivenUnits(cl, o + 1, b, d) = (k + 1) * w + 0 + 0
    BY <1>1, <1>2, <1>5, <2>1, Zenon DEF GivenUnits
  <2> QED
    BY <1>1, <1>4, <2>2
<1>8. PartOf(OffsetUnit(cl, o), Content(cl), k * w) /\ Len(OffsetUnit(cl, o)) = w
  BY <1>1, <1>2, <1>3, ContentFacts, OffsetUnitFacts, Zenon
<1>9. GivenOk(cl, o + 1, b, d)
  BY <1>1, <1>2 DEF GivenOk
<1> QED
  BY <1>6, <1>7, <1>8, <1>9, Zenon

\* Behind the offsets: the blobs before, and what is given of this one
LEMMA BehindOffsets ==
  ASSUME NEW cl \in Clusters, NEW o, NEW b, NEW d, GivenOk(cl, o, b, d), ~ (o <= Len(cl.sizes) + 1)
  PROVE  GivenUnits(cl, o, b, d) = DataStart(cl) + BlobOffset(cl, b) + d
<1>1. PICK n \in Nat : n = Len(cl.sizes)
  BY ClusterFacts
<1>2. o - 1 = n + 1
  BY <1>1 DEF GivenOk
<1> QED
  BY <1>1, <1>2, Zenon DEF GivenUnits, DataStart

BlobPart(cl, b, d, e) == SubSeq(BlobUnits(cl, b), d + 1, e)

\* From d to e, blob b is given away next.
InBlob(cl, o, b, d, e) ==
  /\ cl \in Clusters /\ GivenOk(cl, o, b, d)
  /\ ~ (o <= Len(cl.sizes) + 1) /\ b <= Len(cl.sizes)
  /\ e \in Nat /\ d <= e /\ e <= cl.sizes[b]

LEMMA BlobGiven ==
  ASSUME NEW cl, NEW o, NEW b, NEW d, NEW e, InBlob(cl, o, b, d, e)
  PROVE  /\ GivenOk(cl, o, b, e)
         /\ PartOf(BlobPart(cl, b, d, e), Content(cl), GivenUnits(cl, o, b, d))
         /\ GivenUnits(cl, o, b, e) = GivenUnits(cl, o, b, d) + Len(BlobPart(cl, b, d, e))
<1>0. /\ cl \in Clusters /\ GivenOk(cl, o, b, d)
      /\ ~ (o <= Len(cl.sizes) + 1) /\ b <= Len(cl.sizes)
      /\ e \in Nat /\ d <= e /\ e <= cl.sizes[b]
  BY DEF InBlob
<1> USE <1>0
<1>1. PICK n \in Nat : n = Len(cl.sizes)
  BY ClusterFacts
<1>2. b \in 1 .. n /\ d \in Nat /\ b \in 1 .. n + 1 /\ ~ (b > n)
  BY <1>1 DEF GivenOk
<1>3. GivenOk(cl, o, b, e)
  BY <1>1, <1>2, Zenon DEF GivenOk
<1>4. PICK a \in Nat : a = DataStart(cl) + BlobOffset(cl, b)
  BY <1>1, <1>2, ContentFacts, SumFacts
<1>5. GivenUnits(cl, o, b, d) = a + d /\ GivenUnits(cl, o, b, e) = a + e
  BY <1>3, <1>4, BehindOffsets, ZenonT(60)
<1>6. PICK s : s = BlobUnits(cl, b)
  OBVIOUS
<1>7. PartOf(s, Content(cl), a) /\ Len(s) = cl.sizes[b]
  BY <1>1, <1>2, <1>4, <1>6, ContentFacts, BlobUnitFacts, Zenon
<1>8. Len(Content(cl)) \in Nat /\ e <= Len(s)
  BY <1>7, EncodingFacts
<1>9. PartOf(SubSeq(s, d + 1, e), Content(cl), a + d) /\ Len(SubSeq(s, d + 1, e)) = e - d
  BY <1>2, <1>7, <1>8, PartSub
<1>10. a + e = (a + d) + (e - d)
  BY <1>2
<1> QED
  BY <1>3, <1>5, <1>6, <1>9, <1>10, Zenon DEF BlobPart

LEMMA ProviderGiven ==
  ASSUME NEW cl \in Clusters, NEW o, NEW b, NEW d, GivenOk(cl, o, b, d), ~ (o <= Len(cl.sizes) + 1),
         b <= Len(cl.sizes), d = cl.sizes[b]
  PROVE  GivenOk(cl, o, b + 1, 0) /\ GivenUnits(cl, o, b + 1, 0) = GivenUnits(cl, o, b, d)
<1>1. PICK n \in Nat : n = Len(cl.sizes) /\ \A i \in 1 .. n : cl.sizes[i] \in Nat
  BY ClusterFacts
<1>2. b \in 1 .. n /\ d \in Nat /\ b + 1 \in 1 .. n + 1 /\ b \in 1 .. n + 1
  BY <1>1 DEF GivenOk
<1>3. GivenOk(cl, o, b + 1, 0)
  <2>1. b + 1 <= n => 0 <= cl.sizes[b + 1]
    BY <1>1, <1>2
  <2> QED
    BY <1>1, <1>2, <2>1, Zenon DEF GivenOk
<1>4. GivenUnits(cl, o, b, d) = DataStart(cl) + BlobOffset(cl, b) + d
  BY BehindOffsets
<1>5. GivenUnits(cl, o, b + 1, 0) = DataStart(cl) + BlobOffset(cl, b + 1) + 0
  BY <1>3, BehindOffsets, ZenonT(60)
<1>6. BlobOffset(cl, b + 1) = BlobOffset(cl, b) + d /\ BlobOffset(cl, b) \in Nat /\ DataStart(cl) \in Nat
  BY <1>1, <1>2, SumFacts, ContentFacts
<1> QED
  BY <1>2, <1>3, <1>4, <1>5, <1>6

LEMMA AllGiven ==
  ASSUME NEW cl \in Clusters, NEW o, NEW b, NEW d, GivenOk(cl, o, b, d), ~ (o <= Len(cl.sizes) + 1),
         ~ (b <= Len(cl.sizes))
  PROVE  GivenUnits(cl, o, b, d) = Len(Content(cl))
<1>1. PICK n \in Nat : n = Len(cl.sizes)
  BY ClusterFacts
<1>2. b = n + 1 /\ d = 0 /\ b \in 1 .. n + 1
  BY <1>1 DEF GivenOk
<1>3. GivenUnits(cl, o, b, d) = DataStart(cl) + BlobOffset(cl, n + 1) + 0
  BY <1>2, BehindOffsets, ZenonT(60)
<1>4. DataStart(cl) \in Nat /\ BlobOffset(cl, n + 1) \in Nat
  BY <1>1, <1>2, ContentFacts, SumFacts
<1>5. Len(Content(cl)) = DataStart(cl) + BlobOffset(cl, n + 1)
  BY <1>1, ContentFacts, Zenon
<1> QED
  BY <1>3, <1>4, <1>5
\* The record of given, as the steps change it
GivenRecord(o, b, d) == [offset |-> o, blob |-> b, done |-> d]

\* write_content gives a piece away: it goes to the file, or is the next input.
LEMMA WriterGives ==
  ASSUME WriterInv, wpc = "content", NEW piece, Writer(piece),
         PartOf(piece, Content(cluster), GivenNow),
         NEW o, NEW b, NEW d, given' = GivenRecord(o, b, d), GivenOk(cluster, o, b, d),
         GivenUnits(cluster, o, b, d) = GivenNow + Len(piece),
         UNCHANGED <<cluster, step, next_out, avail_out, total_out, ret_data, codec>>
  PROVE  WriterInv'
<1>0. PICK g \in Nat : g = GivenNow
  BY GivenNumber, Zenon DEF WriterInv, GivenNow
<1>1. cluster \in Clusters /\ IsSeq(piece)
  BY DEF WriterInv, PartOf
<1>2. PICK k \in Nat : k = Len(piece)
  BY <1>1, SeqFacts
<1>3. /\ cluster' \in Clusters
      /\ given' = [offset |-> given'.offset, blob |-> given'.blob, done |-> given'.done]
      /\ given'.offset = o /\ given'.blob = b /\ given'.done = d
  BY <1>1 DEF GivenRecord
<1>4. GivenNow' = g + k
  BY <1>0, <1>2, <1>3 DEF GivenNow
<1>5. GivenOk(cluster', given'.offset, given'.blob, given'.done)
  BY <1>3, Zenon
<1>6. CASE cluster.codec = "none"
  <2>1. wpc' = "content" /\ file' = file \o piece
    BY <1>6 DEF Writer
  <2>2. PICK data : /\ file = <<ClusterInfo(cluster)>> \o data
                    /\ PartOf(data, Content(cluster), 0) /\ Len(data) = GivenNow
    BY <1>6 DEF WriterInv, RawInv
  <2>3. PICK info : info = <<ClusterInfo(cluster)>>
    OBVIOUS
  <2>4. IsSeq(info) /\ IsSeq(data)
    BY <2>2, <2>3, SmallSeqs, Zenon DEF PartOf
  <2>5. file' = info \o (data \o piece)
    <3>1. file' = (info \o data) \o piece
      BY <2>1, <2>2, <2>3, Zenon
    <3>2. (info \o data) \o piece = info \o (data \o piece)
      BY <1>1, <2>4, CatAssociates
    <3> QED
      BY <3>1, <3>2, Zenon
  <2>6. PICK new : new = data \o piece
    OBVIOUS
  <2>7. PartOf(new, Content(cluster), 0) /\ Len(new) = g + k
    <3>1. g = 0 + Len(data) /\ Len(data) = g
      BY <1>0, <2>2
    <3>2. PartOf(piece, Content(cluster), g)
      BY <1>0, Zenon
    <3>3. PartOf(data \o piece, Content(cluster), 0) /\ Len(data \o piece) = Len(data) + Len(piece)
      BY <2>2, <3>1, <3>2, PartCat
    <3> QED
      BY <1>2, <2>6, <3>1, <3>3, Zenon
  <2>8. ClusterInfo(cluster)' = ClusterInfo(cluster) /\ Content(cluster)' = Content(cluster) /\ cluster' = cluster
    BY DEF ClusterInfo, Content, Extended, OffsetUnit, BlobUnits, OffsetSize, OffsetType, BlobOffset, DataStart
  <2>9. RawInv'
    BY <1>4, <2>1, <2>3, <2>5, <2>6, <2>7, <2>8, Zenon DEF RawInv
  <2> QED
    BY <1>3, <1>5, <1>6, <2>1, <2>8, <2>9 DEF WriterInv
<1>7. CASE cluster.codec # "none"
  <2>1. wpc' = "run" /\ next_in' = piece
    BY <1>7 DEF Writer
  <2>2. /\ CodecInv /\ step = "STEP"
        /\ StepOk(cluster, codec.held, codec.frame, total_out, next_in, GivenNow) /\ next_in = <<>>
    BY <1>7 DEF WriterInv, CodecInv
  <2>3. PICK t \in Nat, h \in Nat : t = total_out /\ h = Len(codec.held)
    BY <2>2, SeqFacts DEF CodecInv, BufferOk, StepOk, PartOf
  <2>4. t + h = g
    <3>1. t + h + Len(next_in) = g /\ Len(next_in) = 0
      BY <1>0, <2>2, <2>3, SmallSeqs, Zenon DEF StepOk
    <3> QED
      BY <2>3, <3>1
  <2>5. StepOk(cluster, codec.held, codec.frame, t, piece, g + k)
    <3>1. PartOf(piece, Content(cluster), t + Len(codec.held))
      BY <1>0, <2>3, <2>4, Zenon
    <3>2. t + Len(codec.held) + Len(piece) = g + k
      BY <1>2, <2>3, <2>4, Zenon
    <3> QED
      BY <2>2, <2>3, <3>1, <3>2, Zenon DEF StepOk
  <2>6. StepOk(cluster', codec'.held, codec'.frame, total_out', next_in', GivenNow')
    BY <1>4, <2>1, <2>3, <2>5, Zenon
  <2>7. BufferOk(cluster', ret_data', total_out', avail_out') /\ next_out' = total_out' /\ step' = "STEP"
    BY <2>2, Zenon DEF CodecInv
  <2>8. CodecInv'
    BY <2>1, <2>6, <2>7 DEF CodecInv
  <2> QED
    BY <1>3, <1>5, <1>7, <2>1, <2>8 DEF WriterInv
<1> QED
  BY <1>6, <1>7

LEMMA WriteOffsetKeeps == ASSUME WriterInv, WriteOffset PROVE WriterInv'
<1>1. cluster \in Clusters /\ GivenOk(cluster, given.offset, given.blob, given.done)
  BY DEF WriterInv
<1>2. PICK o, b, d : o = given.offset /\ b = given.blob /\ d = given.done
  BY Zenon
<1>3. PICK n \in Nat : n = Len(cluster.sizes)
  BY <1>1, ClusterFacts
<1>4. o <= Len(cluster.sizes) + 1
  BY <1>1, <1>2, <1>3 DEF WriteOffset, OffsetsGiven, blobCount, GivenOk
<1>5. /\ GivenOk(cluster, o + 1, b, d)
      /\ PartOf(OffsetUnit(cluster, o), Content(cluster), GivenUnits(cluster, o, b, d))
      /\ GivenUnits(cluster, o + 1, b, d) = GivenUnits(cluster, o, b, d) + Len(OffsetUnit(cluster, o))
  BY <1>1, <1>2, <1>4, OffsetGiven, Zenon
<1>6. GivenNow = GivenUnits(cluster, o, b, d)
  BY <1>2, Zenon DEF GivenNow
<1>7. given' = GivenRecord(o + 1, b, d)
  BY <1>2 DEF WriteOffset, WriterInv, GivenRecord
<1>8. PICK piece : piece = OffsetUnit(cluster, o)
  OBVIOUS
<1>9. wpc = "content" /\ Writer(piece) /\ UNCHANGED <<cluster, step, next_out, avail_out, total_out, ret_data, codec>>
  BY <1>2, <1>8, Zenon DEF WriteOffset
<1>10. PICK q : q = o + 1
  OBVIOUS
<1>11. /\ PartOf(piece, Content(cluster), GivenNow) /\ given' = GivenRecord(q, b, d)
       /\ GivenOk(cluster, q, b, d) /\ GivenUnits(cluster, q, b, d) = GivenNow + Len(piece)
  BY <1>5, <1>6, <1>7, <1>8, <1>10, Zenon
<1> QED
  BY <1>9, <1>11, WriterGives

LEMMA WriteBlobKeeps == ASSUME WriterInv, WriteBlob PROVE WriterInv'
<1>1. cluster \in Clusters /\ GivenOk(cluster, given.offset, given.blob, given.done)
  BY DEF WriterInv
<1>2. PICK o, b, d : o = given.offset /\ b = given.blob /\ d = given.done
  BY Zenon
<1>3. PICK n \in Nat : n = Len(cluster.sizes) /\ \A i \in 1 .. n : cluster.sizes[i] \in Nat
  BY <1>1, ClusterFacts
<1>4. ~ (o <= Len(cluster.sizes) + 1) /\ b <= Len(cluster.sizes)
  BY <1>1, <1>2, <1>3 DEF WriteBlob, OffsetsGiven, ContentGiven, blobCount, GivenOk
<1>5. b \in 1 .. n /\ d \in Nat /\ cluster.sizes[b] \in Nat
  BY <1>1, <1>2, <1>3, <1>4 DEF GivenOk
<1>6. PICK e : e = Least(d + FeedSize, cluster.sizes[b])
  OBVIOUS
<1>7. e \in Nat /\ d <= e /\ e <= cluster.sizes[b]
  <2>1. d < cluster.sizes[b]
    BY <1>2 DEF WriteBlob
  <2> QED
    BY <1>5, <1>6, <2>1, SizesAssumption DEF Least
<1>8. PICK piece : piece = BlobPart(cluster, b, d, e)
  OBVIOUS
<1>9. /\ GivenOk(cluster, o, b, e)
      /\ PartOf(piece, Content(cluster), GivenUnits(cluster, o, b, d))
      /\ GivenUnits(cluster, o, b, e) = GivenUnits(cluster, o, b, d) + Len(piece)
  <2>1. GivenOk(cluster, o, b, d)
    BY <1>1, <1>2, Zenon
  <2>2. InBlob(cluster, o, b, d, e)
    BY <1>1, <1>4, <1>7, <2>1, Zenon DEF InBlob
  <2> QED
    BY <1>8, <2>2, BlobGiven, ZenonT(60)
<1>10. GivenNow = GivenUnits(cluster, o, b, d)
  BY <1>2, Zenon DEF GivenNow
<1>11. wpc = "content" /\ Writer(piece) /\ UNCHANGED <<cluster, step, next_out, avail_out, total_out, ret_data, codec>>
  BY <1>2, <1>6, <1>8, Zenon DEF WriteBlob, BlobPart
<1>12. given' = GivenRecord(o, b, e)
  <2>1. given' = [given EXCEPT !.done = e]
    BY <1>2, <1>6, Zenon DEF WriteBlob
  <2> QED
    BY <1>2, <2>1 DEF WriterInv, GivenRecord
<1> QED
  BY <1>9, <1>10, <1>11, <1>12, WriterGives

LEMMA NextProviderKeeps == ASSUME WriterInv, NextProvider PROVE WriterInv'
<1>1. cluster \in Clusters /\ GivenOk(cluster, given.offset, given.blob, given.done)
  BY DEF WriterInv
<1>2. PICK o, b, d : o = given.offset /\ b = given.blob /\ d = given.done
  BY Zenon
<1>3. PICK n \in Nat : n = Len(cluster.sizes) /\ \A i \in 1 .. n : cluster.sizes[i] \in Nat
  BY <1>1, ClusterFacts
<1>4. ~ (o <= Len(cluster.sizes) + 1) /\ b <= Len(cluster.sizes) /\ d = cluster.sizes[b]
  BY <1>1, <1>2, <1>3 DEF NextProvider, OffsetsGiven, ContentGiven, blobCount, GivenOk
<1>5. GivenOk(cluster, o, b + 1, 0) /\ GivenUnits(cluster, o, b + 1, 0) = GivenUnits(cluster, o, b, d)
  BY <1>1, <1>2, <1>4, ProviderGiven, Zenon
<1>6. given' = GivenRecord(o, b + 1, 0)
  BY <1>2 DEF NextProvider, WriterInv, GivenRecord
<1>7. UNCHANGED <<cluster, wpc, step, next_in, next_out, avail_out, total_out, ret_data, codec, file>>
  BY DEF NextProvider
<1>8. /\ given' = [offset |-> given'.offset, blob |-> given'.blob, done |-> given'.done]
      /\ given'.offset = o /\ given'.blob = b + 1 /\ given'.done = 0
  BY <1>6 DEF GivenRecord
<1>9. GivenNow' = GivenNow
  BY <1>2, <1>5, <1>7, <1>8, Zenon DEF GivenNow
<1>10. GivenOk(cluster', given'.offset, given'.blob, given'.done)
  BY <1>5, <1>7, <1>8, Zenon
<1>11. (RawInv => RawInv') /\ (CodecInv => CodecInv')
  BY <1>7, <1>9 DEF RawInv, CodecInv
<1>12. wpc = "content"
  BY DEF NextProvider
<1> QED
  BY <1>7, <1>8, <1>10, <1>11, <1>12 DEF WriterInv

LEMMA WriteEndsKeeps == ASSUME WriterInv, WriteEnds PROVE WriterInv'
<1>1. cluster \in Clusters /\ GivenOk(cluster, given.offset, given.blob, given.done)
  BY DEF WriterInv
<1>3. PICK n \in Nat : n = Len(cluster.sizes)
  BY <1>1, ClusterFacts
<1>4. ~ (given.offset <= Len(cluster.sizes) + 1) /\ ~ (given.blob <= Len(cluster.sizes))
  BY <1>1, <1>3 DEF WriteEnds, OffsetsGiven, ContentGiven, blobCount, GivenOk
<1>5. GivenNow = Len(Content(cluster))
  BY <1>1, <1>4, AllGiven, Zenon DEF GivenNow
<1>6. UNCHANGED <<cluster, given>> /\ wpc' = "written" /\ file' = file \o Units(Trailer) /\ cluster.codec = "none"
  BY DEF WriteEnds
<1>7. PICK data : /\ file = <<ClusterInfo(cluster)>> \o data
                  /\ PartOf(data, Content(cluster), 0) /\ Len(data) = GivenNow
  BY <1>6 DEF WriterInv, RawInv, WriteEnds
<1>8. file' = Written(data)'
  BY <1>6, <1>7 DEF Written
<1>9. WrittenInv'
  BY <1>5, <1>6, <1>7, <1>8 DEF WrittenInv
<1> QED
  BY <1>1, <1>6, <1>9 DEF WriterInv

LEMMA GetDataKeeps == ASSUME WriterInv, GetData PROVE WriterInv'
<1>1. cluster \in Clusters /\ GivenOk(cluster, given.offset, given.blob, given.done)
  BY DEF WriterInv
<1>3. PICK n \in Nat : n = Len(cluster.sizes)
  BY <1>1, ClusterFacts
<1>4. ~ (given.offset <= Len(cluster.sizes) + 1) /\ ~ (given.blob <= Len(cluster.sizes))
  BY <1>1, <1>3 DEF GetData, OffsetsGiven, ContentGiven, blobCount, GivenOk
<1>5. GivenNow = Len(Content(cluster))
  BY <1>1, <1>4, AllGiven, Zenon DEF GivenNow
<1>6. /\ wpc = "content" /\ cluster.codec # "none" /\ step' = "FINISH" /\ next_in' = <<>> /\ wpc' = "run"
      /\ UNCHANGED <<cluster, given, next_out, avail_out, total_out, ret_data, codec>>
  BY DEF GetData
<1>7. /\ CodecInv /\ StepOk(cluster, codec.held, codec.frame, total_out, next_in, GivenNow) /\ next_in = <<>>
  BY <1>6 DEF WriterInv, CodecInv
<1>8. PICK t \in Nat, h \in Nat : t = total_out /\ h = Len(codec.held)
  BY <1>7, SeqFacts DEF CodecInv, BufferOk, StepOk, PartOf
<1>9. t + h = Len(Content(cluster))
  <2>1. t + h + Len(next_in) = GivenNow /\ Len(next_in) = 0
    BY <1>7, <1>8, SmallSeqs, Zenon DEF StepOk
  <2> QED
    BY <1>5, <1>8, <2>1
<1>10. FinishOk(cluster, codec.held, codec.frame, total_out, avail_out)
  BY <1>7, <1>8, <1>9, Zenon DEF StepOk, FinishOk
<1>11. FinishOk(cluster', codec'.held, codec'.frame, total_out', avail_out')
  BY <1>6, <1>10, Zenon
<1>12. BufferOk(cluster', ret_data', total_out', avail_out') /\ next_out' = total_out'
  BY <1>6, <1>7, Zenon DEF CodecInv
<1>13. CodecInv'
  BY <1>6, <1>11, <1>12 DEF CodecInv
<1> QED
  BY <1>1, <1>6, <1>13 DEF WriterInv
LEMMA AppendCat == ASSUME NEW s, NEW e, IsSeq(s) PROVE Append(s, e) = s \o <<e>>
<1>1. PICK S : s \in Seq(S)
  BY DEF IsSeq
<1>2. PICK T : T = S \cup {e}
  OBVIOUS
<1>3. s \in Seq(T) /\ e \in T
  BY <1>1, <1>2, SeqMonotonic
<1> QED
  BY <1>3, AppendIsConcat

\* The units that the library takes from the input, encoded
Taken(in, c) == [i \in 1 .. c |-> Encoded(in[i])]

LEMMA TakenSeq ==
  ASSUME NEW in, NEW c \in Nat
  PROVE  IsSeq(Taken(in, c)) /\ Len(Taken(in, c)) = c /\ \A i \in 1 .. c : Taken(in, c)[i] = Encoded(in[i])
<1>1. PICK s : s = Taken(in, c)
  OBVIOUS
<1>2. s = [i \in 1 .. c |-> s[i]] /\ \A i \in 1 .. c : s[i] = Encoded(in[i])
  BY <1>1 DEF Taken
<1>3. IsSeq(s) /\ Len(s) = c
  BY <1>2, FunctionSeq
<1> QED
  BY <1>1, <1>2, <1>3, Zenon

LEMMA TakenFacts ==
  ASSUME NEW cl \in Clusters, NEW in, NEW a \in Nat, PartOf(in, Content(cl), a), NEW c \in Nat, c <= Len(in)
  PROVE  PartOf(Taken(in, c), Encodings(cl), a) /\ Len(Taken(in, c)) = c
<1>1. PICK l \in Nat : l = Len(Content(cl))
  BY EncodingFacts
<1>2. PICK m \in Nat : m = Len(in)
  BY SeqFacts DEF PartOf
<1>3. a + m <= l /\ \A i \in 1 .. m : in[i] = Content(cl)[a + i]
  BY <1>1, <1>2 DEF PartOf
<1>4. PICK z : z = Encodings(cl)
  OBVIOUS
<1>5. Len(z) = l + 2 /\ \A i \in 1 .. l : z[i] = Encoded(Content(cl)[i])
  BY <1>1, <1>4, EncodingFacts, Zenon
<1>6. PICK s : s = Taken(in, c)
  OBVIOUS
<1>7. IsSeq(s) /\ Len(s) = c /\ \A i \in 1 .. c : s[i] = Encoded(in[i])
  BY <1>6, TakenSeq, Zenon
<1>8. ASSUME NEW i \in 1 .. c PROVE s[i] = z[a + i]
  <2>1. i \in 1 .. m /\ a + i \in 1 .. l
    BY <1>2, <1>3
  <2> QED
    BY <1>3, <1>5, <1>7, <2>1, Zenon
<1>9. a + c <= l + 2
  BY <1>2, <1>3
<1>10. PartOf(s, z, a)
  BY <1>5, <1>7, <1>8, <1>9, Zenon DEF PartOf
<1> QED
  BY <1>4, <1>6, <1>7, <1>10, Zenon

LEMMA MarkPart ==
  ASSUME NEW cl \in Clusters, NEW a \in Nat, a \in {Len(Content(cl)), Len(Content(cl)) + 1}
  PROVE  PartOf(<<EndOfFrame>>, Encodings(cl), a) /\ Len(<<EndOfFrame>>) = 1
<1>1. PICK l \in Nat : l = Len(Content(cl))
  BY EncodingFacts
<1>2. PICK z : z = Encodings(cl)
  OBVIOUS
<1>3. Len(z) = l + 2 /\ z[l + 1] = EndOfFrame /\ z[l + 2] = EndOfFrame
  BY <1>1, <1>2, EncodingFacts, Zenon
<1>4. a = l \/ a = l + 1
  BY <1>1
<1>5. a + 1 <= l + 2 /\ z[a + 1] = EndOfFrame
  BY <1>3, <1>4
<1>6. PICK s : s = <<EndOfFrame>>
  OBVIOUS
<1>7. IsSeq(s) /\ Len(s) = 1 /\ s[1] = EndOfFrame
  BY <1>6, SmallSeqs, Zenon
<1>8. \A i \in 1 .. 1 : s[i] = z[a + i]
  <2>1. \A i \in 1 .. 1 : i = 1
    OBVIOUS
  <2> QED
    BY <1>5, <1>7, <2>1, Zenon
<1>9. PartOf(s, z, a)
  BY <1>3, <1>5, <1>7, <1>8, Zenon DEF PartOf
<1> QED
  BY <1>2, <1>6, <1>7, <1>9, Zenon

\* The library is asked to end a frame.
Ends == step = "FINISH" /\ \/ codec.frame = "open"
                           \/ codec.frame = "closed" /\ cluster.codec = "zstd"

LEMMA HoldsForm ==
  ASSUME NEW c, IsSeq(codec.held \o Taken(next_in, c))
  PROVE  Holds(c) = IF Ends THEN (codec.held \o Taken(next_in, c)) \o <<EndOfFrame>>
                    ELSE codec.held \o Taken(next_in, c)
<1>1. PICK all : all = codec.held \o Taken(next_in, c)
  OBVIOUS
<1>2. Append(all, EndOfFrame) = all \o <<EndOfFrame>>
  BY <1>1, AppendCat, Zenon
<1>3. Holds(c) = IF Ends THEN Append(all, EndOfFrame) ELSE all
  BY <1>1, Zenon DEF Holds, Taken, Ends
<1> QED
  BY <1>1, <1>2, <1>3, Zenon

\* What the library has to deliver are the units that follow in the output.
LEMMA HoldsFacts ==
  ASSUME cluster \in Clusters, CodecInv, wpc = "run", NEW c \in Nat, c <= Len(next_in)
  PROVE  /\ PartOf(Holds(c), Encodings(cluster), total_out)
         /\ Len(Holds(c)) = Len(codec.held) + c + (IF Ends THEN 1 ELSE 0)
<1>1. PICK z : z = Encodings(cluster)
  OBVIOUS
<1>2. PICK l \in Nat : l = Len(Content(cluster)) /\ Len(z) = l + 2
  BY <1>1, EncodingFacts
<1>3. PartOf(codec.held, z, total_out) /\ total_out \in Nat
  BY <1>1 DEF CodecInv, StepOk, FinishOk, BufferOk
<1>4. PICK h \in Nat, t \in Nat : h = Len(codec.held) /\ t = total_out
  BY <1>3, SeqFacts DEF PartOf
<1>5. PICK k : k = Taken(next_in, c)
  OBVIOUS
<1>6. PartOf(k, z, t + h) /\ Len(k) = c
  <2>1. CASE step = "STEP"
    <3>1. PartOf(next_in, Content(cluster), t + h)
      BY <1>4, <2>1, Zenon DEF CodecInv, StepOk
    <3>2. t + h \in Nat
      OBVIOUS
    <3> QED
      BY <1>1, <1>5, <3>1, <3>2, TakenFacts, Zenon
  <2>2. CASE step # "STEP"
    <3>1. next_in = <<>>
      BY <2>2 DEF CodecInv
    <3>2. c = 0
      BY <3>1, SmallSeqs
    <3>3. IsSeq(k) /\ Len(k) = 0
      BY <1>5, <3>2, TakenSeq, Zenon
    <3>4. (t + h) + 0 <= Len(z) /\ 1 .. 0 = {}
      BY <1>2, <1>3, <1>4 DEF PartOf
    <3>5. PartOf(k, z, t + h)
      BY <3>3, <3>4, Zenon DEF PartOf
    <3> QED
      BY <3>2, <3>3, <3>5, Zenon
  <2> QED
    BY <2>1, <2>2
<1>7. PICK all : all = codec.held \o k
  OBVIOUS
<1>8. PartOf(all, z, t) /\ Len(all) = h + c
  <2>1. PartOf(codec.held, z, t) /\ t + h = t + Len(codec.held)
    BY <1>3, <1>4, Zenon
  <2>n. t + h \in Nat
    OBVIOUS
  <2>2. PartOf(codec.held \o k, z, t) /\ Len(codec.held \o k) = Len(codec.held) + Len(k)
    BY <1>6, <2>1, <2>n, PartCat
  <2> QED
    BY <1>4, <1>6, <1>7, <2>2, Zenon
<1>9. IsSeq(all)
  BY <1>8 DEF PartOf
<1>10. Holds(c) = IF Ends THEN all \o <<EndOfFrame>> ELSE all
  BY <1>5, <1>7, <1>9, HoldsForm, Zenon
<1>11. CASE ~ Ends
  <2>1. Holds(c) = all
    BY <1>10, <1>11, Zenon
  <2>2. h + c = h + c + 0
    OBVIOUS
  <2> QED
    BY <1>1, <1>4, <1>8, <1>11, <2>1, <2>2, Zenon
<1>12. CASE Ends
  <2>1. step = "FINISH" /\ codec.frame \in {"open", "closed"}
    BY <1>12 DEF Ends
  <2>2. FinishOk(cluster, codec.held, codec.frame, t, avail_out) /\ next_in = <<>>
    BY <1>4, <2>1 DEF CodecInv
  <2>3. c = 0
    BY <2>2, SmallSeqs
  <2>4. t + (h + c) \in {l, l + 1}
    BY <1>2, <1>4, <2>1, <2>2, <2>3 DEF FinishOk
  <2>5. PICK a \in Nat : a = t + (h + c)
    OBVIOUS
  <2>6. PICK r : r = <<EndOfFrame>>
    OBVIOUS
  <2>7. PartOf(r, z, a) /\ Len(r) = 1
    BY <1>1, <1>2, <2>4, <2>5, <2>6, MarkPart, Zenon
  <2>8. a = t + Len(all)
    BY <1>8, <2>5, Zenon
  <2>9. PartOf(all \o r, z, t) /\ Len(all \o r) = Len(all) + Len(r)
    BY <1>8, <2>7, <2>8, PartCat
  <2>10. Holds(c) = all \o r
    BY <1>10, <1>12, <2>6, Zenon
  <2> QED
    BY <1>1, <1>4, <1>8, <1>12, <2>7, <2>9, <2>10, Zenon
<1> QED
  BY <1>11, <1>12
LEMMA FilledFacts ==
  ASSUME cluster \in Clusters, CodecInv, wpc = "run", NEW c \in Nat, c <= Len(next_in),
         NEW p \in Nat, p <= Len(Holds(c)), p <= avail_out
  PROVE  BufferOk(cluster, Filled(c, p), total_out + p, avail_out - p)
<1>1. PICK z : z = Encodings(cluster)
  OBVIOUS
<1>2. /\ IsSeq(ret_data) /\ total_out \in Nat /\ avail_out \in Nat /\ total_out + avail_out = Len(ret_data)
      /\ \A i \in 1 .. total_out : ret_data[i] = z[i]
  BY <1>1 DEF CodecInv, BufferOk
<1>3. PICK t \in Nat, a \in Nat, m \in Nat : t = total_out /\ a = avail_out /\ m = Len(ret_data) /\ m = t + a
  BY <1>2
<1>4. PICK o : o = Holds(c)
  OBVIOUS
<1>5. IsSeq(o) /\ \A i \in 1 .. Len(o) : o[i] = z[t + i]
  BY <1>1, <1>3, <1>4, HoldsFacts, Zenon DEF PartOf
<1>6. Len(o) \in Nat /\ p <= Len(o)
  BY <1>4, <1>5, SeqFacts
<1>7. PICK f : f = Filled(c, p)
  OBVIOUS
<1>8. f = [i \in 1 .. m |-> IF i \in t + 1 .. t + p THEN o[i - t] ELSE ret_data[i]]
  <2>1. next_out = t
    BY <1>3 DEF CodecInv
  <2> QED
    BY <1>3, <1>4, <1>7, <2>1, Zenon DEF Filled
<1>9. f = [i \in 1 .. m |-> f[i]]
  BY <1>8
<1>10. IsSeq(f) /\ Len(f) = m
  BY <1>9, FunctionSeq
<1>11. ASSUME NEW i \in 1 .. t + p PROVE f[i] = z[i]
  <2>1. i \in 1 .. m
    BY <1>3
  <2>2. CASE i \in t + 1 .. t + p
    <3>1. i - t \in 1 .. Len(o) /\ t + (i - t) = i
      BY <1>6, <2>2
    <3>2. f[i] = o[i - t]
      BY <1>8, <2>1, <2>2, Zenon
    <3>3. o[i - t] = z[t + (i - t)]
      BY <1>5, <3>1, Zenon
    <3> QED
      BY <3>1, <3>2, <3>3, Zenon
  <2>3. CASE i \notin t + 1 .. t + p
    <3>1. i \in 1 .. t
      BY <2>3
    <3>2. f[i] = ret_data[i]
      BY <1>8, <2>1, <2>3, Zenon
    <3> QED
      BY <1>2, <1>3, <3>1, <3>2, Zenon
  <2> QED
    BY <2>2, <2>3
<1>12. t + p \in Nat /\ a - p \in Nat /\ (t + p) + (a - p) = m
  BY <1>3
<1>13. BufferOk(cluster, f, t + p, a - p)
  BY <1>1, <1>10, <1>11, <1>12, Zenon DEF BufferOk
<1> QED
  BY <1>3, <1>7, <1>13, Zenon

LEMMA UnitsFacts == ASSUME NEW n \in Nat PROVE IsSeq(Units(n)) /\ Len(Units(n)) = n
<1>1. PICK s : s = Units(n)
  OBVIOUS
<1>2. s = [i \in 1 .. n |-> s[i]]
  BY <1>1 DEF Units
<1>3. IsSeq(s) /\ Len(s) = n
  BY <1>2, FunctionSeq
<1> QED
  BY <1>1, <1>3, Zenon

\* A larger buffer holds what the old one did.
LEMMA GrownFacts ==
  ASSUME NEW cl, NEW r, NEW t, NEW a, BufferOk(cl, r, t, a)
  PROVE  BufferOk(cl, Grown(r, t), t, Len(Grown(r, t)) - t) /\ Len(Grown(r, t)) = 2 * Len(r)
<1>1. IsSeq(r) /\ t \in Nat /\ a \in Nat /\ t + a = Len(r) /\ \A i \in 1 .. t : r[i] = Encodings(cl)[i]
  BY DEF BufferOk
<1>2. PICK m \in Nat : m = Len(r) /\ m = t + a
  BY <1>1
<1>3. PICK s : s = SubSeq(r, 0 + 1, t)
  OBVIOUS
<1>4. IsSeq(s) /\ Len(s) = t /\ \A i \in 1 .. t : s[i] = r[i]
  <2>1. 0 \in Nat /\ 0 <= t /\ t <= Len(r) /\ t - 0 = t /\ \A i \in 1 .. t : 0 + i = i
    BY <1>1
  <2>2. /\ IsSeq(SubSeq(r, 0 + 1, t)) /\ Len(SubSeq(r, 0 + 1, t)) = t - 0
        /\ \A i \in 1 .. t - 0 : SubSeq(r, 0 + 1, t)[i] = r[0 + i]
    BY <1>1, <2>1, SubFacts
  <2> QED
    BY <1>3, <2>1, <2>2
<1>5. PICK k \in Nat : k = 2 * m - t
  BY <1>1, <1>2
<1>6. PICK u : u = Units(k)
  OBVIOUS
<1>7. IsSeq(u) /\ Len(u) = k
  BY <1>6, UnitsFacts, Zenon
<1>8. PICK f : f = s \o u
  OBVIOUS
<1>9. IsSeq(f) /\ Len(f) = t + k /\ \A i \in 1 .. t + k : f[i] = IF i <= t THEN s[i] ELSE u[i - t]
  BY <1>4, <1>7, <1>8, CatFacts
<1>10. Grown(r, t) = f
  <2>1. SubSeq(r, 1, t) = s
    BY <1>3
  <2> QED
    BY <1>2, <1>5, <1>6, <1>8, <2>1, Zenon DEF Grown
<1>11. ASSUME NEW i \in 1 .. t PROVE f[i] = Encodings(cl)[i]
  <2>1. i \in 1 .. t + k /\ i <= t
    BY <1>1
  <2> QED
    BY <1>1, <1>4, <1>9, <2>1, Zenon
<1>12. t + k = 2 * m /\ (t + k) - t \in Nat /\ t + ((t + k) - t) = t + k
  BY <1>1, <1>5
<1>13. BufferOk(cl, f, t, Len(f) - t)
  BY <1>1, <1>9, <1>11, <1>12, Zenon DEF BufferOk
<1> QED
  BY <1>2, <1>9, <1>10, <1>12, <1>13, Zenon

\* What the library keeps back when it takes c units and delivers p
Kept(c, p) == SubSeq(Holds(c), p + 1, Len(Holds(c)))

LEMMA KeptFacts ==
  ASSUME cluster \in Clusters, CodecInv, wpc = "run", NEW c \in Nat, c <= Len(next_in),
         NEW p \in Nat, p <= Len(Holds(c))
  PROVE  PartOf(Kept(c, p), Encodings(cluster), total_out + p) /\ Len(Kept(c, p)) = Len(Holds(c)) - p
<1>1. PICK o, z : o = Holds(c) /\ z = Encodings(cluster)
  BY Zenon
<1>2. PartOf(o, z, total_out) /\ total_out \in Nat
  BY <1>1, HoldsFacts DEF CodecInv, BufferOk
<1>3. Len(z) \in Nat /\ Len(o) \in Nat /\ p <= Len(o)
  BY <1>1, <1>2, EncodingFacts, SeqFacts DEF PartOf
<1>4. Len(o) <= Len(o)
  BY <1>3
<1>5. PartOf(SubSeq(o, p + 1, Len(o)), z, total_out + p) /\ Len(SubSeq(o, p + 1, Len(o))) = Len(o) - p
  BY <1>2, <1>3, <1>4, PartSub
<1> QED
  BY <1>1, <1>5, Zenon DEF Kept

\* A call in a STEP leaves behind the output what comes next.
LEMMA StepRuns ==
  ASSUME cluster \in Clusters, CodecInv, wpc = "run", step = "STEP", NEW c \in Nat, c <= Len(next_in),
         NEW p \in Nat, p <= Len(Holds(c)),
         NEW f, f = "open"
  PROVE  StepOk(cluster, Kept(c, p), f, total_out + p, SubSeq(next_in, c + 1, Len(next_in)), GivenNow)
<1>1. PICK k : k = Kept(c, p)
  OBVIOUS
<1>2. PartOf(k, Encodings(cluster), total_out + p) /\ Len(k) = Len(Holds(c)) - p
  BY <1>1, KeptFacts, Zenon
<1>3. Len(Holds(c)) = Len(codec.held) + c + (IF Ends THEN 1 ELSE 0) /\ ~ Ends
  <2>1. ~ Ends
    BY DEF Ends
  <2> QED
    BY <2>1, HoldsFacts, Zenon
<1>4. StepOk(cluster, codec.held, codec.frame, total_out, next_in, GivenNow)
  BY DEF CodecInv
<1>5. total_out \in Nat /\ IsSeq(codec.held) /\ IsSeq(next_in)
  BY <1>4 DEF CodecInv, BufferOk, StepOk, PartOf
<1>6. PICK t \in Nat, h \in Nat, m \in Nat : t = total_out /\ h = Len(codec.held) /\ m = Len(next_in)
  BY <1>5, SeqFacts
<1>7. PartOf(next_in, Content(cluster), t + h) /\ t + h + m = GivenNow
  BY <1>4, <1>6, Zenon DEF StepOk
<1>8. PICK l \in Nat : l = Len(Content(cluster))
  BY EncodingFacts
<1>9. PICK in : in = SubSeq(next_in, c + 1, m)
  OBVIOUS
<1>10. PartOf(in, Content(cluster), (t + h) + c) /\ Len(in) = m - c
  <2>1. t + h \in Nat /\ c <= m /\ m <= Len(next_in) /\ Len(Content(cluster)) \in Nat
    BY <1>6, <1>8
  <2>2. PartOf(SubSeq(next_in, c + 1, m), Content(cluster), (t + h) + c) /\ Len(SubSeq(next_in, c + 1, m)) = m - c
    BY <1>7, <2>1, PartSub
  <2> QED
    BY <1>9, <2>2, Zenon
<1>11. Len(k) = h + c - p /\ p <= h + c
  BY <1>2, <1>3, <1>6
<1>12. (t + p) + Len(k) = (t + h) + c /\ (t + p) + Len(k) + Len(in) = t + h + m
  <2>1. PICK x, y : x = Len(k) /\ y = Len(in)
    BY Zenon
  <2>2. x = h + c - p /\ y = m - c
    BY <1>10, <1>11, <2>1, Zenon
  <2>3. (t + p) + x = (t + h) + c /\ (t + p) + x + y = t + h + m
    BY <2>2
  <2> QED
    BY <2>1, <2>3, Zenon
<1>13. StepOk(cluster, k, f, t + p, in, GivenNow)
  BY <1>2, <1>6, <1>7, <1>10, <1>12, Zenon DEF StepOk
<1> QED
  BY <1>1, <1>6, <1>9, <1>13, Zenon

\* How far the output is when the library has delivered all that it has to
LEMMA FinishTotals ==
  ASSUME cluster \in Clusters, CodecInv, wpc = "run", step = "FINISH", NEW c \in Nat, c <= Len(next_in)
  PROVE  \/ total_out + Len(Holds(c)) = Len(Content(cluster)) + 1
         \/ /\ cluster.codec = "zstd" /\ Len(Holds(c)) = 1 /\ total_out = Len(Content(cluster)) + 1
            /\ avail_out >= 2 \/ avail_out = 0
<1>1. next_in = <<>> /\ FinishOk(cluster, codec.held, codec.frame, total_out, avail_out)
  BY DEF CodecInv
<1>2. c = 0
  BY <1>1, SmallSeqs
<1>3. PICK t \in Nat, h \in Nat, l \in Nat :
        t = total_out /\ h = Len(codec.held) /\ l = Len(Content(cluster))
  BY <1>1, SeqFacts, EncodingFacts DEF FinishOk, PartOf, CodecInv, BufferOk
<1>4. PICK o : o = Len(Holds(c))
  OBVIOUS
<1>5. o = h + c + (IF Ends THEN 1 ELSE 0)
  BY <1>3, <1>4, HoldsFacts, Zenon
<1>6. \/ codec.frame = "open" /\ t + h = l
      \/ codec.frame = "closing" /\ t + h = l + 1
      \/ codec.frame = "closing" /\ cluster.codec = "zstd" /\ t = l + 1 /\ h = 1 /\ avail_out >= 2
      \/ codec.frame = "closed" /\ cluster.codec = "zstd" /\ t = l + 1 /\ h = 0 /\ avail_out = 0
  BY <1>1, <1>3, Zenon DEF FinishOk
<1>7. \/ t + o = l + 1
      \/ cluster.codec = "zstd" /\ o = 1 /\ t = l + 1 /\ (avail_out >= 2 \/ avail_out = 0)
  <2>1. CASE codec.frame = "open" /\ t + h = l
    BY <1>2, <1>5, <2>1 DEF Ends
  <2>2. CASE codec.frame = "closing" /\ t + h = l + 1
    BY <1>2, <1>5, <2>2 DEF Ends
  <2>3. CASE codec.frame = "closing" /\ cluster.codec = "zstd" /\ t = l + 1 /\ h = 1 /\ avail_out >= 2
    BY <1>2, <1>5, <2>3 DEF Ends
  <2>4. CASE codec.frame = "closed" /\ cluster.codec = "zstd" /\ t = l + 1 /\ h = 0 /\ avail_out = 0
    BY <1>2, <1>5, <2>4 DEF Ends
  <2> QED
    BY <1>6, <2>1, <2>2, <2>3, <2>4
<1> QED
  BY <1>3, <1>4, <1>7, Zenon
\* A call in a FINISH: the frame is closed when nothing is left.
LEMMA FinishRuns ==
  ASSUME cluster \in Clusters, CodecInv, wpc = "run", step = "FINISH", NEW c \in Nat, c <= Len(next_in),
         NEW p \in Nat, p <= Len(Holds(c)), p = avail_out, NEW f, NEW a \in Nat,
         p < Len(Holds(c)) => f = "closing",
         p = Len(Holds(c)) => f = "closed" /\ cluster.codec = "zstd" /\ a = 0,
         avail_out = 0 => cluster.codec # "zstd" \/ a = total_out \/ p = Len(Holds(c))
  PROVE  FinishOk(cluster, Kept(c, p), f, total_out + p, a)
<1>1. PICK k : k = Kept(c, p)
  OBVIOUS
<1>2. PartOf(k, Encodings(cluster), total_out + p) /\ Len(k) = Len(Holds(c)) - p
  BY <1>1, KeptFacts, Zenon
<1>3. PICK t \in Nat, l \in Nat \ {0} : t = total_out /\ l = Len(Content(cluster))
  BY EncodingFacts DEF CodecInv, BufferOk
<1>4. PICK o \in Nat : o = Len(Holds(c))
  BY HoldsFacts, SeqFacts, Zenon DEF PartOf
<1>5. \/ t + o = l + 1
      \/ cluster.codec = "zstd" /\ o = 1 /\ t = l + 1 /\ (avail_out >= 2 \/ avail_out = 0)
  BY <1>3, <1>4, FinishTotals, Zenon
<1>6. PICK x : x = Len(k)
  OBVIOUS
<1>7. x = o - p /\ p <= o
  BY <1>2, <1>4, <1>6
<1>8. CASE p < o
  <2>1. f = "closing"
    BY <1>4, <1>8
  <2>2. CASE t + o = l + 1
    <3>1. (t + p) + x = l + 1
      BY <1>7, <2>2
    <3> QED
      BY <1>1, <1>2, <1>3, <1>6, <2>1, <3>1, Zenon DEF FinishOk
  <2>3. CASE cluster.codec = "zstd" /\ o = 1 /\ t = l + 1 /\ (avail_out >= 2 \/ avail_out = 0)
    <3>1. p = 0 /\ avail_out = 0
      BY <1>8, <2>3
    <3>n. p # o
      BY <1>8
    <3>m. a = t
      BY <1>3, <1>4, <2>3, <3>1, <3>n, Zenon
    <3>2. t + p = l + 1 /\ x = 1 /\ a >= 2
      BY <1>3, <1>7, <2>3, <3>1, <3>m
    <3> QED
      BY <1>1, <1>2, <1>3, <1>6, <2>1, <2>3, <3>2, Zenon DEF FinishOk
  <2> QED
    BY <1>5, <2>2, <2>3
<1>9. CASE ~ (p < o)
  <2>1. p = o
    BY <1>7, <1>9
  <2>2. f = "closed" /\ cluster.codec = "zstd" /\ a = 0
    BY <1>4, <2>1
  <2>3. t + o = l + 1
    BY <1>5, <2>1
  <2>4. t + p = l + 1 /\ x = 0
    BY <1>7, <2>1, <2>3
  <2> QED
    BY <1>1, <1>2, <1>3, <1>6, <2>2, <2>4, Zenon DEF FinishOk
<1> QED
  BY <1>8, <1>9

LEMMA RunNumbers ==
  ASSUME cluster \in Clusters, CodecInv, wpc = "run", NEW c \in 0 .. Len(next_in), NEW p \in 0 .. avail_out
  PROVE  c \in Nat /\ c <= Len(next_in) /\ p \in Nat /\ p <= avail_out /\ avail_out \in Nat
         /\ total_out \in Nat /\ Len(Holds(c)) \in Nat
<1>1. Len(next_in) \in Nat /\ avail_out \in Nat /\ total_out \in Nat
  <2>1. IsSeq(next_in)
    BY SmallSeqs DEF CodecInv, StepOk, PartOf
  <2> QED
    BY <2>1, SeqFacts DEF CodecInv, BufferOk
<1>2. c \in Nat /\ c <= Len(next_in) /\ p \in Nat /\ p <= avail_out
  BY <1>1
<1>3. Len(Holds(c)) \in Nat
  BY <1>2, HoldsFacts, SeqFacts, Zenon DEF PartOf
<1> QED
  BY <1>1, <1>2, <1>3

\* The loop goes on, with the buffer full or in a larger one.
LEMMA RunOnKeeps ==
  ASSUME WriterInv, NEW c \in 0 .. Len(next_in), NEW p \in 0 .. avail_out, RunOn(c, p)
  PROVE  WriterInv'
<1>1. cluster \in Clusters /\ wpc = "run" /\ UNCHANGED <<cluster, given, wpc, step, file>>
  BY DEF WriterInv, RunOn
<1>2. cluster.codec # "none" /\ CodecInv
  BY <1>1 DEF WriterInv, RawInv
<1>3. c \in Nat /\ c <= Len(next_in) /\ p \in Nat /\ p <= avail_out /\ avail_out \in Nat
      /\ total_out \in Nat /\ Len(Holds(c)) \in Nat
  BY <1>1, <1>2, RunNumbers
<1>4. p <= Len(Holds(c)) /\ avail_out = p
  BY DEF RunOn, MayDeliver
<1>5. PICK r : r = Filled(c, p)
  OBVIOUS
<1>6. BufferOk(cluster, r, total_out + p, avail_out - p)
  BY <1>1, <1>2, <1>3, <1>4, <1>5, FilledFacts, Zenon
<1>7. PICK t : t = total_out + p
  OBVIOUS
<1>8. total_out' = t /\ next_in' = SubSeq(next_in, c + 1, Len(next_in)) /\ codec'.held = Kept(c, p)
      /\ codec'.frame = IF step = "STEP" THEN "open" ELSE IF p = Len(Holds(c)) THEN "closed" ELSE "closing"
  BY <1>7 DEF RunOn, StreamRun, Kept
<1>9. BufferOk(cluster, r, t, 0)
  <2>1. avail_out - p = 0
    BY <1>3, <1>4
  <2> QED
    BY <1>6, <1>7, <2>1, Zenon
<1>10. /\ next_out' = total_out' /\ BufferOk(cluster, ret_data', t, avail_out')
       /\ \/ Status(c, p) = "OK" /\ avail_out' = 0
          \/ Status(c, p) = "BUF_ERROR" /\ avail_out' = t
  <2>1. CASE Status(c, p) = "OK"
    <3>1. ret_data' = r /\ next_out' = next_out + p /\ avail_out' = 0
      BY <1>5, <2>1, Zenon DEF RunOn
    <3>2. next_out = total_out
      BY <1>2 DEF CodecInv
    <3> QED
      BY <1>7, <1>8, <1>9, <2>1, <3>1, <3>2, Zenon
  <2>2. CASE Status(c, p) # "OK"
    <3>1. ret_data' = Grown(r, t) /\ next_out' = t /\ avail_out' = Len(ret_data') - t /\ Status(c, p) = "BUF_ERROR"
      BY <1>5, <1>8, <2>2, Zenon DEF RunOn
    <3>2. BufferOk(cluster, Grown(r, t), t, Len(Grown(r, t)) - t) /\ Len(Grown(r, t)) = 2 * Len(r)
      BY <1>9, GrownFacts, Zenon
    <3>3. t \in Nat /\ t + 0 = Len(r)
      BY <1>9 DEF BufferOk
    <3>4. PICK m : m = Len(r)
      OBVIOUS
    <3>5. 2 * m - t = t
      BY <3>3, <3>4
    <3> QED
      BY <1>8, <3>1, <3>2, <3>4, <3>5, Zenon
  <2> QED
    BY <2>1, <2>2
<1>11. GivenNow' = GivenNow
  BY <1>1 DEF GivenNow
<1>12. CodecInv'
  <2>1. BufferOk(cluster', ret_data', total_out', avail_out') /\ next_out' = total_out'
    BY <1>1, <1>8, <1>10, Zenon
  <2>2. CASE step = "STEP"
    <3>1. codec'.frame = "open"
      BY <1>8, <2>2
    <3>2. PICK f : f = codec'.frame
      OBVIOUS
    <3>3. f = "open"
      BY <3>1, <3>2, Zenon
    <3>4. StepOk(cluster, Kept(c, p), f, total_out + p, SubSeq(next_in, c + 1, Len(next_in)), GivenNow)
      BY <1>1, <1>2, <1>3, <1>4, <2>2, <3>3, StepRuns
    <3>5. StepOk(cluster', codec'.held, codec'.frame, total_out', next_in', GivenNow')
      BY <1>1, <1>7, <1>8, <1>11, <3>2, <3>4, Zenon
    <3> QED
      BY <1>1, <2>1, <2>2, <3>5 DEF CodecInv
  <2>3. CASE step # "STEP"
    <3>1. step = "FINISH" /\ next_in = <<>>
      BY <1>2, <2>3 DEF CodecInv
    <3>2. next_in' = <<>>
      <4>1. Len(next_in) = 0 /\ c = 0 /\ 0 + 1 = 1
        BY <1>3, <3>1, SmallSeqs
      <4>2. PICK s : s = SubSeq(next_in, 0 + 1, 0)
        OBVIOUS
      <4>3. IsSeq(next_in) /\ 0 \in Nat /\ 0 <= 0 /\ 0 <= Len(next_in) /\ 0 - 0 = 0
        BY <3>1, <4>1, SmallSeqs
      <4>4. IsSeq(SubSeq(next_in, 0 + 1, 0)) /\ Len(SubSeq(next_in, 0 + 1, 0)) = 0 - 0
        BY <4>3, SubFacts
      <4>5. IsSeq(s) /\ Len(s) = 0 /\ 1 .. 0 = {}
        BY <4>2, <4>3, <4>4
      <4>6. s = <<>>
        BY <4>5, SmallSeqs, SameSeq
      <4> QED
        BY <1>8, <4>1, <4>2, <4>6, Zenon
    <3>3. PICK f, a : f = codec'.frame /\ a = avail_out'
      BY Zenon
    <3>4. a \in Nat
      BY <1>10, <3>3 DEF BufferOk
    <3>5. p < Len(Holds(c)) => f = "closing"
      <4>1. p < Len(Holds(c)) => p # Len(Holds(c))
        BY <1>3
      <4> QED
        BY <1>8, <2>3, <3>3, <4>1, Zenon
    <3>6. p = Len(Holds(c)) => f = "closed" /\ cluster.codec = "zstd" /\ a = 0
      <4> HAVE p = Len(Holds(c))
      <4>1. f = "closed"
        BY <1>8, <2>3, <3>3, Zenon
      <4>2. CASE cluster.codec = "lzma"
        <5>1. Status(c, p) = "STREAM_END"
          BY <3>1, <4>2, Zenon DEF Status, LzmaStatus
        <5> QED
          BY <1>10, <5>1
      <4>3. CASE cluster.codec # "lzma"
        <5>1. cluster.codec = "zstd"
          BY <1>1, <1>2, <4>3, ClustersAssumption
        <5>2. Status(c, p) = "OK"
          <6>1. ~ (p < Len(Holds(c)))
            BY <1>3
          <6> QED
            BY <3>1, <4>3, <6>1 DEF Status, ZstdStatus
        <5> QED
          BY <1>10, <3>3, <4>1, <5>1, <5>2
      <4> QED
        BY <4>2, <4>3
    <3>7. avail_out = 0 => cluster.codec # "zstd" \/ a = total_out \/ p = Len(Holds(c))
      <4> SUFFICES ASSUME avail_out = 0, cluster.codec = "zstd", p # Len(Holds(c)) PROVE a = total_out
        BY Zenon
      <4>1. p < Len(Holds(c))
        BY <1>3, <1>4
      <4>2. Status(c, p) = "BUF_ERROR"
        BY <3>1, <4>1 DEF Status, ZstdStatus
      <4>3. t = total_out
        BY <1>3, <1>4, <1>7
      <4> QED
        BY <1>10, <3>3, <4>2, <4>3
    <3>8. FinishOk(cluster, Kept(c, p), f, total_out + p, a)
      BY <1>1, <1>2, <1>3, <1>4, <3>1, <3>4, <3>5, <3>6, <3>7, FinishRuns
    <3>9. FinishOk(cluster', codec'.held, codec'.frame, total_out', avail_out')
      BY <1>1, <1>7, <1>8, <3>3, <3>8, Zenon
    <3> QED
      BY <1>1, <2>1, <3>1, <3>2, <3>9 DEF CodecInv
  <2> QED
    BY <2>2, <2>3
<1> QED
  BY <1>1, <1>2, <1>12 DEF WriterInv
\* feed returns: to write_content, or at the end with all that was compressed.
LEMMA RunReturnsKeeps ==
  ASSUME WriterInv, NEW c \in 0 .. Len(next_in), NEW p \in 0 .. avail_out, RunReturns(c, p)
  PROVE  WriterInv'
<1>1. cluster \in Clusters /\ wpc = "run" /\ UNCHANGED <<cluster, given, step>>
  BY DEF WriterInv, RunReturns
<1>2. cluster.codec # "none" /\ CodecInv
  BY <1>1 DEF WriterInv, RawInv
<1>3. c \in Nat /\ c <= Len(next_in) /\ p \in Nat /\ p <= avail_out /\ avail_out \in Nat
      /\ total_out \in Nat /\ Len(Holds(c)) \in Nat
  BY <1>1, <1>2, RunNumbers
<1>4. p <= Len(Holds(c))
  BY DEF RunReturns, MayDeliver
<1>5. PICK r : r = Filled(c, p)
  OBVIOUS
<1>6. BufferOk(cluster, r, total_out + p, avail_out - p)
  BY <1>1, <1>2, <1>3, <1>4, <1>5, FilledFacts, Zenon
<1>7. PICK t : t = total_out + p
  OBVIOUS
<1>8. CASE step = "STEP"
  <2>1. /\ StreamRun(c, p) /\ ret_data' = r /\ next_out' = next_out + p /\ avail_out' = avail_out - p
        /\ wpc' = "content"
    BY <1>5, <1>8 DEF RunReturns
  <2>2. avail_out # p
    <3>1. Status(c, p) # "STREAM_END"
      BY <1>8 DEF Status, LzmaStatus, ZstdStatus
    <3> QED
      BY <3>1 DEF RunReturns
  <2>3. ~ (c < Len(next_in))
    BY <2>2 DEF RunReturns, MayDeliver
  <2>4. PICK in, f : in = SubSeq(next_in, c + 1, Len(next_in)) /\ f = "open"
    BY Zenon
  <2>5. StepOk(cluster, Kept(c, p), f, total_out + p, SubSeq(next_in, c + 1, Len(next_in)), GivenNow)
    BY <1>1, <1>2, <1>3, <1>4, <1>8, <2>4, StepRuns
  <2>6. total_out' = t /\ next_in' = in /\ codec'.held = Kept(c, p) /\ codec'.frame = f
    BY <1>7, <1>8, <2>1, <2>4 DEF StreamRun, Kept
  <2>7. GivenNow' = GivenNow
    BY <1>1 DEF GivenNow
  <2>8. StepOk(cluster', codec'.held, codec'.frame, total_out', next_in', GivenNow')
    BY <1>1, <1>7, <2>4, <2>5, <2>6, <2>7, Zenon
  <2>9. next_in' = <<>>
    <3>1. IsSeq(next_in)
      BY <1>2, <1>8 DEF CodecInv, StepOk, PartOf
    <3>2. c <= c /\ c = Len(next_in) /\ c - c = 0 /\ 1 .. 0 = {}
      BY <1>3, <2>3, <3>1, SeqFacts
    <3>3. IsSeq(SubSeq(next_in, c + 1, c)) /\ Len(SubSeq(next_in, c + 1, c)) = c - c
      BY <1>3, <3>1, <3>2, SubFacts
    <3>4. IsSeq(in) /\ Len(in) = 0
      BY <2>4, <3>2, <3>3, Zenon
    <3>5. in = <<>>
      BY <3>2, <3>4, SmallSeqs, SameSeq
    <3> QED
      BY <2>6, <3>5, Zenon
  <2>10. BufferOk(cluster', ret_data', total_out', avail_out') /\ next_out' = total_out'
    <3>1. next_out = total_out
      BY <1>2 DEF CodecInv
    <3> QED
      BY <1>1, <1>6, <1>7, <2>1, <2>6, <3>1, Zenon
  <2>11. CodecInv'
    BY <1>1, <1>8, <2>1, <2>8, <2>9, <2>10 DEF CodecInv
  <2> QED
    BY <1>1, <1>2, <2>1, <2>11 DEF WriterInv
<1>9. CASE step # "STEP"
  <2>1. step = "FINISH"
    BY <1>2, <1>9 DEF CodecInv
  <2>2. file' = Written(SubSeq(r, 0 + 1, t)) /\ wpc' = "written"
    <3>1. 0 + 1 = 1
      OBVIOUS
    <3> QED
      BY <1>5, <1>7, <1>9, <3>1, Zenon DEF RunReturns
  <2>3. p = Len(Holds(c))
    <3>1. CASE avail_out # p
      <4>1. ~ (p < Len(Holds(c)))
        BY <2>1, <3>1 DEF RunReturns, MayDeliver
      <4> QED
        BY <1>3, <1>4, <4>1
    <3>2. CASE avail_out = p
      <4>1. Status(c, p) = "STREAM_END"
        BY <3>2 DEF RunReturns
      <4> QED
        BY <4>1 DEF Status, LzmaStatus, ZstdStatus
    <3> QED
      BY <3>1, <3>2
  <2>4. PICK data : data = SubSeq(r, 0 + 1, t)
    OBVIOUS
  <2>5. PICK z, l : z = Encodings(cluster) /\ l = Len(Content(cluster))
    BY Zenon
  <2>6. l \in Nat /\ Len(z) = l + 2
    BY <1>1, <2>5, EncodingFacts
  <2>7. /\ IsSeq(r) /\ t \in Nat /\ avail_out - p \in Nat /\ t + (avail_out - p) = Len(r)
        /\ \A i \in 1 .. t : r[i] = z[i]
    BY <1>6, <1>7, <2>5, Zenon DEF BufferOk
  <2>8. t = l + 1 \/ (cluster.codec = "zstd" /\ t = l + 2)
    <3>1. \/ total_out + p = l + 1
          \/ cluster.codec = "zstd" /\ p = 1 /\ total_out = l + 1
      BY <1>1, <1>2, <1>3, <2>1, <2>3, <2>5, FinishTotals, Zenon
    <3> QED
      BY <1>3, <1>7, <2>6, <3>1
  <2>9. PartOf(data, z, 0) /\ Len(data) = t
    <3>1. 0 \in Nat /\ 0 <= t /\ t <= Len(r) /\ t - 0 = t /\ \A i \in 1 .. t : 0 + i = i
      BY <2>7
    <3>2. /\ IsSeq(SubSeq(r, 0 + 1, t)) /\ Len(SubSeq(r, 0 + 1, t)) = t - 0
          /\ \A i \in 1 .. t - 0 : SubSeq(r, 0 + 1, t)[i] = r[0 + i]
      BY <2>7, <3>1, SubFacts
    <3>3. IsSeq(data) /\ Len(data) = t /\ \A i \in 1 .. t : data[i] = r[i]
      BY <2>4, <3>1, <3>2
    <3>4. 0 + t <= Len(z)
      BY <2>6, <2>7, <2>8
    <3>5. \A i \in 1 .. t : data[i] = z[0 + i]
      BY <2>7, <3>1, <3>3
    <3> QED
      BY <3>3, <3>4, <3>5, Zenon DEF PartOf
  <2>10. WrittenInv'
    <3>1. file' = Written(data)'
      BY <1>1, <2>2, <2>4 DEF Written
    <3>2. /\ PartOf(data, Encodings(cluster'), 0)
          /\ \/ Len(data) = Len(Content(cluster')) + 1
             \/ cluster'.codec = "zstd" /\ Len(data) = Len(Content(cluster')) + 2
      BY <1>1, <2>5, <2>8, <2>9, Zenon
    <3>3. cluster'.codec # "none"
      BY <1>1, <1>2
    <3> QED
      BY <3>1, <3>2, <3>3, Zenon DEF WrittenInv
  <2> QED
    BY <1>1, <2>2, <2>10 DEF WriterInv
<1> QED
  BY <1>8, <1>9

LEMMA WorkerKeeps == ASSUME WriterInv, Worker PROVE WriterInv'
<1>1. CASE Run
  <2>1. PICK c \in 0 .. Len(next_in), p \in 0 .. avail_out : RunOn(c, p) \/ RunReturns(c, p)
    BY <1>1 DEF Run
  <2> QED
    BY <2>1, RunOnKeeps, RunReturnsKeeps
<1> QED
  BY <1>1, WriteOffsetKeeps, WriteBlobKeeps, NextProviderKeeps, WriteEndsKeeps, GetDataKeeps DEF Worker

LEMMA WriterStarts == ASSUME WriterInit PROVE WriterInv
<1>1. cluster \in Clusters /\ wpc = "content" /\ given = GivenRecord(1, 1, 0)
  BY DEF WriterInit, GivenRecord
<1>2. given = [offset |-> given.offset, blob |-> given.blob, done |-> given.done]
      /\ given.offset = 1 /\ given.blob = 1 /\ given.done = 0
  BY <1>1 DEF GivenRecord
<1>3. PICK n \in Nat : n = Len(cluster.sizes) /\ \A i \in 1 .. n : cluster.sizes[i] \in Nat
  BY <1>1, ClusterFacts
<1>4. GivenOk(cluster, 1, 1, 0)
  BY <1>3 DEF GivenOk
<1>5. GivenNow = 0
  <2>1. PICK w \in Nat : w = OffsetSize(cluster)
    BY <1>1, ClusterFacts
  <2>2. BlobOffset(cluster, 1) = 0
    BY <1>1, SumFacts
  <2>3. GivenNow = (1 - 1) * w + 0 + 0
    BY <1>2, <2>1, <2>2, Zenon DEF GivenNow, GivenUnits
  <2> QED
    BY <2>3
<1>6. Len(Content(cluster)) \in Nat /\ Len(Encodings(cluster)) \in Nat
  BY <1>1, EncodingFacts
<1>7. PartOf(<<>>, Content(cluster), 0) /\ PartOf(<<>>, Encodings(cluster), 0) /\ Len(<<>>) = 0
  BY <1>6, PartEmpty
<1>8. CASE cluster.codec = "none"
  <2>1. PICK info : info = <<ClusterInfo(cluster)>>
    OBVIOUS
  <2>2. file = info
    BY <1>8, <2>1, Zenon DEF WriterInit
  <2>3. info = info \o <<>>
    BY <2>1
  <2>4. RawInv
    BY <1>1, <1>5, <1>7, <2>1, <2>2, <2>3, Zenon DEF RawInv
  <2> QED
    BY <1>1, <1>2, <1>4, <1>8, <2>4 DEF WriterInv
<1>9. CASE cluster.codec # "none"
  <2>1. /\ next_out = 0 /\ total_out = 0 /\ avail_out = InitialSize /\ ret_data = Units(InitialSize)
        /\ step = "STEP" /\ next_in = <<>> /\ codec.held = <<>> /\ codec.frame = "open"
    BY DEF WriterInit, NoCodec
  <2>2. InitialSize \in Nat
    BY SizesAssumption
  <2>3. IsSeq(ret_data) /\ Len(ret_data) = InitialSize
    BY <2>1, <2>2, UnitsFacts, Zenon
  <2>4. 0 + InitialSize = Len(ret_data) /\ 1 .. 0 = {}
    BY <2>2, <2>3
  <2>5. BufferOk(cluster, ret_data, 0, InitialSize)
    <3>1. 0 \in Nat
      OBVIOUS
    <3> QED
      BY <2>2, <2>3, <2>4, <3>1, Zenon DEF BufferOk
  <2>6. 0 + 0 = 0 /\ 0 + 0 + 0 = 0
    OBVIOUS
  <2>7. StepOk(cluster, codec.held, codec.frame, total_out, next_in, GivenNow)
    BY <1>5, <1>7, <2>1, <2>6, Zenon DEF StepOk
  <2>8. CodecInv
    BY <1>1, <2>1, <2>5, <2>7 DEF CodecInv
  <2> QED
    BY <1>1, <1>2, <1>4, <1>9, <2>8 DEF WriterInv
<1> QED
  BY <1>8, <1>9
-----------------------------------------------------------------------------
(* What the runs check about the writer *)

LEMMA WrittenExact == ASSUME WriterInv PROVE OutputComplete
<1> SUFFICES ASSUME wpc = "written"
             PROVE  LET content == Content(cluster)
                        encoded == Append([i \in 1 .. Len(content) |-> Encoded(content[i])], EndOfFrame)
                    IN  file \in IF cluster.codec = "none" THEN {Written(content)}
                                 ELSE {Written(encoded)} \cup
                                      (IF cluster.codec = "zstd" THEN {Written(Append(encoded, EndOfFrame))} ELSE {})
  BY Zenon DEF OutputComplete
<1>1. cluster \in Clusters /\ WrittenInv
  BY DEF WriterInv
<1>2. PICK content : content = Content(cluster)
  OBVIOUS
<1>3. PICK l \in Nat : l = Len(content) /\ IsSeq(content)
  BY <1>1, <1>2, EncodingFacts, ContentFacts
<1>4. PICK data :
        /\ file = Written(data)
        /\ IF cluster.codec = "none" THEN PartOf(data, content, 0) /\ Len(data) = l
           ELSE /\ PartOf(data, Encodings(cluster), 0)
                /\ \/ Len(data) = l + 1
                   \/ cluster.codec = "zstd" /\ Len(data) = l + 2
  BY <1>1, <1>2, <1>3, Zenon DEF WrittenInv
<1>5. PICK plain : plain = Taken(content, l)
  OBVIOUS
<1>6. PICK once : once = Append(plain, EndOfFrame)
  OBVIOUS
<1>7. PICK twice : twice = Append(once, EndOfFrame)
  OBVIOUS
<1>8. SUFFICES file \in IF cluster.codec = "none" THEN {Written(content)}
                        ELSE {Written(once)} \cup (IF cluster.codec = "zstd" THEN {Written(twice)} ELSE {})
  BY <1>2, <1>3, <1>5, <1>6, <1>7, Zenon DEF Taken
<1>9. PartOf(content, content, 0) /\ 0 \in Nat /\ l <= Len(content)
  <2>1. 0 + l <= l /\ \A i \in 1 .. l : 0 + i = i
    BY <1>3
  <2> QED
    BY <1>3, <2>1 DEF PartOf
<1>10. PICK z : z = Encodings(cluster)
  OBVIOUS
<1>11. PartOf(plain, z, 0) /\ Len(plain) = l
  BY <1>1, <1>2, <1>5, <1>9, <1>10, TakenFacts
<1>12. PICK mark : mark = <<EndOfFrame>>
  OBVIOUS
<1>13. PartOf(mark, z, l) /\ PartOf(mark, z, l + 1) /\ Len(mark) = 1
  <2>1. l + 1 \in Nat
    BY <1>3
  <2>2. l \in {l, l + 1} /\ l + 1 \in {l, l + 1}
    BY Zenon
  <2> QED
    BY <1>1, <1>2, <1>3, <1>10, <1>12, <2>1, <2>2, MarkPart, Zenon
<1>14. PartOf(once, z, 0) /\ Len(once) = l + 1
  <2>1. l = 0 + Len(plain) /\ IsSeq(plain)
    BY <1>3, <1>11 DEF PartOf
  <2>2. PartOf(plain \o mark, z, 0) /\ Len(plain \o mark) = Len(plain) + Len(mark)
    BY <1>3, <1>9, <1>11, <1>13, <2>1, PartCat
  <2>3. once = plain \o mark
    BY <1>6, <1>12, <2>1, AppendCat, Zenon
  <2> QED
    BY <1>11, <1>13, <2>2, <2>3, Zenon
<1>15. PartOf(twice, z, 0) /\ Len(twice) = l + 2
  <2>0. PICK k \in Nat : k = l + 1
    BY <1>3
  <2>1. k = 0 + Len(once) /\ IsSeq(once)
    BY <2>0, <1>14 DEF PartOf
  <2>2. PartOf(once \o mark, z, 0) /\ Len(once \o mark) = Len(once) + Len(mark)
    BY <1>9, <1>13, <1>14, <2>0, <2>1, PartCat
  <2>3. twice = once \o mark
    BY <1>7, <1>12, <2>1, AppendCat, Zenon
  <2>4. (l + 1) + 1 = l + 2
    BY <1>3
  <2> QED
    BY <1>13, <1>14, <2>2, <2>3, <2>4, Zenon
<1>16. CASE cluster.codec = "none"
  <2>1. data = content
    BY <1>3, <1>4, <1>9, <1>16, PartSame, Zenon
  <2> QED
    BY <1>4, <1>16, <2>1, Zenon
<1>17. CASE cluster.codec # "none"
  <2>1. PartOf(data, z, 0) /\ (Len(data) = l + 1 \/ (cluster.codec = "zstd" /\ Len(data) = l + 2))
    BY <1>4, <1>10, <1>17, Zenon
  <2>2. CASE Len(data) = l + 1
    <3>1. data = once
      BY <1>9, <1>14, <2>1, <2>2, PartSame, Zenon
    <3> QED
      BY <1>4, <1>17, <3>1, Zenon
  <2>3. CASE cluster.codec = "zstd" /\ Len(data) = l + 2
    <3>1. data = twice
      BY <1>9, <1>15, <2>1, <2>3, PartSame, Zenon
    <3>2. "zstd" # "none"
      OBVIOUS
    <3> QED
      BY <1>4, <2>3, <3>1, <3>2, Zenon
  <2> QED
    BY <2>1, <2>2, <2>3
<1> QED
  BY <1>16, <1>17
-----------------------------------------------------------------------------
(* The file, as the reader finds it *)

LEMMA FileFacts ==
  ASSUME WriterInv, wpc = "written"
  PROVE  /\ IsSeq(file) /\ Len(file) \in Nat /\ file[1] = ClusterInfo(cluster)
         /\ cluster.codec = "none" =>
              /\ Len(Content(cluster)) + 1 <= Len(file)
              /\ \A i \in 1 .. Len(Content(cluster)) : file[1 + i] = Content(cluster)[i]
         /\ cluster.codec # "none" =>
              /\ Len(Content(cluster)) + 2 <= Len(file)
              /\ \A i \in 1 .. Len(Content(cluster)) + 1 : file[1 + i] = Encodings(cluster)[i]
<1>1. cluster \in Clusters /\ WrittenInv
  BY DEF WriterInv
<1>2. PICK c, z : c = Content(cluster) /\ z = Encodings(cluster)
  BY Zenon
<1>3. PICK l \in Nat : l = Len(c)
  BY <1>1, <1>2, EncodingFacts
<1>4. PICK data :
        /\ file = Written(data)
        /\ IF cluster.codec = "none" THEN PartOf(data, c, 0) /\ Len(data) = l
           ELSE /\ PartOf(data, z, 0)
                /\ Len(data) = l + 1 \/ (cluster.codec = "zstd" /\ Len(data) = l + 2)
  BY <1>1, <1>2, <1>3, Zenon DEF WrittenInv
<1>5. IsSeq(data)
  BY <1>4 DEF PartOf
<1>6. PICK m \in Nat : m = Len(data)
  BY <1>5, SeqFacts
<1>7. PICK info, u, k : info = <<ClusterInfo(cluster)>> /\ u = Units(Trailer) /\ k = Trailer
  BY Zenon
<1>8. IsSeq(info) /\ Len(info) = 1 /\ info[1] = ClusterInfo(cluster) /\ IsSeq(u) /\ Len(u) = k /\ k \in Nat
  BY <1>7, SmallSeqs, UnitsFacts, SizesAssumption, Zenon
<1>9. PICK f : f = info \o data
  OBVIOUS
<1>10. IsSeq(f) /\ Len(f) = 1 + m /\ \A i \in 1 .. 1 + m : f[i] = IF i <= 1 THEN info[i] ELSE data[i - 1]
  <2>1. /\ IsSeq(info \o data) /\ Len(info \o data) = Len(info) + Len(data)
        /\ \A i \in 1 .. Len(info) + Len(data) :
             (info \o data)[i] = IF i <= Len(info) THEN info[i] ELSE data[i - Len(info)]
    BY <1>5, <1>8, CatFacts
  <2> QED
    BY <1>6, <1>8, <1>9, <2>1, Zenon
<1>11. file = f \o u
  BY <1>4, <1>7, <1>9, Zenon DEF Written
<1>12. /\ IsSeq(file) /\ Len(file) = (1 + m) + k
       /\ \A i \in 1 .. (1 + m) + k : file[i] = IF i <= 1 + m THEN f[i] ELSE u[i - (1 + m)]
  <2>1. /\ IsSeq(f \o u) /\ Len(f \o u) = Len(f) + Len(u)
        /\ \A i \in 1 .. Len(f) + Len(u) :
             (f \o u)[i] = IF i <= Len(f) THEN f[i] ELSE u[i - Len(f)]
    BY <1>8, <1>10, CatFacts
  <2> QED
    BY <1>8, <1>10, <1>11, <2>1, Zenon
<1>13. file[1] = ClusterInfo(cluster)
  <2>1. 1 \in 1 .. (1 + m) + k /\ 1 <= 1 + m /\ 1 \in 1 .. 1 + m /\ 1 <= 1
    BY <1>8
  <2> QED
    BY <1>8, <1>10, <1>12, <2>1, Zenon
<1>14. ASSUME NEW i \in 1 .. m PROVE file[1 + i] = data[i]
  <2>1. PICK j : j = 1 + i
    OBVIOUS
  <2>2. j \in 1 .. (1 + m) + k /\ j <= 1 + m /\ j \in 1 .. 1 + m /\ ~ (j <= 1) /\ j - 1 = i
    BY <1>8, <2>1
  <2> QED
    BY <1>10, <1>12, <2>1, <2>2, Zenon
<1>15. Len(file) \in Nat /\ m + 1 <= Len(file)
  BY <1>8, <1>12
<1>16. CASE cluster.codec = "none"
  <2>1. m = l /\ \A i \in 1 .. m : data[i] = c[0 + i]
    BY <1>4, <1>6, <1>16, Zenon DEF PartOf
  <2>2. \A i \in 1 .. m : 0 + i = i
    OBVIOUS
  <2>3. \A i \in 1 .. l : file[1 + i] = c[i]
    BY <1>14, <2>1, <2>2
  <2> QED
    BY <1>2, <1>3, <1>12, <1>13, <1>15, <1>16, <2>1, <2>3
<1>17. CASE cluster.codec # "none"
  <2>1. (m = l + 1 \/ m = l + 2) /\ \A i \in 1 .. m : data[i] = z[0 + i]
    BY <1>4, <1>6, <1>17, Zenon DEF PartOf
  <2>2. \A i \in 1 .. l + 1 : i \in 1 .. m /\ 0 + i = i
    BY <2>1
  <2>3. \A i \in 1 .. l + 1 : file[1 + i] = z[i]
    <3> SUFFICES ASSUME NEW i \in 1 .. l + 1 PROVE file[1 + i] = z[i]
      BY Zenon
    <3>1. i \in 1 .. m /\ 0 + i = i
      BY <2>2, Zenon
    <3>2. file[1 + i] = data[i] /\ data[i] = z[0 + i]
      BY <1>14, <2>1, <3>1, Zenon
    <3> QED
      BY <3>1, <3>2, Zenon
  <2>4. l + 2 <= Len(file)
    BY <1>3, <1>15, <2>1
  <2>5. Len(file) \in Nat
    BY <1>15
  <2> QED
    BY <1>2, <1>3, <1>12, <1>13, <1>17, <2>3, <2>4, <2>5, Zenon
<1> QED
  BY <1>16, <1>17

LEMMA InfoFacts ==
  ASSUME WriterInv, wpc = "written"
  PROVE  (Compressed <=> cluster.codec # "none") /\ Width = OffsetSize(cluster)
<1>1. file[1] = ClusterInfo(cluster)
  BY FileFacts
<1>2. file[1][2] = cluster.codec /\ file[1][3] = Extended(cluster)
  BY <1>1 DEF ClusterInfo
<1> QED
  BY <1>2, Zenon DEF Compressed, Width, OffsetSize

StreamRecord(p, c, h, e, b, a) == [pos |-> p, chunk |-> c, held |-> h, ended |-> e, buf |-> b, avail_out |-> a]

LEMMA StreamForm ==
  ASSUME NEW p, NEW c, NEW h, NEW e, NEW b, NEW a, NEW s, s = StreamRecord(p, c, h, e, b, a)
  PROVE  /\ IsStream(s)
         /\ s.pos = p /\ s.chunk = c /\ s.held = h /\ s.ended = e /\ s.buf = b /\ s.avail_out = a
BY DEF StreamRecord, IsStream

\* What the file holds behind position q, for a cluster that is not compressed
LEMMA RawPart ==
  ASSUME WriterInv, wpc = "written", cluster.codec = "none", NEW q \in Nat, NEW n \in Nat,
         q + n <= Len(Content(cluster))
  PROVE  PartOf(At(q, n), Content(cluster), q) /\ Len(At(q, n)) = n
<1>1. PICK c : c = Content(cluster)
  OBVIOUS
<1>2. PICK l \in Nat : l = Len(c)
  BY <1>1, EncodingFacts DEF WriterInv
<1>3. Len(file) \in Nat /\ l + 1 <= Len(file) /\ \A i \in 1 .. l : file[1 + i] = c[i]
  BY <1>1, <1>2, FileFacts, Zenon
<1>4. PICK s : s = At(q, n)
  OBVIOUS
<1>5. s = [i \in 1 .. n |-> IF (q + 1) + i <= Len(file) THEN file[(q + 1) + i] ELSE Garbage]
  BY <1>4, Zenon DEF At, SubBuffer
<1>6. s = [i \in 1 .. n |-> s[i]]
  BY <1>5
<1>7. IsSeq(s) /\ Len(s) = n
  BY <1>6, FunctionSeq
<1>8. ASSUME NEW i \in 1 .. n PROVE s[i] = c[q + i]
  <2>1. (q + 1) + i <= Len(file) /\ q + i \in 1 .. l /\ (q + 1) + i = 1 + (q + i)
    BY <1>1, <1>2, <1>3
  <2>2. s[i] = file[(q + 1) + i]
    BY <1>5, <2>1, Zenon
  <2>3. file[1 + (q + i)] = c[q + i]
    BY <1>3, <2>1, Zenon
  <2> QED
    BY <2>1, <2>2, <2>3, Zenon
<1>9. PartOf(s, c, q)
  BY <1>1, <1>7, <1>8, Zenon DEF PartOf
<1> QED
  BY <1>1, <1>4, <1>7, <1>9, Zenon

\* A read of n units begins where the stream is.
LEMMA StartReadFacts ==
  ASSUME WriterInv, wpc = "written", NEW q, NEW n \in Nat, q + n <= Len(Content(cluster)),
         StreamAt(file, cluster, stream, q)
  PROVE  ReadingAt(file, cluster, StartRead(n), q, n)
<1>0. q \in Nat /\ cluster \in Clusters
  BY DEF StreamAt, WriterInv
<1>1. PICK c : c = Content(cluster)
  OBVIOUS
<1>2. Len(c) \in Nat /\ q <= Len(c)
  BY <1>0, <1>1, EncodingFacts
<1>3. PICK s : s = StartRead(n)
  OBVIOUS
<1>4. CASE cluster.codec = "none"
  <2>1. stream.avail_out = 0 /\ stream.pos = q /\ IsStream(stream)
    BY <1>4 DEF StreamAt, RawAt
  <2>2. s = [stream EXCEPT !.buf = At(stream.pos, n), !.pos = @ + n]
    BY <1>3, <1>4, InfoFacts, Zenon DEF StartRead
  <2>3. PICK b : b = At(q, n)
    OBVIOUS
  <2>4. s = StreamRecord(q + n, stream.chunk, stream.held, stream.ended, b, 0)
    BY <2>1, <2>2, <2>3 DEF IsStream, StreamRecord
  <2>5. IsStream(s) /\ s.pos = q + n /\ s.buf = b /\ s.avail_out = 0
    BY <2>4, StreamForm
  <2>6. PartOf(b, c, q) /\ Len(b) = n
    BY <1>0, <1>1, <1>4, <2>3, RawPart, Zenon
  <2>7. 0 \in Nat /\ n + 0 = n /\ q + n \in Nat
    BY <1>0
  <2>8. StreamAt(file, cluster, s, q + n)
    BY <1>4, <2>5, <2>7, Zenon DEF StreamAt, RawAt
  <2>9. ReadingAt(file, cluster, s, q, n)
    BY <1>0, <1>1, <2>5, <2>6, <2>7, <2>8, Zenon DEF ReadingAt
  <2> QED
    BY <1>3, <2>9, Zenon
<1>5. CASE cluster.codec # "none"
  <2>1. IsStream(stream) /\ DecoderAt(file, cluster, stream, q, stream.pos - Len(stream.chunk))
    BY <1>5 DEF StreamAt
  <2>2. s = [stream EXCEPT !.buf = <<>>, !.avail_out = n]
    BY <1>3, <1>5, InfoFacts, Zenon DEF StartRead
  <2>3. PICK b : b = <<>>
    OBVIOUS
  <2>4. s = StreamRecord(stream.pos, stream.chunk, stream.held, stream.ended, b, n)
    BY <2>1, <2>2, <2>3 DEF IsStream, StreamRecord
  <2>5. /\ IsStream(s) /\ s.pos = stream.pos /\ s.buf = b /\ s.avail_out = n
        /\ s.chunk = stream.chunk /\ s.held = stream.held /\ s.ended = stream.ended
    BY <2>4, StreamForm
  <2>6. PartOf(b, c, q) /\ Len(b) = 0
    BY <1>0, <1>2, <2>3, PartEmpty, Zenon
  <2>7. 0 + n = n /\ q + 0 = q
    BY <1>0
  <2>8. DecoderAt(file, cluster, s, q, s.pos - Len(s.chunk))
    BY <2>1, <2>5, Zenon DEF DecoderAt
  <2>9. StreamAt(file, cluster, s, q)
    BY <1>0, <1>5, <2>5, <2>8, Zenon DEF StreamAt
  <2>10. ReadingAt(file, cluster, s, q, n)
    BY <1>0, <1>1, <2>5, <2>6, <2>7, <2>9, Zenon DEF ReadingAt
  <2> QED
    BY <1>3, <2>10, Zenon
<1> QED
  BY <1>4, <1>5
LEMMA DecoderStream ==
  ASSUME NEW f, NEW cl, NEW s, NEW q \in Nat, NEW d, cl.codec # "none", IsStream(s), DecoderAt(f, cl, s, q, d)
  PROVE  StreamAt(f, cl, s, q)
<1>1. d \in Nat /\ s.pos = d + Len(s.chunk) /\ IsSeq(s.chunk)
  BY DEF DecoderAt, PartOf
<1>2. PICK m \in Nat : m = Len(s.chunk)
  BY <1>1, SeqFacts
<1>3. (d + m) - m = d
  BY <1>1
<1>4. s.pos - Len(s.chunk) = d
  BY <1>1, <1>2, <1>3, Zenon
<1> QED
  BY <1>4, Zenon DEF StreamAt

\* readNextChunk: the next chunk begins where the last one ended.
LEMMA NextChunkFacts ==
  ASSUME WriterInv, wpc = "written", NEW s, NEW q \in Nat, NEW d, IsStream(s), s.chunk = <<>>,
         DecoderAt(file, cluster, s, q, d)
  PROVE  /\ IsStream(NextChunk(s)) /\ DecoderAt(file, cluster, NextChunk(s), q, d)
         /\ NextChunk(s).buf = s.buf /\ NextChunk(s).avail_out = s.avail_out
<1>1. d \in Nat /\ s.pos = d + Len(s.chunk) /\ 1 + d + Len(s.chunk) <= Len(file)
  BY DEF DecoderAt, PartOf
<1>2. s.pos = d /\ 1 + d <= Len(file) /\ Len(file) \in Nat
  <2>1. Len(s.chunk) = 0 /\ Len(file) \in Nat
    BY SmallSeqs, FileFacts
  <2> QED
    BY <1>1, <2>1
<1>3. PICK n : n = Least(ChunkSize, Len(file) - 1 - s.pos)
  OBVIOUS
<1>4. n \in Nat /\ 1 + d + n <= Len(file)
  <2>1. PICK f \in Nat, w \in Nat : f = Len(file) /\ w = ChunkSize
    BY <1>2, ReadersAssumption
  <2>2. n = IF w < f - 1 - d THEN w ELSE f - 1 - d
    BY <1>2, <1>3, <2>1, Zenon DEF Least
  <2>3. d \in Nat /\ 1 + d <= f
    BY <1>1, <1>2, <2>1, Zenon
  <2>4. n \in Nat /\ 1 + d + n <= f
    BY <2>2, <2>3
  <2> QED
    BY <2>1, <2>4, Zenon
<1>5. PICK k : k = At(d, n)
  OBVIOUS
<1>6. k = [i \in 1 .. n |-> IF (d + 1) + i <= Len(file) THEN file[(d + 1) + i] ELSE Garbage]
  BY <1>5, Zenon DEF At, SubBuffer
<1>7. k = [i \in 1 .. n |-> k[i]]
  BY <1>6
<1>8. IsSeq(k) /\ Len(k) = n
  BY <1>4, <1>7, FunctionSeq
<1>9. ASSUME NEW i \in 1 .. n PROVE k[i] = file[(1 + d) + i]
  <2>1. (d + 1) + i <= Len(file) /\ (d + 1) + i = (1 + d) + i
    BY <1>1, <1>2, <1>4
  <2> QED
    BY <1>6, <2>1, Zenon
<1>10. PartOf(k, file, 1 + d)
  BY <1>4, <1>8, <1>9, Zenon DEF PartOf
<1>11. PICK r : r = NextChunk(s)
  OBVIOUS
<1>12. r = StreamRecord(d + n, k, s.held, s.ended, s.buf, s.avail_out)
  <2>1. r = [s EXCEPT !.chunk = k, !.pos = @ + n]
    BY <1>2, <1>3, <1>5, <1>11, Zenon DEF NextChunk
  <2> QED
    BY <1>2, <2>1 DEF IsStream, StreamRecord
<1>13. /\ IsStream(r) /\ r.pos = d + n /\ r.chunk = k /\ r.held = s.held /\ r.ended = s.ended
       /\ r.buf = s.buf /\ r.avail_out = s.avail_out
  BY <1>12, StreamForm
<1>14. d + n \in Nat
  BY <1>1, <1>4
<1>15. DecoderAt(file, cluster, r, q, d)
  BY <1>8, <1>10, <1>13, <1>14, Zenon DEF DecoderAt
<1> QED
  BY <1>11, <1>13, <1>15, Zenon

\* A chunk of the file from d on: content up to the mark of the frame
LEMMA ChunkUnits ==
  ASSUME WriterInv, wpc = "written", cluster.codec # "none", NEW k, NEW d \in Nat, PartOf(k, file, 1 + d),
         NEW i \in 1 .. Len(k)
  PROVE  /\ d + i <= Len(Content(cluster)) => k[i] # EndOfFrame /\ k[i][2] = Content(cluster)[d + i]
         /\ d + i = Len(Content(cluster)) + 1 => k[i] = EndOfFrame
<1>1. PICK c, z : c = Content(cluster) /\ z = Encodings(cluster)
  BY Zenon
<1>2. PICK l \in Nat : l = Len(c)
  BY <1>1, EncodingFacts DEF WriterInv
<1>3. \A j \in 1 .. l + 1 : file[1 + j] = z[j]
  BY <1>1, <1>2, FileFacts, Zenon
<1>4. z[l + 1] = EndOfFrame /\ \A j \in 1 .. l : z[j] = Encoded(c[j])
  BY <1>1, <1>2, EncodingFacts, Zenon DEF WriterInv
<1>5. k[i] = file[(1 + d) + i]
  BY Zenon DEF PartOf
<1>6. PICK m \in Nat : m = Len(k)
  BY SeqFacts DEF PartOf
<1>7. PICK j : j = d + i
  OBVIOUS
<1>8. j \in Nat /\ j # 0 /\ (1 + d) + i = 1 + j
  BY <1>6, <1>7
<1>9. CASE j <= l
  <2>1. j \in 1 .. l + 1 /\ j \in 1 .. l /\ j # l + 1
    BY <1>8, <1>9
  <2>2. k[i] = Encoded(c[j])
    BY <1>3, <1>4, <1>5, <1>8, <2>1, Zenon
  <2>3. \A u : Encoded(u)[2] = u /\ Encoded(u) # EndOfFrame
    BY DEF Encoded, EndOfFrame
  <2>4. k[i] # EndOfFrame /\ k[i][2] = c[j]
    BY <2>2, <2>3, Zenon
  <2> QED
    BY <1>1, <1>2, <1>7, <2>1, <2>4, Zenon
<1>10. CASE ~ (j <= l)
  <2>1. CASE j = l + 1
    <3>1. j \in 1 .. l + 1
      BY <1>8, <2>1
    <3>2. k[i] = EndOfFrame
      BY <1>3, <1>4, <1>5, <1>8, <2>1, <3>1, Zenon
    <3> QED
      BY <1>1, <1>2, <1>7, <1>10, <3>2, Zenon
  <2>2. CASE j # l + 1
    BY <1>1, <1>2, <1>7, <1>10, <2>2, Zenon
  <2> QED
    BY <2>1, <2>2
<1> QED
  BY <1>9, <1>10

\* The decoder takes nothing behind the mark.
LEMMA InFrameFacts ==
  ASSUME WriterInv, wpc = "written", cluster.codec # "none", NEW k, NEW d \in Nat, PartOf(k, file, 1 + d),
         d <= Len(Content(cluster)), NEW x \in 0 .. Len(k), x <= InFrame(k)
  PROVE  d + x <= Len(Content(cluster)) + 1
<1>1. PICK l \in Nat : l = Len(Content(cluster))
  BY EncodingFacts DEF WriterInv
<1>2. PICK m \in Nat : m = Len(k)
  BY SeqFacts DEF PartOf
<1> SUFFICES ASSUME ~ (d + x <= l + 1) PROVE FALSE
  BY <1>1
<1>3. PICK y : y = l + 1 - d
  OBVIOUS
<1>4. y \in 1 .. m /\ y < x /\ d + y = l + 1 /\ \A j \in 1 .. y - 1 : j \in 1 .. m /\ d + j <= l
  BY <1>1, <1>2, <1>3
<1>5. k[y] = EndOfFrame /\ \A j \in 1 .. y - 1 : k[j] # EndOfFrame
  BY <1>1, <1>2, <1>4, ChunkUnits, ZenonT(60)
<1> DEFINE P(i) == k[i] = EndOfFrame /\ \A j \in 1 .. i - 1 : k[j] # EndOfFrame
<1>6. PICK w : w = CHOOSE i \in 1 .. m : P(i)
  OBVIOUS
<1>7. w \in 1 .. m /\ P(w)
  <2>1. P(y)
    BY <1>5
  <2> HIDE DEF P
  <2> QED
    BY <1>4, <1>6, <2>1, Zenon
<1>8. InFrame(k) = w
  BY <1>2, <1>4, <1>5, <1>6, Zenon DEF InFrame
<1>9. y \notin 1 .. w - 1
  BY <1>5, <1>7
<1>10. w <= y
  BY <1>4, <1>7, <1>9
<1> QED
  BY <1>2, <1>4, <1>7, <1>8, <1>10
\* The units of content in the first x units of a chunk
Plain(k, x) == [i \in 1 .. x |-> k[i][2]]

LEMMA PlainSeq ==
  ASSUME NEW k, NEW x \in Nat
  PROVE  IsSeq(Plain(k, x)) /\ Len(Plain(k, x)) = x /\ \A i \in 1 .. x : Plain(k, x)[i] = k[i][2]
<1>1. PICK s : s = Plain(k, x)
  OBVIOUS
<1>2. s = [i \in 1 .. x |-> s[i]] /\ \A i \in 1 .. x : s[i] = k[i][2]
  BY <1>1 DEF Plain
<1>3. IsSeq(s) /\ Len(s) = x
  BY <1>2, FunctionSeq
<1> QED
  BY <1>1, <1>2, <1>3, Zenon

LEMMA PlainFacts ==
  ASSUME WriterInv, wpc = "written", cluster.codec # "none", NEW k, NEW d \in Nat, PartOf(k, file, 1 + d),
         NEW x \in Nat, x <= Len(k), d + x <= Len(Content(cluster))
  PROVE  PartOf(Plain(k, x), Content(cluster), d) /\ Len(Plain(k, x)) = x
<1>1. PICK l \in Nat : l = Len(Content(cluster))
  BY EncodingFacts DEF WriterInv
<1>2. PICK m \in Nat : m = Len(k)
  BY SeqFacts DEF PartOf
<1>3. PICK s : s = Plain(k, x)
  OBVIOUS
<1>4. IsSeq(s) /\ Len(s) = x /\ \A i \in 1 .. x : s[i] = k[i][2]
  BY <1>3, PlainSeq, Zenon
<1>5. ASSUME NEW i \in 1 .. x PROVE s[i] = Content(cluster)[d + i]
  <2>1. i \in 1 .. m /\ d + i <= l
    BY <1>1, <1>2
  <2>2. k[i][2] = Content(cluster)[d + i]
    BY <1>1, <1>2, <2>1, ChunkUnits, Zenon
  <2> QED
    BY <1>4, <2>2, Zenon
<1>6. PartOf(s, Content(cluster), d)
  BY <1>4, <1>5, Zenon DEF PartOf
<1> QED
  BY <1>3, <1>4, <1>6, Zenon

\* decodeMoreBytes delivers what comes next, whatever the decoder takes and
\* keeps back.
LEMMA DecodeFacts ==
  ASSUME WriterInv, wpc = "written", cluster.codec # "none", NEW s, NEW start, NEW n, IsStream(s),
         ReadingAt(file, cluster, s, start, n),
         NEW x \in 0 .. Len(s.chunk), NEW p \in 0 .. s.avail_out, Decode(s, x, p)
  PROVE  ReadingAt(file, cluster, stream', start, n)
<1>1. PICK c : c = Content(cluster)
  OBVIOUS
<1>2. PICK l \in Nat : l = Len(c)
  BY <1>1, EncodingFacts DEF WriterInv
<1>3. /\ start \in Nat /\ n \in Nat /\ start + n <= l
      /\ PartOf(s.buf, c, start) /\ s.avail_out \in Nat /\ Len(s.buf) + s.avail_out = n
      /\ StreamAt(file, cluster, s, start + Len(s.buf))
  BY <1>1, <1>2, Zenon DEF ReadingAt
<1>4. PICK b \in Nat : b = Len(s.buf)
  BY <1>3, SeqFacts DEF PartOf
<1>5. PICK q \in Nat : q = start + b
  BY <1>3
<1>6. PICK d : d = s.pos - Len(s.chunk)
  OBVIOUS
<1>7. DecoderAt(file, cluster, s, q, d)
  BY <1>3, <1>4, <1>5, <1>6, Zenon DEF StreamAt
<1>8. /\ d \in Nat /\ s.pos = d + Len(s.chunk) /\ PartOf(s.chunk, file, 1 + d)
      /\ s.ended \in BOOLEAN /\ s.pos \in Nat
      /\ IF s.ended THEN d = l + 1 ELSE d <= l
      /\ PartOf(s.held, c, q)
      /\ q + Len(s.held) = IF s.ended THEN l ELSE d
  BY <1>1, <1>2, <1>7, Zenon DEF DecoderAt
<1>9. PICK k, m : k = s.chunk /\ m = Len(s.chunk)
  BY Zenon
<1>10. m \in Nat /\ x \in Nat /\ x <= m /\ p \in Nat /\ p <= s.avail_out /\ m = Len(k)
  <2>1. m \in Nat
    BY <1>8, <1>9, SeqFacts DEF PartOf
  <2> QED
    BY <1>3, <1>9, <2>1
<1>11. PICK h \in Nat : h = Len(s.held)
  BY <1>8, SeqFacts DEF PartOf
<1> DEFINE ends == x > 0 /\ k[x] = EndOfFrame
           y == IF ends THEN x - 1 ELSE x
           e == IF s.ended THEN l ELSE d
<1>12. s.ended => x = 0
  <2> HAVE s.ended
  <2>1. x <= 0
    BY Zenon DEF Decode
  <2> QED
    BY <1>10, <2>1
<1>13. ~ s.ended => d + x <= l + 1
  <2> HAVE ~ s.ended
  <2>1. x <= InFrame(k) /\ x \in 0 .. Len(k) /\ d <= l /\ PartOf(k, file, 1 + d)
    BY <1>8, <1>9, Zenon DEF Decode
  <2> QED
    BY <1>1, <1>2, <1>8, <2>1, InFrameFacts
<1>14. /\ y \in Nat /\ y <= m
       /\ s.ended => ~ ends /\ y = 0
       /\ ~ s.ended => (ends => d + x = l + 1) /\ (~ ends => d + x <= l) /\ d + y <= l
  <2>1. CASE s.ended
    BY <1>10, <1>12, <2>1
  <2>2. CASE ~ s.ended
    <3>1. CASE x = 0
      BY <1>8, <1>10, <2>2, <3>1
    <3>2. CASE x # 0
      <4>1. x \in 1 .. Len(k)
        BY <1>10, <3>2
      <4>2. /\ d + x <= l => k[x] # EndOfFrame
            /\ d + x = l + 1 => k[x] = EndOfFrame
        BY <1>1, <1>2, <1>8, <1>9, <4>1, ChunkUnits, ZenonT(60)
      <4> QED
        BY <1>8, <1>10, <1>13, <2>2, <3>2, <4>2
    <3> QED
      BY <3>1, <3>2
  <2> QED
    BY <1>8, <2>1, <2>2
<1>15. PICK new : new = Plain(k, y)
  OBVIOUS
<1>16. PartOf(new, c, q + h) /\ Len(new) = y
  <2>1. q + h = e
    BY <1>8, <1>11, Zenon
  <2>2. CASE s.ended
    <3>1. y = 0
      BY <1>14, <2>2, Zenon
    <3>2. IsSeq(new) /\ Len(new) = y
      BY <1>14, <1>15, PlainSeq, Zenon
    <3>3. (q + h) + y <= Len(c) /\ 1 .. y = {}
      BY <1>2, <2>1, <2>2, <3>1
    <3> HIDE DEF y
    <3> QED
      BY <3>2, <3>3, Zenon DEF PartOf
  <2>3. CASE ~ s.ended
    <3>1. y \in Nat /\ y <= Len(k) /\ d + y <= Len(c) /\ d \in Nat /\ PartOf(k, file, 1 + d)
      <4>1. y \in Nat /\ y <= m /\ d + y <= l
        BY <1>14, <2>3, Zenon
      <4> HIDE DEF y
      <4> QED
        BY <1>2, <1>8, <1>9, <1>10, <4>1, Zenon
    <3>2. q + h = d
      BY <2>1, <2>3, Zenon
    <3> HIDE DEF y
    <3> QED
      BY <1>1, <1>15, <3>1, <3>2, PlainFacts, Zenon
  <2> QED
    BY <1>8, <2>2, <2>3
<1>17. PICK all : all = s.held \o new
  OBVIOUS
<1>18. PartOf(all, c, q) /\ Len(all) = h + y
  <2>1. q + h \in Nat /\ q + h = q + Len(s.held)
    BY <1>11
  <2> HIDE DEF y
  <2>2. PartOf(s.held \o new, c, q) /\ Len(s.held \o new) = Len(s.held) + Len(new)
    BY <1>8, <1>16, <2>1, PartCat
  <2> QED
    BY <1>11, <1>16, <1>17, <2>2, Zenon
<1>19. PICK r : r = stream'
  OBVIOUS
<1>20. /\ p <= Len(all)
       /\ r = [s EXCEPT !.chunk = SubSeq(@, x + 1, Len(@)), !.ended = (s.ended \/ ends),
                        !.held = SubSeq(all, p + 1, Len(all)),
                        !.buf = @ \o SubSeq(all, 1, p), !.avail_out = @ - p]
  BY <1>9, <1>15, <1>17, <1>19, Zenon DEF Decode, Plain
<1>21. PICK k2, h2, b2, a2, e2 :
         /\ k2 = SubSeq(k, x + 1, m) /\ h2 = SubSeq(all, p + 1, Len(all)) /\ b2 = s.buf \o SubSeq(all, 0 + 1, p)
         /\ a2 = s.avail_out - p /\ e2 = (s.ended \/ ends)
  BY Zenon
<1>22. r = StreamRecord(s.pos, k2, h2, e2, b2, a2)
  <2>1. 0 + 1 = 1
    OBVIOUS
  <2>2. r = [s EXCEPT !.chunk = k2, !.ended = e2, !.held = h2, !.buf = b2, !.avail_out = a2]
    <3> HIDE DEF ends
    <3> QED
      BY <1>9, <1>20, <1>21, <2>1
  <2> QED
    BY <2>2 DEF IsStream, StreamRecord
<1>23. /\ IsStream(r) /\ r.pos = s.pos /\ r.chunk = k2 /\ r.held = h2 /\ r.ended = e2
       /\ r.buf = b2 /\ r.avail_out = a2
  BY <1>22, StreamForm
<1>24. PartOf(k2, file, (1 + d) + x) /\ Len(k2) = m - x
  <2>1. PartOf(k, file, 1 + d) /\ 1 + d \in Nat /\ Len(file) \in Nat /\ m <= Len(k)
    BY <1>8, <1>9, <1>10, FileFacts
  <2>2. PartOf(SubSeq(k, x + 1, m), file, (1 + d) + x) /\ Len(SubSeq(k, x + 1, m)) = m - x
    BY <1>10, <2>1, PartSub
  <2> QED
    BY <1>21, <2>2, Zenon
<1>25. PICK z \in Nat : z = Len(all) /\ z = h + y /\ p <= z
  BY <1>14, <1>18, <1>20
<1>26. PartOf(h2, c, q + p) /\ Len(h2) = z - p
  <2>1. Len(c) \in Nat /\ z <= Len(all)
    BY <1>2, <1>25
  <2>2. PartOf(SubSeq(all, p + 1, z), c, q + p) /\ Len(SubSeq(all, p + 1, z)) = z - p
    BY <1>10, <1>18, <1>25, <2>1, PartSub, SMTT(30)
  <2> QED
    BY <1>21, <1>25, <2>2, Zenon
<1>27. PartOf(b2, c, start) /\ Len(b2) = b + p
  <2>0. PICK f : f = SubSeq(all, 0 + 1, p)
    OBVIOUS
  <2>1. Len(c) \in Nat /\ p <= Len(all) /\ 0 \in Nat /\ 0 <= p
    BY <1>2, <1>10, <1>20
  <2>2. PartOf(SubSeq(all, 0 + 1, p), c, q + 0) /\ Len(SubSeq(all, 0 + 1, p)) = p - 0
    <3>1. PICK o \in Nat : o = 0
      OBVIOUS
    <3>2. o <= p /\ PartOf(all, c, q) /\ p \in Nat
      BY <1>10, <1>18, <2>1, <3>1
    <3>3. PartOf(SubSeq(all, o + 1, p), c, q + o) /\ Len(SubSeq(all, o + 1, p)) = p - o
      BY <2>1, <3>2, PartSub
    <3> QED
      BY <3>1, <3>3, Zenon
  <2>n. q + 0 = q /\ p - 0 = p
    BY <1>10
  <2>3. PartOf(f, c, q) /\ Len(f) = p /\ q = start + Len(s.buf)
    BY <1>4, <1>5, <2>0, <2>2, <2>n, Zenon
  <2>4. PartOf(s.buf \o f, c, start) /\ Len(s.buf \o f) = Len(s.buf) + Len(f)
    BY <1>3, <2>3, PartCat
  <2> QED
    BY <1>4, <1>21, <2>0, <2>3, <2>4, Zenon
<1>28. PICK d2 : d2 = d + x
  OBVIOUS
<1>29. DecoderAt(file, cluster, r, q + p, d2)
  <2>1. d2 \in Nat /\ s.pos = d2 + (m - x) /\ (1 + d) + x = 1 + d2
    <3>1. d2 \in Nat /\ d + m = d2 + (m - x) /\ (1 + d) + x = 1 + d2
      BY <1>8, <1>10, <1>28
    <3> QED
      BY <1>8, <1>9, <3>1, Zenon
  <2>2. e2 \in BOOLEAN
    <3>1. CASE s.ended \/ ends
      BY <1>21, <3>1
    <3>2. CASE ~ (s.ended \/ ends)
      BY <1>21, <3>2
    <3> QED
      BY <3>1, <3>2
  <2>3. IF e2 THEN d2 = l + 1 ELSE d2 <= l
    <3>1. CASE s.ended
      <4>1. e2 = TRUE
        BY <1>8, <1>21, <3>1
      <4>2. d2 = l + 1
        BY <1>8, <1>12, <1>28, <3>1
      <4> QED
        BY <4>1, <4>2
    <3>2. CASE ~ s.ended
      <4>1. CASE ends
        <5>1. e2 = TRUE
          BY <1>8, <1>21, <4>1
        <5>2. d2 = l + 1
          BY <1>14, <1>28, <3>2, <4>1, Zenon
        <5> QED
          BY <5>1, <5>2
      <4>2. CASE ~ ends
        <5>1. e2 = FALSE
          BY <1>8, <1>21, <3>2, <4>2
        <5>2. d2 <= l
          BY <1>14, <1>28, <3>2, <4>2, Zenon
        <5> QED
          BY <5>1, <5>2
      <4> QED
        BY <4>1, <4>2
    <3> QED
      BY <1>8, <3>1, <3>2
  <2>4. (q + p) + (z - p) = IF e2 THEN l ELSE d2
    <3>0. (q + p) + (z - p) = q + h + y
      BY <1>10, <1>14, <1>25
    <3>1. CASE s.ended
      <4>1. e2 = TRUE
        BY <1>8, <1>21, <3>1
      <4>2. y = 0 /\ q + h = l
        BY <1>8, <1>11, <1>14, <3>1
      <4> HIDE DEF y
      <4> QED
        BY <1>2, <3>0, <4>1, <4>2
    <3>2. CASE ~ s.ended
      <4>0. q + h = d
        BY <1>8, <1>11, <3>2
      <4>1. CASE ends
        <5>1. e2 = TRUE
          BY <1>8, <1>21, <4>1
        <5>2. y = x - 1 /\ d + x = l + 1
          BY <1>14, <3>2, <4>1
        <5> HIDE DEF y
        <5> QED
          BY <1>8, <1>10, <3>0, <4>0, <5>1, <5>2
      <4>2. CASE ~ ends
        <5>1. e2 = FALSE
          BY <1>8, <1>21, <3>2, <4>2
        <5>2. y = x
          BY <4>2
        <5> HIDE DEF y
        <5> QED
          BY <1>8, <1>10, <1>28, <3>0, <4>0, <5>1, <5>2
      <4> QED
        BY <4>1, <4>2
    <3> QED
      BY <1>8, <3>1, <3>2
  <2> HIDE DEF ends, y, e
  <2> QED
    BY <1>1, <1>2, <1>8, <1>23, <1>24, <1>26, <2>1, <2>2, <2>3, <2>4, Zenon DEF DecoderAt
<1>30. q + p \in Nat /\ start + (b + p) = q + p /\ a2 \in Nat /\ (b + p) + a2 = n
  <2>1. PICK a \in Nat : a = s.avail_out
    BY <1>3
  <2>2. a2 = a - p /\ p \in Nat /\ p <= a /\ b + a = n /\ start \in Nat
    <3> HIDE DEF ends, y, e
    <3> QED
      BY <1>3, <1>4, <1>10, <1>21, <2>1, Zenon
  <2> QED
    BY <1>5, <2>2
<1>31. StreamAt(file, cluster, r, q + p)
  BY <1>23, <1>29, <1>30, DecoderStream
<1>32. ReadingAt(file, cluster, r, start, n)
  <2> HIDE DEF ends, y, e
  <2> QED
    BY <1>1, <1>2, <1>3, <1>23, <1>27, <1>30, <1>31, Zenon DEF ReadingAt
<1> QED
  BY <1>19, <1>32, Zenon
LEMMA DecodeMoreFacts ==
  ASSUME WriterInv, wpc = "written", NEW start, NEW n, ReadingAt(file, cluster, stream, start, n), DecodeMoreBytes
  PROVE  ReadingAt(file, cluster, stream', start, n)
<1>1. PICK q : q = start + Len(stream.buf)
  OBVIOUS
<1>2. StreamAt(file, cluster, stream, q) /\ stream.avail_out # 0
  BY <1>1, Zenon DEF ReadingAt, DecodeMoreBytes
<1>3. cluster.codec # "none"
  BY <1>2, Zenon DEF StreamAt, RawAt
<1>4. PICK d : d = stream.pos - Len(stream.chunk)
  OBVIOUS
<1>5. IsStream(stream) /\ q \in Nat /\ DecoderAt(file, cluster, stream, q, d)
  BY <1>2, <1>3, <1>4, Zenon DEF StreamAt
<1>6. PICK s : s = IF stream.chunk = <<>> /\ BytesLeft > 0 THEN NextChunk(stream) ELSE stream
  OBVIOUS
<1>7. IsStream(s) /\ ReadingAt(file, cluster, s, start, n)
  <2>1. CASE stream.chunk = <<>> /\ BytesLeft > 0
    <3>1. s = NextChunk(stream)
      BY <1>6, <2>1, Zenon
    <3>2. /\ IsStream(s) /\ DecoderAt(file, cluster, s, q, d)
          /\ s.buf = stream.buf /\ s.avail_out = stream.avail_out
      BY <1>5, <2>1, <3>1, NextChunkFacts, Zenon
    <3>3. StreamAt(file, cluster, s, q)
      BY <1>3, <1>5, <3>2, DecoderStream
    <3> QED
      BY <1>1, <3>2, <3>3, Zenon DEF ReadingAt
  <2>2. CASE ~ (stream.chunk = <<>> /\ BytesLeft > 0)
    BY <1>5, <1>6, <2>2, Zenon
  <2> QED
    BY <2>1, <2>2
<1>8. PICK x \in 0 .. Len(s.chunk), p \in 0 .. s.avail_out : Decode(s, x, p)
  BY <1>6, Zenon DEF DecodeMoreBytes
<1> QED
  BY <1>3, <1>7, <1>8, DecodeFacts

\* A read that is finished has delivered what it was for.
LEMMA ReadDone ==
  ASSUME NEW f, NEW cl, NEW s, NEW start, NEW n, ReadingAt(f, cl, s, start, n), s.avail_out = 0
  PROVE  PartOf(s.buf, Content(cl), start) /\ Len(s.buf) = n /\ StreamAt(f, cl, s, start + n)
<1>1. PartOf(s.buf, Content(cl), start) /\ Len(s.buf) + 0 = n /\ StreamAt(f, cl, s, start + Len(s.buf))
  BY Zenon DEF ReadingAt
<1>2. PICK b \in Nat : b = Len(s.buf)
  BY <1>1, SeqFacts DEF PartOf
<1>3. b = n
  BY <1>1, <1>2
<1> QED
  BY <1>1, <1>2, <1>3, Zenon

-----------------------------------------------------------------------------
(* The offsets, as they are written and as they are read *)

LEMMA TimesGrows ==
  ASSUME NEW i \in Nat, NEW n \in Nat, i <= n, NEW w \in Nat
  PROVE  i * w <= n * w /\ i * w \in Nat
<1>1. PICK k \in Nat : n = i + k
  <2>1. n - i \in Nat /\ n = i + (n - i)
    OBVIOUS
  <2> QED
    BY <2>1
<1>2. (i + k) * w = i * w + k * w /\ i * w \in Nat /\ k * w \in Nat
  OBVIOUS
<1> QED
  BY <1>1, <1>2

LEMMA DivideBack == ASSUME NEW k \in Nat, NEW w \in Nat \ {0} PROVE (k * w) \div w = k
OBVIOUS

\* Where a blob begins, and what the table of offsets has for it
Stored(cl, i) == OffsetType(cl, BlobOffset(cl, i) + DataStart(cl))
StoredTable(cl) == [i \in 1 .. Len(cl.sizes) + 1 |-> Stored(cl, i)]

LEMMA StartFacts ==
  ASSUME NEW cl \in Clusters, NEW i \in 1 .. Len(cl.sizes) + 1
  PROVE  /\ BlobStart(cl, i) \in Nat /\ BlobStart(cl, i) <= Len(Content(cl))
         /\ BlobStart(cl, i) <= BlobStart(cl, Len(cl.sizes) + 1)
         /\ Stored(cl, i) = OffsetType(cl, BlobStart(cl, i))
<1>1. PICK n \in Nat : n = Len(cl.sizes)
  BY ClusterFacts
<1>2. BlobOffset(cl, i) \in Nat /\ BlobOffset(cl, n + 1) \in Nat /\ DataStart(cl) \in Nat
  BY <1>1, SumFacts, ContentFacts
<1>3. PICK b \in Nat, e \in Nat, d \in Nat : b = BlobOffset(cl, i) /\ e = BlobOffset(cl, n + 1) /\ d = DataStart(cl)
  BY <1>2
<1>4. b <= e
  BY <1>1, <1>3, SumsGrow, Zenon
<1>5. BlobStart(cl, i) = d + b /\ BlobStart(cl, n + 1) = d + e
  BY <1>3, Zenon DEF BlobStart
<1>6. Len(Content(cl)) = d + e
  BY <1>1, <1>3, ContentFacts, Zenon
<1>7. d + b \in Nat /\ d + b <= d + e /\ b + d = d + b
  BY <1>4
<1>8. Stored(cl, i) = OffsetType(cl, d + b)
  BY <1>3, <1>7, Zenon DEF Stored
<1> QED
  BY <1>1, <1>5, <1>6, <1>7, <1>8, Zenon

\* An offset that fits is stored as it is.
LEMMA FitStored ==
  ASSUME NEW cl \in Clusters, NEW i \in 1 .. Len(cl.sizes) + 1, Extended(cl) \/ BlobStart(cl, i) <= OffsetMax
  PROVE  Stored(cl, i) = BlobStart(cl, i)
<1>1. PICK x \in Nat : x = BlobStart(cl, i) /\ Stored(cl, i) = OffsetType(cl, x)
  BY StartFacts
<1>2. PICK m \in Nat : m = OffsetMax
  BY SizesAssumption
<1>3. CASE Extended(cl)
  BY <1>1, <1>3, Zenon DEF OffsetType
<1>4. CASE ~ Extended(cl)
  <2>1. x <= m
    BY <1>1, <1>2, <1>4
  <2>2. x % (m + 1) = x
    BY <2>1
  <2> QED
    BY <1>1, <1>2, <1>4, <2>2, Zenon DEF OffsetType
<1> QED
  BY <1>3, <1>4

\* Where the reader finds offset i
LEMMA OffsetAt ==
  ASSUME NEW cl \in Clusters, NEW i \in 1 .. Len(cl.sizes) + 1
  PROVE  Content(cl)[(i - 1) * OffsetSize(cl) + 1][2] = Stored(cl, i)
<1>1. PICK w \in Nat \ {0} : w = OffsetSize(cl)
  BY ClusterFacts
<1>2. PICK u : u = OffsetUnit(cl, i)
  OBVIOUS
<1>3. PartOf(u, Content(cl), (i - 1) * w) /\ Len(u) = w
  BY <1>1, <1>2, ContentFacts, OffsetUnitFacts, Zenon
<1>4. 1 \in 1 .. w
  BY <1>1
<1>5. PICK v : v = OffsetType(cl, BlobOffset(cl, i) + DataStart(cl))
  BY Zenon
<1>6. u[1] = <<"offset", v, 1>>
  BY <1>1, <1>2, <1>4, <1>5, OffsetUnitFacts, Zenon
<1>7. u[1] = Content(cl)[(i - 1) * w + 1]
  BY <1>3, <1>4, Zenon DEF PartOf
<1>8. u[1][2] = v
  BY <1>6
<1>9. v = Stored(cl, i)
  BY <1>5, Zenon DEF Stored
<1> QED
  BY <1>1, <1>7, <1>8, <1>9, Zenon
-----------------------------------------------------------------------------
(* Opening the cluster *)

LEMMA TableFacts ==
  ASSUME NEW cl \in Clusters
  PROVE  /\ IsSeq(OffsetTable(cl)) /\ Len(OffsetTable(cl)) = Len(cl.sizes) + 1
         /\ \A i \in 1 .. Len(cl.sizes) + 1 : OffsetTable(cl)[i] = BlobStart(cl, i)
<1>1. PICK n \in Nat : n = Len(cl.sizes) + 1
  BY ClusterFacts
<1>2. PICK s : s = OffsetTable(cl)
  OBVIOUS
<1>3. s = [i \in 1 .. n |-> BlobStart(cl, i)]
  BY <1>1, <1>2, Zenon DEF OffsetTable, BlobStart
<1>4. s = [i \in 1 .. n |-> s[i]] /\ \A i \in 1 .. n : s[i] = BlobStart(cl, i)
  BY <1>3
<1>5. IsSeq(s) /\ Len(s) = n
  BY <1>4, FunctionSeq
<1> QED
  BY <1>1, <1>2, <1>4, <1>5, Zenon

\* The offsets fill the space before the data.
LEMMA OffsetSpace ==
  ASSUME NEW cl \in Clusters
  PROVE  /\ DataStart(cl) - OffsetSize(cl) = Len(cl.sizes) * OffsetSize(cl)
         /\ Len(cl.sizes) * OffsetSize(cl) \in Nat
         /\ OffsetSize(cl) + Len(cl.sizes) * OffsetSize(cl) = DataStart(cl)
         /\ DataStart(cl) = BlobStart(cl, 1) /\ DataStart(cl) <= Len(Content(cl))
<1>1. PICK n \in Nat, w \in Nat \ {0} : n = Len(cl.sizes) /\ w = OffsetSize(cl)
  BY ClusterFacts
<1>2. PICK x \in Nat : x = n * w
  BY OneMoreTime
<1>3. DataStart(cl) = x + w
  <2>1. (n + 1) * w = n * w + w
    BY OneMoreTime
  <2> QED
    BY <1>1, <1>2, <2>1, Zenon DEF DataStart
<1>4. (x + w) - w = x /\ w + x = x + w /\ (x + w) + 0 = x + w /\ 1 \in 1 .. n + 1
  BY <1>1
<1>5. BlobStart(cl, 1) = (x + w) + 0
  BY <1>3, SumFacts, Zenon DEF BlobStart
<1>6. BlobStart(cl, 1) <= Len(Content(cl))
  BY <1>1, <1>4, StartFacts, Zenon
<1>7. DataStart(cl) - w = x /\ x \in Nat /\ w + x = DataStart(cl) /\ DataStart(cl) = BlobStart(cl, 1)
  BY <1>3, <1>4, <1>5, Zenon
<1> QED
  BY <1>1, <1>2, <1>6, <1>7, Zenon

\* The first offset fits in any case, and tells where the data begins.
LEMMA FirstStored ==
  ASSUME NEW cl \in Clusters, TableFits(cl)
  PROVE  Stored(cl, 1) = DataStart(cl)
<1>1. 1 \in 1 .. Len(cl.sizes) + 1
  BY ClusterFacts
<1>2. DataStart(cl) = BlobStart(cl, 1)
  BY OffsetSpace
<1>3. Extended(cl) \/ BlobStart(cl, 1) <= OffsetMax
  BY <1>2, Zenon DEF TableFits
<1> QED
  BY <1>1, <1>2, <1>3, FitStored, Zenon

\* A table that the writer has not truncated is right, and it ascends.
LEMMA FitTable ==
  ASSUME NEW cl \in Clusters, OffsetsFit(cl)
  PROVE  StoredTable(cl) = OffsetTable(cl) /\ Ascends(OffsetTable(cl))
<1>1. PICK n \in Nat : n = Len(cl.sizes) /\ \A i \in 1 .. n : cl.sizes[i] \in Nat
  BY ClusterFacts
<1>2. PICK m \in Nat : m = OffsetMax
  BY SizesAssumption
<1>3. n + 1 \in 1 .. n + 1
  BY <1>1
<1>4. PICK e \in Nat : e = BlobStart(cl, n + 1)
  BY <1>1, <1>3, StartFacts
<1>5. Extended(cl) \/ e <= m
  BY <1>1, <1>2, <1>4, Zenon DEF OffsetsFit, BlobStart
<1>6. ASSUME NEW i \in 1 .. n + 1 PROVE Stored(cl, i) = DataStart(cl) + BlobOffset(cl, i)
  <2>1. PICK x \in Nat : x = BlobStart(cl, i) /\ x <= e
    BY <1>1, <1>4, StartFacts
  <2>2. Extended(cl) \/ x <= m
    BY <1>5, <2>1
  <2> QED
    BY <1>1, <1>2, <2>1, <2>2, FitStored, Zenon DEF BlobStart
<1>7. StoredTable(cl) = OffsetTable(cl)
  BY <1>1, <1>6, Zenon DEF StoredTable, OffsetTable
<1>8. PICK t : t = OffsetTable(cl)
  OBVIOUS
<1>9. Len(t) = n + 1 /\ \A i \in 1 .. n + 1 : t[i] = BlobStart(cl, i)
  BY <1>1, <1>8, TableFacts, Zenon
<1>10. ASSUME NEW i \in 1 .. (n + 1) - 1 PROVE t[i] <= t[i + 1]
  <2>1. i \in 1 .. n /\ i \in 1 .. n + 1 /\ i + 1 \in 1 .. n + 1
    OBVIOUS
  <2>2. PICK z \in Nat : z = cl.sizes[i]
    BY <1>1, <2>1
  <2>3. PICK d \in Nat : d = DataStart(cl)
    BY ContentFacts
  <2>4. PICK b \in Nat : b = BlobOffset(cl, i)
    BY <1>1, <2>1, SumFacts
  <2>5. BlobOffset(cl, i + 1) = b + z
    BY <1>1, <2>1, <2>2, <2>4, SumFacts, Zenon
  <2>6. t[i] = d + b /\ t[i + 1] = d + (b + z)
    BY <1>9, <2>1, <2>3, <2>4, <2>5, Zenon DEF BlobStart
  <2>7. d + b <= d + (b + z)
    OBVIOUS
  <2> QED
    BY <2>6, <2>7, Zenon
<1>11. Ascends(t)
  BY <1>9, <1>10, Zenon DEF Ascends
<1> QED
  BY <1>7, <1>8, <1>11, Zenon

\* Behind the first offset that does not fit the table descends, since no blob
\* of a cluster that is not extended is larger than the largest offset.
LEMMA TruncatedDescends ==
  ASSUME NEW cl \in Clusters, TableFits(cl), ~ OffsetsFit(cl)
  PROVE  ~ Ascends(StoredTable(cl))
<1>1. PICK n \in Nat : n = Len(cl.sizes) /\ \A i \in 1 .. n : cl.sizes[i] \in Nat
  BY ClusterFacts
<1>2. PICK m \in Nat : m = OffsetMax
  BY SizesAssumption
<1>3. ~ Extended(cl)
  BY Zenon DEF OffsetsFit
<1>4. \A i \in 1 .. n + 1 : BlobStart(cl, i) \in Nat
  BY <1>1, StartFacts, Zenon
<1> DEFINE T == {i \in 1 .. n + 1 : ~ (BlobStart(cl, i) <= m)}
<1>5. n + 1 \in T
  <2>1. ~ (BlobStart(cl, n + 1) <= m)
    BY <1>1, <1>2, Zenon DEF OffsetsFit, BlobStart
  <2>2. n + 1 \in 1 .. n + 1
    OBVIOUS
  <2> QED
    BY <2>1, <2>2
<1>6. T \subseteq Nat /\ T # {}
  BY <1>5
<1>7. PICK j \in T : \A y \in T : j <= y
  <2> HIDE DEF T
  <2> QED
    BY <1>6, SmallestOf, Zenon
<1>8. j \in 1 .. n + 1 /\ ~ (BlobStart(cl, j) <= m)
  BY <1>7
<1>9. 1 \notin T
  <2>1. DataStart(cl) = BlobStart(cl, 1)
    BY OffsetSpace
  <2> QED
    BY <1>2, <1>3, <2>1 DEF TableFits
<1>10. PICK k : k = j - 1
  OBVIOUS
<1>11. k \in 1 .. n /\ k \in 1 .. n + 1 /\ k + 1 = j /\ ~ (j <= k)
  BY <1>7, <1>8, <1>9, <1>10
<1>12. BlobStart(cl, k) <= m
  BY <1>7, <1>11
<1>13. PICK z \in Nat : z = cl.sizes[k] /\ z <= m
  <2>1. cl.sizes[k] \in Nat
    BY <1>1, <1>11
  <2>2. ~ (cl.sizes[k] > m)
    BY <1>1, <1>2, <1>3, <1>11, Zenon DEF Extended
  <2> QED
    BY <2>1, <2>2
<1>14. PICK x \in Nat : x = BlobStart(cl, k)
  BY <1>4, <1>11
<1>15. BlobStart(cl, j) = x + z
  <2>1. PICK d \in Nat : d = DataStart(cl)
    BY ContentFacts
  <2>2. PICK b \in Nat : b = BlobOffset(cl, k)
    BY <1>1, <1>11, SumFacts
  <2>3. BlobOffset(cl, k + 1) = b + z
    BY <1>1, <1>11, <1>13, <2>2, SumFacts, Zenon
  <2>4. x = d + b /\ BlobStart(cl, k + 1) = d + (b + z)
    BY <1>14, <2>1, <2>2, <2>3, Zenon DEF BlobStart
  <2> QED
    BY <1>11, <2>4
<1>16. Stored(cl, k) = x
  BY <1>1, <1>2, <1>11, <1>12, <1>14, FitStored, Zenon
<1>17. Stored(cl, j) = (x + z) % (m + 1)
  BY <1>1, <1>2, <1>3, <1>8, <1>15, StartFacts, Zenon DEF OffsetType
<1>18. (x + z) % (m + 1) = x + z - (m + 1)
  <2>1. x <= m /\ z <= m /\ ~ (x + z <= m)
    BY <1>8, <1>12, <1>13, <1>14, <1>15
  <2> QED
    BY <2>1
<1>19. ~ (Stored(cl, k) <= Stored(cl, k + 1))
  BY <1>11, <1>13, <1>16, <1>17, <1>18
<1>20. PICK t : t = StoredTable(cl)
  OBVIOUS
<1>21. Len(t) = n + 1 /\ t[k] = Stored(cl, k) /\ t[k + 1] = Stored(cl, k + 1)
  <2>1. t = [i \in 1 .. n + 1 |-> Stored(cl, i)]
    BY <1>1, <1>20, Zenon DEF StoredTable
  <2>2. t = [i \in 1 .. n + 1 |-> t[i]] /\ \A i \in 1 .. n + 1 : t[i] = Stored(cl, i)
    BY <2>1, Zenon
  <2>3. n + 1 \in Nat /\ k + 1 \in 1 .. n + 1
    BY <1>11
  <2>4. Len(t) = n + 1
    BY <2>2, <2>3, FunctionSeq, Zenon
  <2> QED
    BY <1>11, <2>2, <2>3, <2>4, Zenon
<1>22. k \in 1 .. (n + 1) - 1
  BY <1>11
<1> QED
  BY <1>19, <1>20, <1>21, <1>22, Zenon DEF Ascends

\* What the loader leaves alone
LEMMA OpeningKept ==
  ASSUME RequestsInv, OpeningInv, UNCHANGED <<cluster, m_blobReaders, m_readerAccessMutex, req>>
  PROVE  RequestsInv' /\ m_blobReaders' = <<>> /\ \A t \in Threads : req'[t].pc = "idle"
<1>1. RequestsInv'
  BY DEF RequestsInv
<1> QED
  BY <1>1 DEF OpeningInv

LEMMA OpenClusterKeeps ==
  ASSUME WriterInv, ReaderInv, OpenCluster, UNCHANGED writerVars PROVE ReaderInv'
<1>1. /\ rpc = "closed" /\ wpc = "written" /\ rpc' = "first"
      /\ UNCHANGED <<m_blobOffsets, m_blobReaders, m_readerAccessMutex, req, calls>>
  BY DEF OpenCluster
<1>2. UNCHANGED <<cluster, file, wpc>> /\ cluster \in Clusters
  BY DEF writerVars, WriterInv
<1>3. RequestsInv /\ OpeningInv
  BY <1>1 DEF ReaderInv, OpenInv
<1>4. RequestsInv' /\ m_blobReaders' = <<>> /\ \A t \in Threads : req'[t].pc = "idle"
  BY <1>1, <1>2, <1>3, OpeningKept
<1>5. PICK w \in Nat \ {0} : w = OffsetSize(cluster)
  BY <1>2, ClusterFacts
<1>6. Width = w
  BY <1>1, <1>5, InfoFacts, Zenon
<1>7. PICK c : c = Content(cluster)
  OBVIOUS
<1>8. 0 + w <= Len(c) /\ Len(c) \in Nat
  <2>1. PICK x : x = Len(cluster.sizes) * w
    OBVIOUS
  <2>2. x \in Nat /\ w + x = DataStart(cluster) /\ DataStart(cluster) <= Len(c)
    BY <1>2, <1>5, <1>7, <2>1, OffsetSpace, Zenon
  <2>3. w + x <= Len(c) /\ Len(c) \in Nat
    BY <1>2, <1>7, <2>2, ContentFacts, SeqFacts, Zenon
  <2> QED
    BY <1>5, <2>2, <2>3
<1>9. ReadingAt(file, cluster, stream', 0, w)
  <2>0. PICK e : e = <<>>
    OBVIOUS
  <2>1. PICK fresh : fresh = StreamRecord(0, e, e, FALSE, e, 0)
    OBVIOUS
  <2>2. /\ IsStream(fresh) /\ fresh.pos = 0 /\ fresh.chunk = e /\ fresh.held = e /\ fresh.ended = FALSE
        /\ fresh.buf = e /\ fresh.avail_out = 0
    BY <2>1 DEF StreamRecord, IsStream
  <2>3. CASE cluster.codec = "none"
    <3>1. ~ Compressed
      BY <1>1, <2>3, InfoFacts
    <3>2. stream' = [fresh EXCEPT !.buf = At(0, w), !.pos = w]
      BY <1>6, <2>0, <2>1, <3>1, Zenon DEF OpenCluster, StreamRecord
    <3>3. PICK b : b = At(0, w)
      OBVIOUS
    <3>4. stream' = StreamRecord(w, e, e, FALSE, b, 0)
      BY <2>1, <3>2, <3>3 DEF StreamRecord
    <3>5. PICK s : s = stream'
      OBVIOUS
    <3>6. IsStream(s) /\ s.pos = w /\ s.buf = b /\ s.avail_out = 0
      BY <3>4, <3>5 DEF StreamRecord, IsStream
    <3>7. 0 \in Nat /\ w \in Nat /\ w + 0 = w /\ 0 + w = w
      BY <1>5
    <3>8. PartOf(b, c, 0) /\ Len(b) = w
      BY <1>1, <1>7, <1>8, <2>3, <3>3, <3>7, RawPart, Zenon
    <3>9. StreamAt(file, cluster, s, 0 + w)
      BY <2>3, <3>6, <3>7, Zenon DEF StreamAt, RawAt
    <3>10. ReadingAt(file, cluster, s, 0, w)
      BY <1>7, <1>8, <3>6, <3>7, <3>8, <3>9, Zenon DEF ReadingAt
    <3> QED
      BY <3>5, <3>10, Zenon
  <2>4. CASE cluster.codec # "none"
    <3>1. Compressed
      BY <1>1, <2>4, InfoFacts
    <3>2. stream' = [NextChunk(fresh) EXCEPT !.avail_out = w]
      BY <1>6, <2>0, <2>1, <3>1, Zenon DEF OpenCluster, StreamRecord
    <3>3. 0 \in Nat /\ Len(file) \in Nat /\ 1 + 0 <= Len(file) /\ 0 <= Len(c) /\ 0 + 0 = 0
      BY <1>1, <1>2, <1>7, <1>8, <2>4, FileFacts
    <3>4. PartOf(e, c, 0) /\ Len(e) = 0
      BY <1>8, <2>0, <3>3, PartEmpty, Zenon
    <3>5. PartOf(e, file, 1 + 0)
      <4>1. 1 + 0 \in Nat
        OBVIOUS
      <4> QED
        BY <2>0, <3>3, <4>1, PartEmpty, Zenon
    <3>6. FALSE \in BOOLEAN
      OBVIOUS
    <3>7. DecoderAt(file, cluster, fresh, 0, 0)
      BY <1>7, <2>2, <3>3, <3>4, <3>5, <3>6, Zenon DEF DecoderAt
    <3>8. PICK r : r = NextChunk(fresh)
      OBVIOUS
    <3>9. IsStream(r) /\ DecoderAt(file, cluster, r, 0, 0) /\ r.buf = e
      BY <1>1, <2>0, <2>2, <3>3, <3>7, <3>8, NextChunkFacts, Zenon
    <3>10. stream' = StreamRecord(r.pos, r.chunk, r.held, r.ended, e, w)
      BY <3>2, <3>8, <3>9 DEF IsStream, StreamRecord
    <3>11. PICK s : s = stream'
      OBVIOUS
    <3>12. /\ IsStream(s) /\ s.pos = r.pos /\ s.chunk = r.chunk /\ s.held = r.held /\ s.ended = r.ended
           /\ s.buf = e /\ s.avail_out = w
      BY <3>10, <3>11, StreamForm
    <3>13. DecoderAt(file, cluster, s, 0, 0)
      BY <3>9, <3>12, Zenon DEF DecoderAt
    <3>14. StreamAt(file, cluster, s, 0)
      BY <2>4, <3>3, <3>12, <3>13, DecoderStream
    <3>15. 0 + w = w /\ w \in Nat
      BY <1>5
    <3>16. ReadingAt(file, cluster, s, 0, w)
      BY <1>7, <1>8, <3>3, <3>4, <3>12, <3>14, <3>15, Zenon DEF ReadingAt
    <3> QED
      BY <3>11, <3>16, Zenon
  <2> QED
    BY <2>3, <2>4
<1>10. ReadingAt(file', cluster', stream', 0, OffsetSize(cluster'))
  BY <1>2, <1>5, <1>9, Zenon
<1>11. OpeningInv'
  BY <1>1, <1>2, <1>4, <1>10 DEF OpeningInv
<1> QED
  BY <1>4, <1>11 DEF ReaderInv

LEMMA OpenDecodesKeeps ==
  ASSUME WriterInv, ReaderInv, OpenDecodes, UNCHANGED writerVars PROVE ReaderInv'
<1>1. /\ rpc \in {"first", "offsets"} /\ DecodeMoreBytes
      /\ UNCHANGED <<m_blobOffsets, m_blobReaders, m_readerAccessMutex, rpc, req, calls>>
  BY DEF OpenDecodes
<1>2. UNCHANGED <<cluster, file, wpc>> /\ cluster \in Clusters
  BY DEF writerVars, WriterInv
<1>3. RequestsInv /\ OpeningInv
  BY <1>1 DEF ReaderInv, OpenInv
<1>4. RequestsInv' /\ m_blobReaders' = <<>> /\ \A t \in Threads : req'[t].pc = "idle"
  BY <1>1, <1>2, <1>3, OpeningKept
<1>5. CASE rpc = "first"
  <2>1. wpc = "written" /\ ReadingAt(file, cluster, stream, 0, OffsetSize(cluster))
    BY <1>3, <1>5 DEF OpeningInv
  <2>2. ReadingAt(file, cluster, stream', 0, OffsetSize(cluster))
    BY <1>1, <2>1, DecodeMoreFacts
  <2>3. ReadingAt(file', cluster', stream', 0, OffsetSize(cluster'))
    BY <1>2, <2>2, Zenon
  <2>4. OpeningInv'
    BY <1>1, <1>2, <1>4, <1>5, <2>1, <2>3 DEF OpeningInv
  <2> QED
    BY <1>4, <2>4 DEF ReaderInv
<1>6. CASE rpc = "offsets"
  <2>0. PICK w, n : w = OffsetSize(cluster) /\ n = DataStart(cluster) - OffsetSize(cluster)
    BY Zenon
  <2>1. wpc = "written" /\ m_blobOffsets = <<DataStart(cluster)>> /\ ReadingAt(file, cluster, stream, w, n)
    BY <1>3, <1>6, <2>0 DEF OpeningInv
  <2>2. ReadingAt(file, cluster, stream', w, n)
    BY <1>1, <2>1, DecodeMoreFacts
  <2>3. ReadingAt(file', cluster', stream', OffsetSize(cluster'), DataStart(cluster') - OffsetSize(cluster'))
    BY <1>2, <2>0, <2>2, Zenon
  <2>4. OpeningInv'
    BY <1>1, <1>2, <1>4, <1>6, <2>1, <2>3 DEF OpeningInv
  <2> QED
    BY <1>4, <2>4 DEF ReaderInv
<1> QED
  BY <1>1, <1>5, <1>6

LEMMA FirstOffsetKeeps ==
  ASSUME WriterInv, ReaderInv, TableFits(cluster), FirstOffset, UNCHANGED writerVars
  PROVE  ReaderInv' /\ VerdictInv'
<1>1. /\ rpc = "first" /\ stream.avail_out = 0
      /\ UNCHANGED <<m_blobReaders, m_readerAccessMutex, req, calls>>
  BY DEF FirstOffset
<1>2. UNCHANGED <<cluster, file, wpc>> /\ cluster \in Clusters
  BY DEF writerVars, WriterInv
<1>3. RequestsInv /\ OpeningInv
  BY <1>1 DEF ReaderInv, OpenInv
<1>4. RequestsInv' /\ m_blobReaders' = <<>> /\ \A t \in Threads : req'[t].pc = "idle"
  BY <1>1, <1>2, <1>3, OpeningKept
<1>5. PICK w \in Nat \ {0} : w = OffsetSize(cluster)
  BY <1>2, ClusterFacts
<1>6. wpc = "written" /\ ReadingAt(file, cluster, stream, 0, w)
  BY <1>1, <1>3, <1>5 DEF OpeningInv
<1>7. Width = w
  BY <1>5, <1>6, InfoFacts, Zenon
<1>8. PartOf(stream.buf, Content(cluster), 0) /\ Len(stream.buf) = w /\ StreamAt(file, cluster, stream, 0 + w)
  BY <1>1, <1>6, ReadDone, Zenon
<1>9. PICK d : d = DataStart(cluster)
  OBVIOUS
<1>10. Value(stream.buf) = d
  <2>1. 1 \in 1 .. w /\ 0 + 1 = 1 /\ (1 - 1) * w + 1 = 1
    BY <1>5
  <2>2. stream.buf[1] = Content(cluster)[0 + 1]
    BY <1>8, <2>1, Zenon DEF PartOf
  <2>3. 1 \in 1 .. Len(cluster.sizes) + 1
    BY <1>2, ClusterFacts
  <2>4. Content(cluster)[(1 - 1) * w + 1][2] = Stored(cluster, 1)
    BY <1>2, <1>5, <2>3, OffsetAt, Zenon
  <2>5. Stored(cluster, 1) = d
    BY <1>2, <1>9, FirstStored, Zenon
  <2> QED
    BY <2>1, <2>2, <2>4, <2>5, Zenon DEF Value
<1>11. m_blobOffsets' = <<d>> /\ stream' = StartRead(d - w) /\ rpc' = "offsets"
  <2>1. PICK x : x = Len(cluster.sizes) * w
    OBVIOUS
  <2>2. x \in Nat /\ w + x = d
    BY <1>2, <1>5, <1>9, <2>1, OffsetSpace, Zenon
  <2>3. ~ (d < w)
    BY <1>5, <2>2
  <2> QED
    BY <1>7, <1>10, <2>3, Zenon DEF FirstOffset
<1>12. PICK q, n : q = 0 + w /\ n = d - w
  BY Zenon
<1>13. n \in Nat /\ q = w /\ q + n <= Len(Content(cluster))
  <2>1. PICK x : x = Len(cluster.sizes) * w
    OBVIOUS
  <2>2. d - w = x /\ x \in Nat /\ w + x = d /\ d <= Len(Content(cluster))
    BY <1>2, <1>5, <1>9, <2>1, OffsetSpace, Zenon
  <2>3. 0 + w = w
    BY <1>5
  <2> QED
    BY <1>12, <2>2, <2>3, Zenon
<1>14. ReadingAt(file, cluster, StartRead(n), q, n)
  BY <1>6, <1>8, <1>12, <1>13, StartReadFacts
<1>15. ReadingAt(file', cluster', stream', OffsetSize(cluster'), DataStart(cluster') - OffsetSize(cluster'))
  BY <1>2, <1>5, <1>9, <1>11, <1>12, <1>13, <1>14, Zenon
<1>16. OpeningInv'
  <2>1. m_blobOffsets' = <<DataStart(cluster')>>
    BY <1>2, <1>9, <1>11, Zenon
  <2> QED
    BY <1>2, <1>4, <1>6, <1>11, <1>15, <2>1 DEF OpeningInv
<1> QED
  BY <1>4, <1>11, <1>16 DEF ReaderInv, VerdictInv

\* The units of the i-th offset behind the first one
TableUnits(buf, w, i) == SubSeq(buf, (i - 1) * w + 1, i * w)

LEMMA TableValue ==
  ASSUME NEW cl \in Clusters, NEW buf, NEW w, w = OffsetSize(cl), PartOf(buf, Content(cl), w),
         Len(buf) = Len(cl.sizes) * w, NEW i \in 1 .. Len(cl.sizes)
  PROVE  Value(TableUnits(buf, w, i)) = Stored(cl, i + 1)
<1>1. PICK n \in Nat : n = Len(cl.sizes)
  BY ClusterFacts
<1>2. w \in Nat \ {0}
  BY ClusterFacts
<1>3. i \in Nat /\ i - 1 \in Nat /\ i <= n /\ i = (i - 1) + 1
  BY <1>1
<1>4. PICK x : x = (i - 1) * w
  OBVIOUS
<1>5. PICK y : y = i * w
  OBVIOUS
<1>6. x \in Nat /\ y = x + w
  BY <1>2, <1>3, <1>4, <1>5, OneMoreTime, SMTT(30)
<1>7. y <= n * w /\ y \in Nat
  BY <1>2, <1>3, <1>5, TimesGrows, Zenon
<1>8. PICK c : c = Content(cl)
  OBVIOUS
<1>9. Len(c) \in Nat
  BY <1>8, ContentFacts, SeqFacts, Zenon
<1>10. PICK u : u = SubSeq(buf, x + 1, y)
  OBVIOUS
<1>11. y <= Len(buf) /\ x <= y /\ w \in Nat
  BY <1>1, <1>2, <1>6, <1>7
<1>12. PartOf(u, c, w + x) /\ Len(u) = y - x
  <2>1. PartOf(buf, c, w)
    BY <1>8, Zenon
  <2>2. PartOf(SubSeq(buf, x + 1, y), c, w + x) /\ Len(SubSeq(buf, x + 1, y)) = y - x
    <3>1. x \in Nat
      BY <1>6
    <3> QED
      BY <1>7, <1>9, <1>11, <2>1, <3>1, PartSub, ZenonT(60)
  <2> QED
    BY <1>10, <2>2, Zenon
<1>13. 1 \in 1 .. y - x /\ (w + x) + 1 = y + 1
  BY <1>2, <1>6
<1>14. u[1] = c[y + 1]
  BY <1>12, <1>13, Zenon DEF PartOf
<1>15. i + 1 \in 1 .. n + 1 /\ (i + 1) - 1 = i
  BY <1>1
<1>16. c[((i + 1) - 1) * w + 1][2] = Stored(cl, i + 1)
  BY <1>1, <1>8, <1>15, OffsetAt, Zenon
<1>17. c[y + 1][2] = Stored(cl, i + 1)
  BY <1>5, <1>15, <1>16, Zenon
<1> QED
  BY <1>4, <1>5, <1>10, <1>14, <1>17, Zenon DEF Value, TableUnits

\* The offsets that are read are those that the writer has stored.
LEMMA TableRead ==
  ASSUME NEW cl \in Clusters, TableFits(cl), NEW buf, NEW w, w = OffsetSize(cl), PartOf(buf, Content(cl), w),
         Len(buf) = Len(cl.sizes) * w
  PROVE  <<DataStart(cl)>> \o [i \in 1 .. DataStart(cl) \div w - 1 |-> Value(TableUnits(buf, w, i))] = StoredTable(cl)
<1>1. PICK n \in Nat : n = Len(cl.sizes)
  BY ClusterFacts
<1>2. w \in Nat \ {0}
  BY ClusterFacts
<1>3. DataStart(cl) \div w - 1 = n
  <2>1. ((n + 1) * w) \div w = n + 1
    BY <1>2, DivideBack
  <2>2. DataStart(cl) \div w = n + 1
    BY <1>1, <2>1, Zenon DEF DataStart
  <2> QED
    BY <2>2
<1>4. PICK r : r = [i \in 1 .. n |-> Value(TableUnits(buf, w, i))]
  OBVIOUS
<1>5. r = [i \in 1 .. n |-> r[i]] /\ \A i \in 1 .. n : r[i] = Value(TableUnits(buf, w, i))
  BY <1>4, Zenon
<1>6. IsSeq(r) /\ Len(r) = n
  BY <1>5, FunctionSeq
<1>7. PICK f : f = <<DataStart(cl)>>
  OBVIOUS
<1>8. IsSeq(f) /\ Len(f) = 1 /\ f[1] = DataStart(cl)
  BY <1>7, SmallSeqs, Zenon
<1>9. PICK s : s = f \o r
  OBVIOUS
<1>10. IsSeq(s) /\ Len(s) = 1 + n /\ \A i \in 1 .. 1 + n : s[i] = IF i <= 1 THEN f[i] ELSE r[i - 1]
  <2>1. /\ IsSeq(f \o r) /\ Len(f \o r) = Len(f) + Len(r)
        /\ \A i \in 1 .. Len(f) + Len(r) : (f \o r)[i] = IF i <= Len(f) THEN f[i] ELSE r[i - Len(f)]
    BY <1>6, <1>8, CatFacts, Zenon
  <2> QED
    BY <1>6, <1>8, <1>9, <2>1
<1>11. PICK t : t = StoredTable(cl)
  OBVIOUS
<1>12. IsSeq(t) /\ Len(t) = n + 1 /\ \A i \in 1 .. n + 1 : t[i] = Stored(cl, i)
  <2>1. t = [i \in 1 .. n + 1 |-> Stored(cl, i)]
    BY <1>1, <1>11, Zenon DEF StoredTable
  <2>2. t = [i \in 1 .. n + 1 |-> t[i]] /\ \A i \in 1 .. n + 1 : t[i] = Stored(cl, i)
    BY <2>1, Zenon
  <2>3. n + 1 \in Nat
    OBVIOUS
  <2> QED
    BY <2>2, <2>3, FunctionSeq, Zenon
<1>13. 1 + n = n + 1
  OBVIOUS
<1>14. ASSUME NEW i \in 1 .. 1 + n PROVE s[i] = t[i]
  <2>1. CASE i = 1
    <3>1. 1 <= 1
      OBVIOUS
    <3>2. s[1] = f[1]
      BY <1>10, <2>1, <3>1, Zenon
    <3>3. t[1] = Stored(cl, 1)
      BY <1>12, <1>13, <2>1, Zenon
    <3> QED
      BY <1>8, <2>1, <3>2, <3>3, FirstStored, Zenon
  <2>2. CASE i # 1
    <3>1. ~ (i <= 1) /\ i - 1 \in 1 .. n /\ (i - 1) + 1 = i
      BY <2>2
    <3>2. s[i] = r[i - 1]
      BY <1>10, <3>1, Zenon
    <3>3. r[i - 1] = Value(TableUnits(buf, w, i - 1))
      BY <1>5, <3>1, Zenon
    <3>4. Value(TableUnits(buf, w, i - 1)) = Stored(cl, (i - 1) + 1)
      BY <1>1, <3>1, TableValue, Zenon
    <3> QED
      BY <1>12, <1>13, <3>1, <3>2, <3>3, <3>4, Zenon
  <2> QED
    BY <2>1, <2>2
<1>15. s = t
  BY <1>10, <1>12, <1>13, <1>14, SameSeq, Zenon
<1> QED
  BY <1>3, <1>4, <1>7, <1>9, <1>11, <1>15, Zenon

LEMMA OtherOffsetsKeeps ==
  ASSUME WriterInv, ReaderInv, TableFits(cluster), OtherOffsets, UNCHANGED writerVars
  PROVE  ReaderInv' /\ VerdictInv'
<1>1. /\ rpc = "offsets" /\ stream.avail_out = 0
      /\ UNCHANGED <<m_blobReaders, m_readerAccessMutex, stream, req, calls>>
  BY DEF OtherOffsets
<1>2. UNCHANGED <<cluster, file, wpc>> /\ cluster \in Clusters
  BY DEF writerVars, WriterInv
<1>3. RequestsInv /\ OpeningInv
  BY <1>1 DEF ReaderInv, OpenInv
<1>4. RequestsInv' /\ m_blobReaders' = <<>> /\ \A t \in Threads : req'[t].pc = "idle"
  BY <1>1, <1>2, <1>3, OpeningKept
<1>5. PICK w \in Nat \ {0} : w = OffsetSize(cluster)
  BY <1>2, ClusterFacts
<1>6. PICK d : d = DataStart(cluster)
  OBVIOUS
<1>7. PICK x : x = Len(cluster.sizes) * w
  OBVIOUS
<1>8. d - w = x /\ x \in Nat /\ w + x = d /\ d = BlobStart(cluster, 1)
  BY <1>2, <1>5, <1>6, <1>7, OffsetSpace, Zenon
<1>9. wpc = "written" /\ m_blobOffsets = <<d>> /\ ReadingAt(file, cluster, stream, w, d - w)
  BY <1>1, <1>3, <1>5, <1>6 DEF OpeningInv
<1>10. Width = w
  BY <1>5, <1>9, InfoFacts, Zenon
<1>11. /\ PartOf(stream.buf, Content(cluster), w) /\ Len(stream.buf) = x
       /\ StreamAt(file, cluster, stream, d)
  BY <1>1, <1>8, <1>9, ReadDone, Zenon
<1>12. OffsetsRead = StoredTable(cluster)
  <2>1. <<d>>[1] = d
    OBVIOUS
  <2>2. OffsetsRead = <<d>> \o [i \in 1 .. d \div w - 1 |-> Value(TableUnits(stream.buf, w, i))]
    BY <1>9, <1>10, <2>1, Zenon DEF OffsetsRead, TableUnits
  <2>3. PICK buf : buf = stream.buf
    OBVIOUS
  <2>4. <<d>> \o [i \in 1 .. d \div w - 1 |-> Value(TableUnits(buf, w, i))] = StoredTable(cluster)
    BY <1>2, <1>5, <1>6, <1>7, <1>11, <2>3, TableRead, Zenon
  <2> QED
    BY <2>2, <2>3, <2>4, Zenon
<1>r. CASE ~ OffsetsFit(cluster)
  <2>1. ~ Ascends(OffsetsRead)
    BY <1>2, <1>r, <1>12, TruncatedDescends, Zenon
  <2>2. rpc' = "threw"
    BY <2>1, Zenon DEF OtherOffsets
  <2>3. OpeningInv'
    BY <1>2, <1>4, <1>9, <2>2 DEF OpeningInv
  <2> QED
    BY <1>2, <1>4, <1>r, <2>2, <2>3 DEF ReaderInv, VerdictInv
<1>f. SUFFICES ASSUME OffsetsFit(cluster) PROVE ReaderInv' /\ VerdictInv'
  BY <1>r, Zenon
<1>o. m_blobOffsets' = OffsetTable(cluster) /\ rpc' = "open"
  BY <1>2, <1>f, <1>12, FitTable, Zenon DEF OtherOffsets
<1>13. Len(m_blobReaders') = 0 /\ ReadersOk(cluster, m_blobReaders', 0)
  <2>1. 0 <= Len(cluster.sizes) /\ 1 .. 0 = {}
    BY <1>2, ClusterFacts
  <2> QED
    BY <1>4, <2>1, SmallSeqs DEF ReadersOk
<1>14. ~ Reading'
  BY <1>4 DEF Reading
<1>15. BlobAhead(file, cluster, stream, 0)
  <2>1. 0 + 1 = 1
    OBVIOUS
  <2> QED
    BY <1>8, <1>11, <2>1, Zenon DEF BlobAhead
<1>16. PICK z : z = Len(m_blobReaders')
  OBVIOUS
<1>17. ReadersOk(cluster, m_blobReaders', z) /\ BlobAhead(file, cluster, stream, z)
  BY <1>13, <1>15, <1>16, Zenon
<1>18. OpenInv'
  BY <1>1, <1>2, <1>9, <1>o, <1>14, <1>16, <1>17, Zenon DEF OpenInv
<1>19. VerdictInv'
  BY <1>2, <1>f, <1>o DEF VerdictInv
<1> QED
  BY <1>4, <1>18, <1>19, Zenon DEF ReaderInv
-----------------------------------------------------------------------------
(* The calls of getBlob *)

\* Blob k of the reader, counted from 0, is blob k + 1 of the writer.
LEMMA BlobPlace ==
  ASSUME NEW cl \in Clusters, NEW k \in Nat, k < Len(cl.sizes)
  PROVE  /\ k + 1 \in 1 .. Len(cl.sizes) /\ cl.sizes[k + 1] \in Nat
         /\ BlobStart(cl, k + 1) \in Nat
         /\ BlobStart(cl, k + 1) + cl.sizes[k + 1] = BlobStart(cl, (k + 1) + 1)
         /\ BlobStart(cl, k + 1) + cl.sizes[k + 1] <= Len(Content(cl))
         /\ OffsetTable(cl)[k + 2] - OffsetTable(cl)[k + 1] = cl.sizes[k + 1]
<1>1. PICK n \in Nat : n = Len(cl.sizes)
  BY ClusterFacts
<1>2. PICK j : j = k + 1
  OBVIOUS
<1>3. j \in 1 .. n /\ j \in 1 .. n + 1 /\ j + 1 \in 1 .. n + 1 /\ k + 2 = j + 1
  BY <1>1, <1>2
<1>4. PICK z : z = cl.sizes[j]
  OBVIOUS
<1>5. z \in Nat
  BY <1>1, <1>3, <1>4, ClusterFacts, Zenon
<1>6. PICK x : x = BlobStart(cl, j)
  OBVIOUS
<1>7. PICK y : y = BlobStart(cl, j + 1)
  OBVIOUS
<1>8. x \in Nat /\ y \in Nat /\ y <= Len(Content(cl))
  BY <1>1, <1>3, <1>6, <1>7, StartFacts, Zenon
<1>9. x + z = y
  <2>1. PICK d : d = DataStart(cl)
    OBVIOUS
  <2>2. PICK b : b = BlobOffset(cl, j)
    OBVIOUS
  <2>3. d \in Nat /\ b \in Nat
    <3>1. d \in Nat \ {0} /\ b \in Nat
      BY <1>1, <1>3, <2>1, <2>2, SumFacts, ContentFacts, Zenon
    <3> QED
      BY <3>1
  <2>4. BlobOffset(cl, j + 1) = b + z
    BY <1>1, <1>3, <1>4, <2>2, SumFacts, Zenon
  <2>5. (d + b) + z = d + (b + z)
    BY <1>5, <2>3
  <2> QED
    BY <1>6, <1>7, <2>1, <2>2, <2>4, <2>5, Zenon DEF BlobStart
<1>10. OffsetTable(cl)[j] = x /\ OffsetTable(cl)[j + 1] = y
  BY <1>1, <1>3, <1>6, <1>7, TableFacts, Zenon
<1>11. y - x = z
  BY <1>5, <1>8, <1>9
<1>12. OffsetTable(cl)[k + 2] - OffsetTable(cl)[j] = z
  BY <1>3, <1>10, <1>11, Zenon
<1> QED
  BY <1>1, <1>2, <1>3, <1>4, <1>5, <1>6, <1>7, <1>8, <1>9, <1>12, Zenon

\* What the reader computes from the table
LEMMA TableRight ==
  ASSUME NEW cl \in Clusters, cl = cluster, m_blobOffsets = OffsetTable(cl)
  PROVE  /\ count = Len(cl.sizes)
         /\ \A k \in Nat : k < Len(cl.sizes) => getBlobSize(k) = cl.sizes[k + 1]
<1>1. PICK n \in Nat : n = Len(cl.sizes)
  BY ClusterFacts
<1>2. Len(m_blobOffsets) = n + 1
  BY <1>1, TableFacts, Zenon
<1>3. (n + 1) - 1 = n
  OBVIOUS
<1>4. count = n
  BY <1>2, <1>3, Zenon DEF count
<1>5. ASSUME NEW k \in Nat, k < Len(cl.sizes) PROVE getBlobSize(k) = cl.sizes[k + 1]
  BY <1>5, BlobPlace, Zenon DEF getBlobSize
<1> QED
  BY <1>1, <1>4, <1>5, Zenon

RequestRecord(p, n, o, z, b) == [pc |-> p, n |-> n, offset |-> o, size |-> z, blob |-> b]
SetRequest(q, t, r) == [q EXCEPT ![t] = r]

LEMMA RequestForm ==
  ASSUME NEW p, NEW n, NEW o, NEW z, NEW b, NEW r, r = RequestRecord(p, n, o, z, b)
  PROVE  IsRequest(r) /\ r.pc = p /\ r.n = n /\ r.offset = o /\ r.size = z /\ r.blob = b
BY DEF RequestRecord, IsRequest

\* The request of t becomes r.
LEMMA RequestSet ==
  ASSUME RequestsInv, NEW t \in Threads, NEW r, RequestOk(cluster, r), req' = SetRequest(req, t, r),
         cluster' = cluster, r.pc \in {"locked", "reading"} <=> m_readerAccessMutex' = t,
         \A u \in Threads \ {t} : m_readerAccessMutex' = u <=> m_readerAccessMutex = u
  PROVE  RequestsInv' /\ req'[t] = r /\ \A u \in Threads \ {t} : req'[u] = req[u]
<1>1. /\ req = [u \in Threads |-> req[u]]
      /\ \A u \in Threads : RequestOk(cluster, req[u])
      /\ \A u \in Threads : req[u].pc \in {"locked", "reading"} <=> m_readerAccessMutex = u
  BY Zenon DEF RequestsInv
<1>2. PICK q : q = req'
  OBVIOUS
<1>3. q = [req EXCEPT ![t] = r]
  BY <1>2, Zenon DEF SetRequest
<1>4. q = [u \in Threads |-> IF u = t THEN r ELSE req[u]]
  BY <1>1, <1>3
<1>5. q = [u \in Threads |-> q[u]] /\ q[t] = r /\ \A u \in Threads \ {t} : q[u] = req[u]
  BY <1>4
<1>6. \A u \in Threads : RequestOk(cluster', q[u])
  <2>1. ASSUME NEW u \in Threads PROVE RequestOk(cluster', q[u])
    <3>1. CASE u = t
      BY <1>5, <3>1, Zenon
    <3>2. CASE u # t
      <4>1. q[u] = req[u]
        BY <1>5, <3>2
      <4> QED
        BY <1>1, <4>1, Zenon
    <3> QED
      BY <3>1, <3>2
  <2> QED
    BY <2>1
<1>7. \A u \in Threads : q[u].pc \in {"locked", "reading"} <=> m_readerAccessMutex' = u
  <2>1. ASSUME NEW u \in Threads PROVE q[u].pc \in {"locked", "reading"} <=> m_readerAccessMutex' = u
    <3>1. CASE u = t
      BY <1>5, <3>1, Zenon
    <3>2. CASE u # t
      <4>1. q[u] = req[u] /\ (m_readerAccessMutex' = u <=> m_readerAccessMutex = u)
        BY <1>5, <3>2
      <4>2. req[u].pc \in {"locked", "reading"} <=> m_readerAccessMutex = u
        BY <1>1, Zenon
      <4> QED
        BY <4>1, <4>2, Zenon
    <3> QED
      BY <3>1, <3>2
  <2> QED
    BY <2>1
<1>8. RequestsInv'
  BY <1>2, <1>5, <1>6, <1>7, Zenon DEF RequestsInv
<1> QED
  BY <1>2, <1>5, <1>8, Zenon

\* A thread that does not begin or end to read changes nothing for the others.
LEMMA ReadingKept ==
  ASSUME NEW t \in Threads, req[t].pc # "reading", req'[t].pc # "reading",
         \A u \in Threads \ {t} : req'[u] = req[u]
  PROVE  Reading' <=> Reading
<1>1. ASSUME NEW u \in Threads PROVE req'[u].pc = "reading" <=> req[u].pc = "reading"
  <2>1. CASE u = t
    BY <2>1, Zenon
  <2>2. CASE u # t
    <3>1. req'[u] = req[u]
      BY <2>2
    <3> QED
      BY <3>1, Zenon
  <2> QED
    BY <2>1, <2>2
<1> QED
  BY <1>1, Zenon DEF Reading

LEMMA OpenNow ==
  ASSUME ReaderInv, NEW t \in Threads, req[t].pc # "idle"
  PROVE  RequestsInv /\ OpenInv
BY Zenon DEF ReaderInv, OpeningInv

LEMMA OpenKept ==
  ASSUME OpenInv, UNCHANGED <<cluster, file, wpc, m_blobOffsets, m_blobReaders, stream, rpc>>, Reading' <=> Reading
  PROVE  OpenInv'
<1>1. /\ cluster' = cluster /\ file' = file /\ wpc' = wpc /\ m_blobOffsets' = m_blobOffsets
      /\ m_blobReaders' = m_blobReaders /\ stream' = stream /\ rpc' = rpc
  OBVIOUS
<1>2. PICK b : b = Len(m_blobReaders)
  OBVIOUS
<1>3. b = Len(m_blobReaders')
  BY <1>1, <1>2, Zenon
<1>4. /\ rpc = "open" /\ wpc = "written" /\ m_blobOffsets = OffsetTable(cluster)
      /\ ReadersOk(cluster, m_blobReaders, b)
      /\ Reading => BlobReading(file, cluster, stream, b)
      /\ ~ Reading => BlobAhead(file, cluster, stream, b)
  BY <1>2, Zenon DEF OpenInv
<1>5. /\ m_blobOffsets' = OffsetTable(cluster')
      /\ ReadersOk(cluster', m_blobReaders', b)
      /\ Reading' => BlobReading(file', cluster', stream', b)
      /\ ~ Reading' => BlobAhead(file', cluster', stream', b)
  BY <1>1, <1>4, Zenon
<1> QED
  BY <1>1, <1>3, <1>4, <1>5, Zenon DEF OpenInv

\* A call for a blob that does not exist, or for what is behind its end, gets
\* nothing.
LEMMA NothingExact ==
  ASSUME NEW cl \in Clusters, NEW r, r.n \in Nat, r.offset \in Nat, r.size \in Nat, r.blob = <<>>,
         r.n < Len(cl.sizes) => ~ (r.offset <= cl.sizes[r.n + 1])
  PROVE  AnswerExact(cl, r)
<1>1. PICK n \in Nat : n = r.n
  OBVIOUS
<1>2. PICK o \in Nat : o = r.offset
  OBVIOUS
<1>3. PICK z \in Nat : z = r.size
  OBVIOUS
<1>4. PICK blob : blob = IF n < Len(cl.sizes) THEN BlobUnits(cl, n + 1) ELSE <<>>
  OBVIOUS
<1>5. Len(blob) \in Nat /\ Len(blob) < o + 1
  <2>1. CASE n < Len(cl.sizes)
    <3>1. n + 1 \in 1 .. Len(cl.sizes) /\ cl.sizes[n + 1] \in Nat
      BY <2>1, BlobPlace
    <3>2. Len(blob) = cl.sizes[n + 1]
      BY <1>4, <2>1, <3>1, BlobUnitFacts, Zenon
    <3>3. ~ (o <= cl.sizes[n + 1])
      BY <1>1, <1>2, <2>1, Zenon
    <3> QED
      BY <3>1, <3>2, <3>3
  <2>2. CASE ~ (n < Len(cl.sizes))
    <3>1. Len(blob) = 0
      BY <1>4, <2>2, SmallSeqs, Zenon
    <3> QED
      BY <3>1
  <2> QED
    BY <2>1, <2>2
<1>6. PICK e : e = Least(Len(blob), o + z)
  OBVIOUS
<1>7. e \in Int /\ e < o + 1 /\ o + 1 \in Int
  BY <1>5, <1>6 DEF Least
<1>8. SubSeq(blob, o + 1, e) = <<>>
  BY <1>7, SubSeqEmpty
<1> QED
  BY <1>1, <1>2, <1>3, <1>4, <1>6, <1>8, Zenon DEF AnswerExact

LEMMA GetBlobKeeps ==
  ASSUME WriterInv, ReaderInv, NEW t \in Threads, NEW n \in Nat, NEW o \in Nat, NEW z \in Nat,
         GetBlob(t, n, o, z), UNCHANGED writerVars
  PROVE  ReaderInv'
<1>1. /\ rpc = "open" /\ req[t].pc = "idle"
      /\ UNCHANGED <<m_blobOffsets, m_blobReaders, m_readerAccessMutex, stream, rpc>>
  BY DEF GetBlob
<1>2. UNCHANGED <<cluster, file, wpc>> /\ cluster \in Clusters
  BY DEF writerVars, WriterInv
<1>3. RequestsInv /\ OpenInv
  BY <1>1 DEF ReaderInv, OpeningInv
<1>4. m_blobOffsets = OffsetTable(cluster)
  BY <1>3, Zenon DEF OpenInv
<1>5. count = Len(cluster.sizes) /\ \A k \in Nat : k < Len(cluster.sizes) => getBlobSize(k) = cluster.sizes[k + 1]
  BY <1>2, <1>4, TableRight, Zenon
<1>6. PICK p : p = IF n < count /\ o <= getBlobSize(n) THEN "lock" ELSE "done"
  OBVIOUS
<1>7. PICK e : e = <<>>
  OBVIOUS
<1>8. PICK r : r = RequestRecord(p, n, o, z, e)
  OBVIOUS
<1>9. req' = SetRequest(req, t, r)
  <2>1. PICK r0 : r0 = [NoRequest EXCEPT !.n = n, !.offset = o, !.size = z]
    OBVIOUS
  <2>2. r0 = [pc |-> "idle", n |-> n, offset |-> o, size |-> z, blob |-> e]
    BY <1>7, <2>1 DEF NoRequest
  <2>3. req' = [req EXCEPT ![t] = IF n < count /\ o <= getBlobSize(n)
                                  THEN [r0 EXCEPT !.pc = "lock"] ELSE [r0 EXCEPT !.pc = "done"]]
    BY <2>1, Zenon DEF GetBlob
  <2>4. r = IF n < count /\ o <= getBlobSize(n) THEN [r0 EXCEPT !.pc = "lock"] ELSE [r0 EXCEPT !.pc = "done"]
    BY <1>6, <1>8, <2>2 DEF RequestRecord
  <2> QED
    BY <2>3, <2>4, Zenon DEF SetRequest
<1>10. IsRequest(r) /\ r.pc = p /\ r.n = n /\ r.offset = o /\ r.size = z /\ r.blob = e
  BY <1>8, RequestForm
<1>11. RequestOk(cluster, r)
  <2>1. CASE n < count /\ o <= getBlobSize(n)
    <3>1. p = "lock" /\ p # "done"
      BY <1>6, <2>1
    <3>2. n < Len(cluster.sizes) /\ o <= cluster.sizes[n + 1]
      BY <1>5, <2>1, Zenon
    <3> QED
      BY <1>10, <3>1, <3>2, Zenon DEF RequestOk
  <2>2. CASE ~ (n < count /\ o <= getBlobSize(n))
    <3>1. p = "done" /\ p \notin {"lock", "locked", "reading"}
      BY <1>6, <2>2
    <3>2. n < Len(cluster.sizes) => ~ (o <= cluster.sizes[n + 1])
      BY <1>5, <2>2, Zenon
    <3>3. AnswerExact(cluster, r)
      BY <1>2, <1>7, <1>10, <3>2, NothingExact, Zenon
    <3> QED
      BY <1>10, <3>1, <3>3, Zenon DEF RequestOk
  <2> QED
    BY <2>1, <2>2
<1>12. r.pc \notin {"locked", "reading"} /\ r.pc # "reading"
  BY <1>6, <1>10
<1>13. m_readerAccessMutex' = m_readerAccessMutex /\ m_readerAccessMutex # t
  BY <1>1, <1>3 DEF RequestsInv
<1>14. RequestsInv' /\ req'[t] = r /\ \A u \in Threads \ {t} : req'[u] = req[u]
  BY <1>2, <1>3, <1>9, <1>11, <1>12, <1>13, RequestSet
<1>15. Reading' <=> Reading
  <2>1. req[t].pc # "reading" /\ req'[t].pc # "reading"
    BY <1>1, <1>12, <1>14
  <2> QED
    BY <1>14, <2>1, ReadingKept, Zenon
<1>16. OpenInv'
  BY <1>1, <1>2, <1>3, <1>15, OpenKept, Zenon
<1> QED
  BY <1>14, <1>16, Zenon DEF ReaderInv

LEMMA CallKeeps ==
  ASSUME WriterInv, ReaderInv, NEW t \in Threads, Call(t), UNCHANGED writerVars
  PROVE  ReaderInv'
<1>1. PICK r \in Requests : GetBlob(t, r[1], r[2], r[3])
  BY DEF Call
<1>2. r[1] \in Nat /\ r[2] \in Nat /\ r[3] \in Nat
  BY ReadersAssumption
<1>3. PICK n, o, z : n = r[1] /\ o = r[2] /\ z = r[3]
  BY Zenon
<1>4. n \in Nat /\ o \in Nat /\ z \in Nat /\ GetBlob(t, n, o, z)
  BY <1>1, <1>2, <1>3, Zenon
<1> QED
  BY <1>4, GetBlobKeeps

\* What a step inside a call finds
LEMMA InCallFacts ==
  ASSUME WriterInv, ReaderInv, NEW t \in Threads, req[t].pc # "idle", UNCHANGED writerVars
  PROVE  /\ RequestsInv /\ OpenInv /\ cluster \in Clusters /\ wpc = "written"
         /\ RequestOk(cluster, req[t])
         /\ cluster' = cluster /\ file' = file /\ wpc' = wpc
<1>1. RequestsInv /\ OpenInv
  BY OpenNow, Zenon
<1>2. RequestOk(cluster, req[t]) /\ wpc = "written"
  BY <1>1, Zenon DEF RequestsInv, OpenInv
<1> QED
  BY <1>1, <1>2 DEF writerVars, WriterInv

LEMMA LockReaderKeeps ==
  ASSUME WriterInv, ReaderInv, NEW t \in Threads, LockReader(t), UNCHANGED writerVars
  PROVE  ReaderInv'
<1>1. /\ req[t].pc = "lock" /\ m_readerAccessMutex = NoThread /\ m_readerAccessMutex' = t
      /\ req' = [req EXCEPT ![t].pc = "locked"]
      /\ UNCHANGED <<m_blobOffsets, m_blobReaders, stream, rpc>>
  BY DEF LockReader
<1>2. req[t].pc # "idle" /\ req[t].pc # "reading" /\ req[t].pc \in {"lock", "locked", "reading"}
  BY <1>1
<1>3. /\ RequestsInv /\ OpenInv /\ cluster \in Clusters /\ wpc = "written" /\ RequestOk(cluster, req[t])
      /\ cluster' = cluster /\ file' = file /\ wpc' = wpc
  BY <1>2, InCallFacts, Zenon
<1>4. PICK q : q = req[t]
  OBVIOUS
<1>5. PICK p : p = "locked"
  OBVIOUS
<1>6. PICK r : r = RequestRecord(p, q.n, q.offset, q.size, q.blob)
  OBVIOUS
<1>7. IsRequest(r) /\ r.pc = p /\ r.n = q.n /\ r.offset = q.offset /\ r.size = q.size /\ r.blob = q.blob
  BY <1>6, RequestForm
<1>8. req' = SetRequest(req, t, r)
  <2>1. q = [pc |-> q.pc, n |-> q.n, offset |-> q.offset, size |-> q.size, blob |-> q.blob]
    BY <1>3, <1>4, Zenon DEF RequestOk, IsRequest
  <2>2. r = [q EXCEPT !.pc = "locked"]
    BY <1>5, <1>6, <2>1 DEF RequestRecord
  <2>3. req' = [req EXCEPT ![t] = [req[t] EXCEPT !.pc = "locked"]]
    BY <1>1
  <2> QED
    BY <1>4, <2>2, <2>3, Zenon DEF SetRequest
<1>9. p # "done" /\ p # "reading" /\ p \in {"locked", "reading"}
  BY <1>5
<1>10. RequestOk(cluster, r)
  BY <1>2, <1>3, <1>4, <1>7, <1>9, Zenon DEF RequestOk
<1>11. \A u \in Threads \ {t} : m_readerAccessMutex' = u <=> m_readerAccessMutex = u
  BY <1>1, ReadersAssumption
<1>12. RequestsInv' /\ req'[t] = r /\ \A u \in Threads \ {t} : req'[u] = req[u]
  BY <1>1, <1>3, <1>7, <1>8, <1>9, <1>10, <1>11, RequestSet
<1>13. Reading' <=> Reading
  <2>1. req'[t].pc # "reading"
    BY <1>7, <1>9, <1>12, Zenon
  <2> QED
    BY <1>2, <1>12, <2>1, ReadingKept, Zenon
<1>14. OpenInv'
  BY <1>1, <1>3, <1>13, OpenKept, Zenon
<1> QED
  BY <1>12, <1>14, Zenon DEF ReaderInv

LEMMA AnsweredKeeps ==
  ASSUME WriterInv, ReaderInv, NEW t \in Threads, Answered(t), UNCHANGED writerVars
  PROVE  ReaderInv'
<1>1. /\ req[t].pc = "done" /\ m_readerAccessMutex' = m_readerAccessMutex
      /\ req' = [req EXCEPT ![t] = NoRequest]
      /\ UNCHANGED <<m_blobOffsets, m_blobReaders, stream, rpc>>
  BY DEF Answered
<1>2. req[t].pc # "idle" /\ req[t].pc # "reading"
  BY <1>1
<1>3. /\ RequestsInv /\ OpenInv /\ cluster \in Clusters /\ wpc = "written"
      /\ cluster' = cluster /\ file' = file /\ wpc' = wpc
  BY <1>2, InCallFacts, Zenon
<1>4. PICK r : r = NoRequest
  OBVIOUS
<1>5. req' = SetRequest(req, t, r)
  BY <1>1, <1>4, Zenon DEF SetRequest
<1>6. RequestOk(cluster, r) /\ r.pc # "reading" /\ r.pc # "locked"
  BY <1>4 DEF NoRequest, RequestOk, IsRequest
<1>7. m_readerAccessMutex # t
  BY <1>1, <1>3 DEF RequestsInv
<1>8. r.pc \in {"locked", "reading"} <=> m_readerAccessMutex' = t
  BY <1>1, <1>6, <1>7
<1>9. \A u \in Threads \ {t} : m_readerAccessMutex' = u <=> m_readerAccessMutex = u
  BY <1>1, Zenon
<1>10. RequestsInv' /\ req'[t] = r /\ \A u \in Threads \ {t} : req'[u] = req[u]
  BY <1>3, <1>5, <1>6, <1>8, <1>9, RequestSet
<1>11. Reading' <=> Reading
  <2>1. req'[t].pc # "reading"
    BY <1>6, <1>10, Zenon
  <2> QED
    BY <1>2, <1>10, <2>1, ReadingKept, Zenon
<1>12. OpenInv'
  BY <1>1, <1>3, <1>11, OpenKept, Zenon
<1> QED
  BY <1>10, <1>12, Zenon DEF ReaderInv

\* Only the thread that holds the mutex can be reading.
LEMMA OneReader ==
  ASSUME RequestsInv, NEW t \in Threads, m_readerAccessMutex = t
  PROVE  \A u \in Threads \ {t} : req[u].pc # "reading"
<1>1. ASSUME NEW u \in Threads \ {t} PROVE req[u].pc # "reading"
  <2>1. req[u].pc \in {"locked", "reading"} <=> m_readerAccessMutex = u
    BY DEF RequestsInv
  <2> QED
    BY <2>1
<1> QED
  BY <1>1, Zenon

\* The request q with another pc
WithPc(q, p) == RequestRecord(p, q.n, q.offset, q.size, q.blob)

LEMMA WithPcFacts ==
  ASSUME NEW cl, NEW q, RequestOk(cl, q), q.pc \in {"locked", "reading"}, NEW p, p \in {"locked", "reading"},
         NEW r, r = WithPc(q, p)
  PROVE  RequestOk(cl, r) /\ r.pc = p
<1>1. IsRequest(r) /\ r.pc = p /\ r.n = q.n /\ r.offset = q.offset /\ r.size = q.size /\ r.blob = q.blob
  BY RequestForm DEF WithPc
<1>2. p # "done" /\ q.pc \in {"lock", "locked", "reading"}
  OBVIOUS
<1> QED
  BY <1>1, <1>2, Zenon DEF RequestOk

LEMMA WithPcSet ==
  ASSUME NEW cl, NEW t \in Threads, RequestOk(cl, req[t]), NEW p, req' = [req EXCEPT ![t].pc = p]
  PROVE  req' = SetRequest(req, t, WithPc(req[t], p))
<1>1. PICK q : q = req[t]
  OBVIOUS
<1>2. q = [pc |-> q.pc, n |-> q.n, offset |-> q.offset, size |-> q.size, blob |-> q.blob]
  BY <1>1, Zenon DEF RequestOk, IsRequest
<1>3. WithPc(q, p) = [q EXCEPT !.pc = p]
  BY <1>2 DEF RequestRecord, WithPc
<1>4. req' = [req EXCEPT ![t] = [req[t] EXCEPT !.pc = p]]
  OBVIOUS
<1> QED
  BY <1>1, <1>3, <1>4, Zenon DEF SetRequest

\* A step of the thread that holds the mutex, which keeps it
LEMMA HolderSteps ==
  ASSUME WriterInv, ReaderInv, NEW t \in Threads, UNCHANGED writerVars, req[t].pc \in {"locked", "reading"},
         NEW p, p \in {"locked", "reading"}, NEW r, r = WithPc(req[t], p), req' = SetRequest(req, t, r),
         m_readerAccessMutex' = m_readerAccessMutex
  PROVE  /\ RequestsInv' /\ req'[t].pc = p
         /\ \A u \in Threads \ {t} : req[u].pc # "reading" /\ req'[u].pc # "reading"
<1>1. req[t].pc # "idle"
  OBVIOUS
<1>2. RequestsInv /\ cluster' = cluster /\ RequestOk(cluster, req[t])
  BY <1>1, InCallFacts, Zenon
<1>3. PICK q : q = req[t]
  OBVIOUS
<1>4. RequestOk(cluster, r) /\ r.pc = p
  BY <1>2, <1>3, WithPcFacts, Zenon
<1>5. m_readerAccessMutex = t
  BY <1>2, Zenon DEF RequestsInv
<1>6. r.pc \in {"locked", "reading"} <=> m_readerAccessMutex' = t
  BY <1>4, <1>5, Zenon
<1>7. \A u \in Threads \ {t} : m_readerAccessMutex' = u <=> m_readerAccessMutex = u
  BY Zenon
<1>8. RequestsInv' /\ req'[t] = r /\ \A u \in Threads \ {t} : req'[u] = req[u]
  BY <1>2, <1>4, <1>6, <1>7, RequestSet
<1>9. \A u \in Threads \ {t} : req[u].pc # "reading"
  BY <1>2, <1>5, OneReader, Zenon
<1> QED
  BY <1>4, <1>8, <1>9, Zenon

\* The blob that is read next
LEMMA NextBlob ==
  ASSUME OpenInv, NEW b, b = Len(m_blobReaders)
  PROVE  /\ b \in Nat /\ b <= Len(cluster.sizes) /\ ReadersOk(cluster, m_blobReaders, b)
         /\ Reading => BlobReading(file, cluster, stream, b)
         /\ ~ Reading => BlobAhead(file, cluster, stream, b)
<1>1. /\ ReadersOk(cluster, m_blobReaders, b)
      /\ Reading => BlobReading(file, cluster, stream, b)
      /\ ~ Reading => BlobAhead(file, cluster, stream, b)
  BY Zenon DEF OpenInv
<1>2. IsSeq(m_blobReaders) /\ b <= Len(cluster.sizes)
  BY <1>1, Zenon DEF ReadersOk
<1>3. b \in Nat
  BY <1>2, SeqFacts, Zenon
<1> QED
  BY <1>1, <1>2, <1>3, Zenon

LEMMA StartBlobKeeps ==
  ASSUME WriterInv, ReaderInv, NEW t \in Threads, StartBlob(t), UNCHANGED writerVars
  PROVE  ReaderInv'
<1>1. /\ req[t].pc = "locked" /\ Len(m_blobReaders) <= req[t].n
      /\ stream' = StartRead(getBlobSize(Len(m_blobReaders)))
      /\ req' = [req EXCEPT ![t].pc = "reading"]
      /\ m_blobOffsets' = m_blobOffsets /\ m_blobReaders' = m_blobReaders
      /\ m_readerAccessMutex' = m_readerAccessMutex /\ rpc' = rpc
  BY DEF StartBlob
<1>2. req[t].pc # "idle" /\ req[t].pc # "reading" /\ req[t].pc \in {"locked", "reading"}
      /\ req[t].pc \in {"lock", "locked", "reading"}
  BY <1>1
<1>3. /\ RequestsInv /\ OpenInv /\ cluster \in Clusters /\ wpc = "written" /\ RequestOk(cluster, req[t])
      /\ cluster' = cluster /\ file' = file /\ wpc' = wpc
  BY <1>2, InCallFacts, Zenon
<1>4. PICK p : p = "reading"
  OBVIOUS
<1>5. PICK r : r = WithPc(req[t], p)
  OBVIOUS
<1>6. req' = SetRequest(req, t, r) /\ p \in {"locked", "reading"}
  BY <1>1, <1>3, <1>4, <1>5, WithPcSet
<1>7. /\ RequestsInv' /\ req'[t].pc = p
      /\ \A u \in Threads \ {t} : req[u].pc # "reading" /\ req'[u].pc # "reading"
  BY <1>1, <1>2, <1>5, <1>6, HolderSteps, Zenon
<1>8. ~ Reading
  BY <1>2, <1>7 DEF Reading
<1>9. Reading'
  BY <1>4, <1>7, Zenon DEF Reading
<1>10. PICK b : b = Len(m_blobReaders)
  OBVIOUS
<1>11. b \in Nat /\ ReadersOk(cluster, m_blobReaders, b) /\ BlobAhead(file, cluster, stream, b)
  BY <1>3, <1>8, <1>10, NextBlob, Zenon
<1>12. b < Len(cluster.sizes)
  <2>1. req[t].n < Len(cluster.sizes) /\ req[t].n \in Nat /\ b <= req[t].n
    BY <1>1, <1>2, <1>3, <1>10, Zenon DEF RequestOk
  <2>2. Len(cluster.sizes) \in Nat
    BY <1>3, ClusterFacts
  <2> QED
    BY <1>11, <2>1, <2>2
<1>13. PICK q : q = BlobStart(cluster, b + 1)
  OBVIOUS
<1>14. PICK z : z = cluster.sizes[b + 1]
  OBVIOUS
<1>15. q \in Nat /\ z \in Nat /\ q + z <= Len(Content(cluster))
  BY <1>3, <1>11, <1>12, <1>13, <1>14, BlobPlace, Zenon
<1>16. getBlobSize(b) = z
  <2>1. m_blobOffsets = OffsetTable(cluster)
    BY <1>3, Zenon DEF OpenInv
  <2> QED
    BY <1>3, <1>11, <1>12, <1>14, <2>1, TableRight, Zenon
<1>17. StreamAt(file, cluster, stream, q)
  BY <1>11, <1>13, Zenon DEF BlobAhead
<1>18. ReadingAt(file, cluster, StartRead(z), q, z)
  BY <1>3, <1>15, <1>17, StartReadFacts
<1>19. ReadingAt(file, cluster, stream', q, z)
  BY <1>1, <1>10, <1>16, <1>18, Zenon
<1>20. BlobReading(file, cluster, stream', b)
  BY <1>12, <1>13, <1>14, <1>19, Zenon DEF BlobReading
<1>21. rpc = "open" /\ m_blobOffsets = OffsetTable(cluster)
  BY <1>3, Zenon DEF OpenInv
<1>22. OpenInv'
  BY <1>1, <1>3, <1>9, <1>10, <1>11, <1>20, <1>21, Zenon DEF OpenInv
<1> QED
  BY <1>7, <1>22, Zenon DEF ReaderInv

LEMMA BlobDecodesKeeps ==
  ASSUME WriterInv, ReaderInv, NEW t \in Threads, BlobDecodes(t), UNCHANGED writerVars
  PROVE  ReaderInv'
<1>1. /\ req[t].pc = "reading" /\ DecodeMoreBytes
      /\ m_blobOffsets' = m_blobOffsets /\ m_blobReaders' = m_blobReaders
      /\ m_readerAccessMutex' = m_readerAccessMutex /\ rpc' = rpc /\ req' = req
  BY DEF BlobDecodes
<1>2. req[t].pc # "idle"
  BY <1>1
<1>3. /\ RequestsInv /\ OpenInv /\ cluster \in Clusters /\ wpc = "written"
      /\ cluster' = cluster /\ file' = file /\ wpc' = wpc
  BY <1>2, InCallFacts, Zenon
<1>4. Reading /\ Reading'
  BY <1>1, Zenon DEF Reading
<1>5. PICK b : b = Len(m_blobReaders)
  OBVIOUS
<1>6. ReadersOk(cluster, m_blobReaders, b) /\ BlobReading(file, cluster, stream, b)
  BY <1>3, <1>4, <1>5, NextBlob, Zenon
<1>7. PICK q : q = BlobStart(cluster, b + 1)
  OBVIOUS
<1>8. PICK z : z = cluster.sizes[b + 1]
  OBVIOUS
<1>9. b < Len(cluster.sizes) /\ ReadingAt(file, cluster, stream, q, z)
  BY <1>6, <1>7, <1>8, Zenon DEF BlobReading
<1>10. ReadingAt(file, cluster, stream', q, z)
  BY <1>1, <1>3, <1>9, DecodeMoreFacts
<1>11. BlobReading(file, cluster, stream', b)
  BY <1>7, <1>8, <1>9, <1>10, Zenon DEF BlobReading
<1>12. rpc = "open" /\ m_blobOffsets = OffsetTable(cluster)
  BY <1>3, Zenon DEF OpenInv
<1>13. OpenInv'
  BY <1>1, <1>3, <1>4, <1>5, <1>6, <1>11, <1>12, Zenon DEF OpenInv
<1>14. RequestsInv'
  BY <1>1, <1>3, Zenon DEF RequestsInv
<1> QED
  BY <1>13, <1>14, Zenon DEF ReaderInv

LEMMA AddReaderKeeps ==
  ASSUME WriterInv, ReaderInv, NEW t \in Threads, AddReader(t), UNCHANGED writerVars
  PROVE  ReaderInv'
<1>1. /\ req[t].pc = "reading" /\ stream.avail_out = 0
      /\ m_blobReaders' = Append(m_blobReaders, stream.buf)
      /\ req' = [req EXCEPT ![t].pc = "locked"]
      /\ m_blobOffsets' = m_blobOffsets /\ stream' = stream
      /\ m_readerAccessMutex' = m_readerAccessMutex /\ rpc' = rpc
  BY DEF AddReader
<1>2. req[t].pc # "idle" /\ req[t].pc \in {"locked", "reading"}
  BY <1>1
<1>3. /\ RequestsInv /\ OpenInv /\ cluster \in Clusters /\ wpc = "written" /\ RequestOk(cluster, req[t])
      /\ cluster' = cluster /\ file' = file /\ wpc' = wpc
  BY <1>2, InCallFacts, Zenon
<1>4. PICK p : p = "locked"
  OBVIOUS
<1>5. PICK r : r = WithPc(req[t], p)
  OBVIOUS
<1>6. req' = SetRequest(req, t, r) /\ p \in {"locked", "reading"} /\ p # "reading"
  BY <1>1, <1>3, <1>4, <1>5, WithPcSet
<1>7. /\ RequestsInv' /\ req'[t].pc = p
      /\ \A u \in Threads \ {t} : req[u].pc # "reading" /\ req'[u].pc # "reading"
  BY <1>1, <1>2, <1>5, <1>6, HolderSteps, Zenon
<1>8. Reading
  BY <1>1, Zenon DEF Reading
<1>9. ~ Reading'
  BY <1>6, <1>7 DEF Reading
<1>10. PICK b : b = Len(m_blobReaders)
  OBVIOUS
<1>11. b \in Nat /\ ReadersOk(cluster, m_blobReaders, b) /\ BlobReading(file, cluster, stream, b)
  BY <1>3, <1>8, <1>10, NextBlob, Zenon
<1>12. PICK q : q = BlobStart(cluster, b + 1)
  OBVIOUS
<1>13. PICK z : z = cluster.sizes[b + 1]
  OBVIOUS
<1>14. b < Len(cluster.sizes) /\ ReadingAt(file, cluster, stream, q, z)
  BY <1>11, <1>12, <1>13, Zenon DEF BlobReading
<1>15. q \in Nat /\ z \in Nat /\ q + z = BlobStart(cluster, (b + 1) + 1) /\ b + 1 \in 1 .. Len(cluster.sizes)
  BY <1>3, <1>11, <1>12, <1>13, <1>14, BlobPlace, Zenon
<1>16. PICK k : k = b + 1
  OBVIOUS
<1>17. PICK buf : buf = stream.buf
  OBVIOUS
<1>18. PartOf(buf, Content(cluster), q) /\ Len(buf) = z /\ StreamAt(file, cluster, stream, q + z)
  BY <1>1, <1>14, <1>17, ReadDone, Zenon
<1>19. buf = BlobUnits(cluster, k)
  <2>1. PartOf(BlobUnits(cluster, k), Content(cluster), q)
    BY <1>3, <1>12, <1>15, <1>16, ContentFacts, Zenon DEF BlobStart
  <2>2. Len(BlobUnits(cluster, k)) = z
    BY <1>3, <1>13, <1>15, <1>16, BlobUnitFacts, Zenon
  <2> QED
    BY <1>15, <1>18, <2>1, <2>2, PartSame, Zenon
<1>20. BlobAhead(file, cluster, stream, k)
  BY <1>15, <1>16, <1>18, Zenon DEF BlobAhead
<1>21. PICK readers : readers = m_blobReaders'
  OBVIOUS
<1>22. ReadersOk(cluster, readers, k) /\ k = Len(readers)
  <2>1. PICK old : old = m_blobReaders
    OBVIOUS
  <2>2. IsSeq(old) /\ Len(old) = b /\ \A i \in 1 .. b : old[i] = BlobUnits(cluster, i)
    BY <1>11, <2>1, Zenon DEF ReadersOk
  <2>3. readers = old \o <<buf>>
    BY <1>1, <1>17, <1>21, <2>1, <2>2, AppendCat, Zenon
  <2>4. PICK new : new = <<buf>>
    OBVIOUS
  <2>5. IsSeq(new) /\ Len(new) = 1 /\ new[1] = buf
    BY <2>4, SmallSeqs, Zenon
  <2>6. /\ IsSeq(old \o new) /\ Len(old \o new) = Len(old) + Len(new)
        /\ \A i \in 1 .. Len(old) + Len(new) : (old \o new)[i] = IF i <= Len(old) THEN old[i] ELSE new[i - Len(old)]
    BY <2>2, <2>5, CatFacts, Zenon
  <2>7. b + 1 \in Nat
    BY <1>11
  <2>8. /\ IsSeq(readers) /\ Len(readers) = k
        /\ \A i \in 1 .. k : readers[i] = IF i <= b THEN old[i] ELSE new[i - b]
    BY <1>16, <2>2, <2>3, <2>4, <2>5, <2>6, Zenon
  <2>9. ASSUME NEW i \in 1 .. k PROVE readers[i] = BlobUnits(cluster, i)
    <3>1. CASE i <= b
      <4>1. i \in 1 .. b
        BY <1>11, <1>16, <3>1
      <4> QED
        BY <2>2, <2>8, <3>1, <4>1, Zenon
    <3>2. CASE ~ (i <= b)
      <4>1. i = k /\ i - b = 1
        BY <1>11, <1>16, <3>2
      <4> QED
        BY <1>19, <2>5, <2>8, <3>2, <4>1, Zenon
    <3> QED
      BY <3>1, <3>2
  <2>10. k <= Len(cluster.sizes)
    BY <1>15, <1>16, <1>3, ClusterFacts
  <2> QED
    BY <2>8, <2>9, <2>10, Zenon DEF ReadersOk
<1>23. rpc = "open" /\ m_blobOffsets = OffsetTable(cluster)
  BY <1>3, Zenon DEF OpenInv
<1>24. OpenInv'
  BY <1>1, <1>3, <1>9, <1>20, <1>21, <1>22, <1>23, Zenon DEF OpenInv
<1> QED
  BY <1>7, <1>24, Zenon DEF ReaderInv

\* get_buffer of a reader cuts what was asked for out of the blob.
LEMMA CutExact ==
  ASSUME NEW s, IsSeq(s), NEW o \in Nat, o <= Len(s), NEW z \in Nat
  PROVE  SubBuffer(s, o, Least(z, Len(s) - o)) = SubSeq(s, o + 1, Least(Len(s), o + z))
<1>1. PICK l \in Nat : l = Len(s)
  BY SeqFacts
<1>2. PICK m : m = Least(z, l - o)
  OBVIOUS
<1>3. PICK e : e = Least(l, o + z)
  OBVIOUS
<1>4. m \in Nat /\ e \in Nat /\ e = o + m /\ e <= l
  BY <1>1, <1>2, <1>3 DEF Least
<1>5. PICK a : a = SubBuffer(s, o, m)
  OBVIOUS
<1>6. a = [i \in 1 .. m |-> IF o + i <= l THEN s[o + i] ELSE Garbage]
  BY <1>1, <1>5, Zenon DEF SubBuffer
<1>7. a = [i \in 1 .. m |-> a[i]]
  BY <1>6
<1>8. IsSeq(a) /\ Len(a) = m
  BY <1>4, <1>7, FunctionSeq
<1>9. PICK b : b = SubSeq(s, o + 1, e)
  OBVIOUS
<1>10. o <= e /\ e - o = m
  BY <1>4
<1>11. IsSeq(b) /\ Len(b) = m /\ \A i \in 1 .. m : b[i] = s[o + i]
  <2>1. /\ IsSeq(SubSeq(s, o + 1, e)) /\ Len(SubSeq(s, o + 1, e)) = e - o
        /\ \A i \in 1 .. e - o : SubSeq(s, o + 1, e)[i] = s[o + i]
    <3>1. e <= Len(s)
      BY <1>1, <1>4, Zenon
    <3> QED
      BY <1>4, <1>10, <3>1, SubFacts
  <2> QED
    BY <1>9, <1>10, <2>1, Zenon
<1>12. ASSUME NEW i \in 1 .. m PROVE a[i] = b[i]
  <2>1. o + i <= l
    BY <1>1, <1>4
  <2> QED
    BY <1>6, <1>11, <2>1, Zenon
<1>13. a = b
  BY <1>8, <1>11, <1>12, SameSeq, Zenon
<1> QED
  BY <1>1, <1>2, <1>3, <1>5, <1>9, <1>13, Zenon

LEMMA GetBufferKeeps ==
  ASSUME WriterInv, ReaderInv, NEW t \in Threads, GetBuffer(t), UNCHANGED writerVars
  PROVE  ReaderInv'
<1>0. PICK q : q = req[t]
  OBVIOUS
<1>1. /\ q.pc = "locked" /\ Len(m_blobReaders) > q.n
      /\ m_readerAccessMutex' = NoThread
      /\ req' = [req EXCEPT ![t].pc = "done",
                            ![t].blob = SubBuffer(m_blobReaders[q.n + 1], q.offset, SizeBehind(q.n, q.offset, q.size))]
      /\ UNCHANGED <<m_blobOffsets, m_blobReaders, stream, rpc>>
  BY <1>0, Zenon DEF GetBuffer
<1>2. req[t].pc # "idle" /\ req[t].pc # "reading" /\ q.pc \in {"lock", "locked", "reading"}
      /\ req[t].pc \in {"locked", "reading"}
  BY <1>0, <1>1
<1>3. /\ RequestsInv /\ OpenInv /\ cluster \in Clusters /\ wpc = "written" /\ RequestOk(cluster, q)
      /\ cluster' = cluster /\ file' = file /\ wpc' = wpc
  BY <1>0, <1>2, InCallFacts, Zenon
<1>4. PICK answer : answer = SubBuffer(m_blobReaders[q.n + 1], q.offset, SizeBehind(q.n, q.offset, q.size))
  OBVIOUS
<1>5. PICK p : p = "done"
  OBVIOUS
<1>6. PICK r : r = RequestRecord(p, q.n, q.offset, q.size, answer)
  OBVIOUS
<1>7. IsRequest(r) /\ r.pc = p /\ r.n = q.n /\ r.offset = q.offset /\ r.size = q.size /\ r.blob = answer
  BY <1>6, RequestForm
<1>8. req' = SetRequest(req, t, r)
  <2>1. q = [pc |-> q.pc, n |-> q.n, offset |-> q.offset, size |-> q.size, blob |-> q.blob]
    BY <1>3, Zenon DEF RequestOk, IsRequest
  <2>2. r = [q EXCEPT !.pc = "done", !.blob = answer]
    <3>1. PICK a : a = [q EXCEPT !.pc = "done"]
      OBVIOUS
    <3>2. a = [pc |-> "done", n |-> q.n, offset |-> q.offset, size |-> q.size, blob |-> q.blob]
      BY <2>1, <3>1
    <3>3. [a EXCEPT !.blob = answer] = [pc |-> "done", n |-> q.n, offset |-> q.offset, size |-> q.size, blob |-> answer]
      BY <3>2
    <3>4. [q EXCEPT !.pc = "done", !.blob = answer] = [a EXCEPT !.blob = answer]
      BY <3>1
    <3> QED
      BY <1>5, <1>6, <3>3, <3>4, Zenon DEF RequestRecord
  <2>3. req = [u \in Threads |-> req[u]]
    BY <1>3, Zenon DEF RequestsInv
  <2>4. req' = [req EXCEPT ![t].pc = "done", ![t].blob = answer]
    BY <1>1, <1>4, Zenon
  <2>5. req' = [req EXCEPT ![t] = [req[t] EXCEPT !.pc = "done", !.blob = answer]]
    BY <2>3, <2>4
  <2> QED
    BY <1>0, <2>2, <2>5, Zenon DEF SetRequest
<1>9. p # "reading" /\ p \notin {"lock", "locked", "reading"} /\ p \notin {"locked", "reading"}
  BY <1>5
<1>10. AnswerExact(cluster, r)
  <2>1. PICK n : n = q.n
    OBVIOUS
  <2>2. PICK o : o = q.offset
    OBVIOUS
  <2>3. PICK z : z = q.size
    OBVIOUS
  <2>4. /\ n \in Nat /\ o \in Nat /\ z \in Nat /\ n < Len(cluster.sizes) /\ o <= cluster.sizes[n + 1]
    BY <1>2, <1>3, <2>1, <2>2, <2>3, Zenon DEF RequestOk
  <2>5. PICK s : s = BlobUnits(cluster, n + 1)
    OBVIOUS
  <2>6. n + 1 \in 1 .. Len(cluster.sizes)
    BY <1>3, <2>4, BlobPlace, Zenon
  <2>7. IsSeq(s) /\ Len(s) = cluster.sizes[n + 1]
    BY <1>3, <2>5, <2>6, BlobUnitFacts, Zenon
  <2>8. PICK b : b = Len(m_blobReaders)
    OBVIOUS
  <2>9. b \in Nat /\ ReadersOk(cluster, m_blobReaders, b)
    BY <1>3, <2>8, NextBlob, Zenon
  <2>10. n + 1 \in 1 .. b
    <3>1. b > n
      BY <1>1, <2>1, <2>8, Zenon
    <3> QED
      BY <2>4, <2>9, <3>1
  <2>11. m_blobReaders[n + 1] = s
    BY <2>5, <2>9, <2>10, Zenon DEF ReadersOk
  <2>12. getBlobSize(n) = Len(s)
    <3>1. m_blobOffsets = OffsetTable(cluster)
      BY <1>3, Zenon DEF OpenInv
    <3> QED
      BY <1>3, <2>4, <2>7, <3>1, TableRight, Zenon
  <2>13. answer = SubBuffer(s, o, Least(z, Len(s) - o))
    BY <1>4, <2>1, <2>2, <2>3, <2>11, <2>12, Zenon DEF SizeBehind
  <2>14. SubBuffer(s, o, Least(z, Len(s) - o)) = SubSeq(s, o + 1, Least(Len(s), o + z))
    <3>1. o <= Len(s)
      BY <2>4, <2>7, Zenon
    <3> QED
      BY <2>4, <2>7, <3>1, CutExact, Zenon
  <2>15. r.blob = SubSeq(s, o + 1, Least(Len(s), o + z))
    BY <1>7, <2>13, <2>14, Zenon
  <2>16. r.n = n /\ r.offset = o /\ r.size = z
    BY <1>7, <2>1, <2>2, <2>3, Zenon
  <2> QED
    BY <2>4, <2>5, <2>15, <2>16, Zenon DEF AnswerExact
<1>11. RequestOk(cluster, r)
  BY <1>3, <1>7, <1>9, <1>10, Zenon DEF RequestOk
<1>12. m_readerAccessMutex = t
  BY <1>2, <1>3, Zenon DEF RequestsInv
<1>13. r.pc \in {"locked", "reading"} <=> m_readerAccessMutex' = t
  BY <1>1, <1>7, <1>9, ReadersAssumption
<1>14. \A u \in Threads \ {t} : m_readerAccessMutex' = u <=> m_readerAccessMutex = u
  BY <1>1, <1>12, ReadersAssumption
<1>15. RequestsInv' /\ req'[t] = r /\ \A u \in Threads \ {t} : req'[u] = req[u]
  BY <1>3, <1>8, <1>11, <1>13, <1>14, RequestSet
<1>16. Reading' <=> Reading
  <2>1. req'[t].pc # "reading"
    BY <1>7, <1>9, <1>15, Zenon
  <2> QED
    BY <1>2, <1>15, <2>1, ReadingKept, Zenon
<1>17. OpenInv'
  BY <1>1, <1>3, <1>16, OpenKept, Zenon
<1> QED
  BY <1>15, <1>17, Zenon DEF ReaderInv

LEMMA InCallKeeps ==
  ASSUME WriterInv, ReaderInv, NEW t \in Threads, InCall(t), UNCHANGED writerVars
  PROVE  ReaderInv'
BY LockReaderKeeps, StartBlobKeeps, BlobDecodesKeeps, AddReaderKeeps, GetBufferKeeps, AnsweredKeeps, Zenon
   DEF InCall

LEMMA LoaderKeeps ==
  ASSUME WriterInv, ReaderInv, TableFits(cluster), Loader, UNCHANGED writerVars
  PROVE  ReaderInv' /\ VerdictInv'
<1>1. CASE OpenCluster
  <2>1. VerdictInv'
    BY <1>1 DEF OpenCluster, VerdictInv
  <2> QED
    BY <1>1, <2>1, OpenClusterKeeps, Zenon
<1>2. CASE OpenDecodes
  <2>1. VerdictInv'
    BY <1>2 DEF OpenDecodes, VerdictInv
  <2> QED
    BY <1>2, <2>1, OpenDecodesKeeps, Zenon
<1> QED
  BY <1>1, <1>2, FirstOffsetKeeps, OtherOffsetsKeeps, Zenon DEF Loader

-----------------------------------------------------------------------------
(* The invariant of both *)

\* The cluster is opened only when it is written.
LEMMA WorkerLeavesReader ==
  ASSUME WriterInv, ReaderInv, Worker, UNCHANGED readerVars
  PROVE  ReaderInv'
<1>1. wpc # "written" /\ cluster' = cluster
  BY DEF Worker, WriteOffset, WriteBlob, NextProvider, WriteEnds, GetData, Run, RunOn, RunReturns
<1>2. UNCHANGED <<m_blobOffsets, m_blobReaders, m_readerAccessMutex, stream, rpc, req>>
  BY DEF readerVars
<1>3. RequestsInv /\ OpeningInv /\ rpc = "closed"
  BY <1>1 DEF ReaderInv, OpeningInv, OpenInv
<1>4. RequestsInv' /\ m_blobReaders' = <<>> /\ \A t \in Threads : req'[t].pc = "idle"
  BY <1>1, <1>2, <1>3, OpeningKept
<1>5. rpc' = "closed"
  BY <1>2, <1>3
<1>6. OpeningInv'
  BY <1>4, <1>5, Zenon DEF OpeningInv
<1> QED
  BY <1>4, <1>6, Zenon DEF ReaderInv

LEMMA WriterStays == ASSUME WriterInv, UNCHANGED writerVars PROVE WriterInv'
<1>1. /\ cluster' = cluster /\ given' = given /\ wpc' = wpc /\ step' = step /\ next_in' = next_in
      /\ next_out' = next_out /\ avail_out' = avail_out /\ total_out' = total_out
      /\ ret_data' = ret_data /\ codec' = codec /\ file' = file
  BY DEF writerVars
<1>2. GivenNow' = GivenNow
  BY <1>1, Zenon DEF GivenNow
<1>3. WrittenInv => WrittenInv'
  BY <1>1, Zenon DEF WrittenInv, Written
<1>4. RawInv => RawInv'
  BY <1>1, <1>2, Zenon DEF RawInv
<1>5. CodecInv => CodecInv'
  BY <1>1, <1>2, Zenon DEF CodecInv
<1> QED
  BY <1>1, <1>3, <1>4, <1>5, Zenon DEF WriterInv

LEMMA ReaderStays == ASSUME ReaderInv, UNCHANGED vars PROVE ReaderInv'
<1>1. /\ cluster' = cluster /\ wpc' = wpc /\ file' = file /\ m_blobOffsets' = m_blobOffsets
      /\ m_blobReaders' = m_blobReaders /\ m_readerAccessMutex' = m_readerAccessMutex
      /\ stream' = stream /\ rpc' = rpc /\ req' = req
  BY DEF vars, writerVars, readerVars
<1>2. RequestsInv => RequestsInv'
  BY <1>1, Zenon DEF RequestsInv
<1>3. OpeningInv => OpeningInv'
  BY <1>1, Zenon DEF OpeningInv
<1>4. Reading' <=> Reading
  BY <1>1, Zenon DEF Reading
<1>5. OpenInv => OpenInv'
  BY <1>1, <1>4, OpenKept, Zenon
<1> QED
  BY <1>2, <1>3, <1>5, Zenon DEF ReaderInv

LEMMA ReaderStarts == ASSUME WriterInit, ReaderInit PROVE ReaderInv
<1>1. \A t \in Threads : req[t] = NoRequest
  BY DEF ReaderInit
<1>2. RequestOk(cluster, NoRequest) /\ NoRequest.pc = "idle"
  BY DEF RequestOk, NoRequest, IsRequest
<1>3. req = [t \in Threads |-> req[t]]
  BY DEF ReaderInit
<1>4. \A t \in Threads : m_readerAccessMutex # t
  BY ReadersAssumption DEF ReaderInit
<1>5. "idle" \notin {"locked", "reading"}
  OBVIOUS
<1>6. RequestsInv
  BY <1>1, <1>2, <1>3, <1>4, <1>5, Zenon DEF RequestsInv
<1>7. OpeningInv
  BY <1>1, <1>2, Zenon DEF OpeningInv, ReaderInit
<1> QED
  BY <1>6, <1>7, Zenon DEF ReaderInv

StreamInv == WriterInv /\ (TableFits(cluster) => ReaderInv /\ VerdictInv)

LEMMA StreamStarts == Init => StreamInv
<1> SUFFICES ASSUME Init PROVE StreamInv
  OBVIOUS
<1>1. VerdictInv
  BY DEF Init, ReaderInit, VerdictInv
<1> QED
  BY <1>1, WriterStarts, ReaderStarts, Zenon DEF Init, StreamInv

\* Only the loader decides about a cluster.
LEMMA VerdictStays == ASSUME VerdictInv, cluster' = cluster, rpc' = rpc PROVE VerdictInv'
BY Zenon DEF VerdictInv

LEMMA StreamSteps == StreamInv /\ [Next]_vars => StreamInv'
<1> SUFFICES ASSUME StreamInv, [Next]_vars PROVE StreamInv'
  OBVIOUS
<1>1. WriterInv /\ (TableFits(cluster) => ReaderInv /\ VerdictInv)
  BY DEF StreamInv
<1>2. CASE Worker /\ UNCHANGED readerVars
  <2>1. cluster' = cluster
    BY <1>2 DEF Worker, WriteOffset, WriteBlob, NextProvider, WriteEnds, GetData, Run, RunOn, RunReturns
  <2>2. rpc' = rpc
    BY <1>2 DEF readerVars
  <2> QED
    BY <1>1, <1>2, <2>1, <2>2, WorkerKeeps, WorkerLeavesReader, VerdictStays, Zenon DEF StreamInv
<1>3. CASE Loader /\ UNCHANGED writerVars
  <2>1. cluster' = cluster
    BY <1>3 DEF writerVars
  <2> QED
    BY <1>1, <1>3, <2>1, WriterStays, LoaderKeeps, Zenon DEF StreamInv
<1>4. ASSUME NEW t \in Threads, (Call(t) \/ InCall(t)) /\ UNCHANGED writerVars PROVE StreamInv'
  <2>1. cluster' = cluster
    BY <1>4 DEF writerVars
  <2>2. rpc' = rpc
    BY <1>4 DEF Call, GetBlob, InCall, LockReader, StartBlob, BlobDecodes, AddReader, GetBuffer, Answered
  <2> QED
    BY <1>1, <1>4, <2>1, <2>2, WriterStays, CallKeeps, InCallKeeps, VerdictStays, Zenon DEF StreamInv
<1>5. CASE UNCHANGED vars
  <2>1. UNCHANGED writerVars
    BY <1>5 DEF vars
  <2>2. cluster' = cluster /\ rpc' = rpc
    BY <1>5 DEF vars, writerVars, readerVars
  <2> QED
    BY <1>1, <1>5, <2>1, <2>2, WriterStays, ReaderStays, VerdictStays, Zenon DEF StreamInv
<1>6. CASE Finished
  BY <1>5, <1>6 DEF Finished
<1> QED
  BY <1>2, <1>3, <1>4, <1>5, <1>6 DEF Next

\* What the worker of the Creator puts into the file for a cluster (the
\* clusterInfo byte, the offsets and the blobs, through Compressor::feed and its
\* growing buffer or directly) is all of the content, once and in order,
\* whatever the cluster, the sizes of the buffers, and however much the codec
\* takes and delivers in each call.
THEOREM WriterComplete == Spec => []OutputComplete
<1>1. StreamInv => OutputComplete
  BY WrittenExact DEF StreamInv
<1> QED
  BY <1>1, StreamStarts, StreamSteps, PTL DEF Spec

LEMMA AnswersExact == StreamInv => BlobExact
<1> SUFFICES ASSUME StreamInv, TableFits(cluster) PROVE BlobExact
  BY Zenon DEF BlobExact
<1>1. ReaderInv /\ VerdictInv
  BY DEF StreamInv
<1>2. ASSUME NEW t \in Threads, req[t].pc = "done" PROVE AnswerExact(cluster, req[t])
  BY <1>1, <1>2, Zenon DEF ReaderInv, RequestsInv, RequestOk
<1>3. (rpc = "threw" => ~ OffsetsFit(cluster)) /\ (rpc = "open" => OffsetsFit(cluster))
  BY <1>1 DEF VerdictInv
<1> QED
  BY <1>2, <1>3, Zenon DEF BlobExact, AnswerExact

\* Whatever thread asks Cluster::getBlob for whatever part of whatever blob, in
\* whatever order and however many at a time, gets exactly the bytes that
\* addContent was given for it: for every cluster of fewer than 2^30 blobs, every
\* size of the chunks that the decoder reads from the file, and every way in
\* which the codecs cut the stream.  A cluster that addContent did not make
\* extended although the end of a blob does not fit an offset is never opened:
\* the assertion in read_header fails.  Every other one is not refused.
THEOREM ReadBack == Spec => []BlobExact
BY AnswersExact, StreamStarts, StreamSteps, PTL DEF Spec
=============================================================================
