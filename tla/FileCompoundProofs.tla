-------------------------- MODULE FileCompoundProofs --------------------------
(***************************************************************************)
(* For every set of files: what is read from a split archive is what was   *)
(* asked for, and a location handed out for direct access is right.        *)
(***************************************************************************)
EXTENDS FileCompound, WellFoundedInduction, SequenceTheorems, TLAPS

LEMMA FirstLeast ==
  ASSUME NEW S \in SUBSET Nat, S # {}
  PROVE  First(S) \in S /\ \A j \in S : First(S) <= j
<1>1. PICK n \in S : \A m \in S : ~ (<<m, n>> \in OpToRel(<, Nat))
  BY NatLessThanWellFounded, WFMin
<1>2. \A m \in S : ~ (m < n)
  BY <1>1 DEF OpToRel
<1>3. \A m \in S : n <= m
  BY <1>2
<1>4. QED  BY <1>3 DEF First

\* What MapInv says of each range.
Laid ==
  /\ Len(parts) \in Nat
  /\ Len(parts) <= Len(disk.size)
  /\ fsize \in Nat
  /\ Len(parts) = 0 => fsize = 0
  /\ \A i \in 1 .. Len(parts) :
       /\ parts[i].min \in Nat /\ parts[i].max \in Nat
       /\ parts[i].min < parts[i].max
       /\ parts[i].file = i
       /\ i \in 1 .. Len(disk.size)
       /\ disk.start[i] = parts[i].min
       /\ disk.size[i] = parts[i].max - parts[i].min
       /\ i = 1 => parts[i].min = 0
       /\ i < Len(parts) => parts[i + 1].min = parts[i].max
       /\ i = Len(parts) => parts[i].max = fsize

LEMMA DiskFacts ==
  ASSUME disk \in Disks, NEW N \in Nat, N = Len(disk.size)
  PROVE  /\ disk.start[1] = 0
         /\ \A i \in 1 .. N : disk.start[i + 1] = disk.start[i] + disk.size[i]
         /\ \A i \in 1 .. N : disk.size[i] \in Nat \ {0}
         /\ \A i \in 1 .. N + 1 : disk.start[i] \in Nat
BY SMTT(30), DiskAssumption

LEMMA MapLaid == MapInv => Laid
<1> SUFFICES ASSUME MapInv PROVE Laid
  OBVIOUS
<1>d. disk \in Disks
  BY DEF MapInv
<1>1. PICK n \in 0 .. Len(disk.size) :
        /\ parts = [i \in 1 .. n |-> [min |-> disk.start[i], max |-> disk.start[i + 1], file |-> i]]
        /\ fsize = disk.start[n + 1]
  BY DEF MapInv
<1>2. PICK N \in Nat : N = Len(disk.size)
  BY <1>d, DiskAssumption
<1>3. /\ disk.start[1] = 0
      /\ \A i \in 1 .. N : disk.start[i + 1] = disk.start[i] + disk.size[i]
      /\ \A i \in 1 .. N : disk.size[i] \in Nat \ {0}
      /\ \A i \in 1 .. N + 1 : disk.start[i] \in Nat
  BY SMTT(30), <1>d, <1>2, DiskAssumption
<1>4. n \in Nat /\ n <= N
  BY <1>2
<1>5. Len(parts) = n
  BY <1>1, <1>4
<1>6. \A i \in 1 .. n : /\ parts[i].min = disk.start[i]
                        /\ parts[i].max = disk.start[i + 1]
                        /\ parts[i].file = i
  BY <1>1
<1>7. \A i \in 1 .. n : i \in 1 .. N /\ i + 1 \in 1 .. N + 1 /\ i \in 1 .. N + 1
  BY <1>4
<1>8. fsize \in Nat /\ (n = 0 => fsize = 0)
  BY <1>1, <1>3, <1>4
<1>9. ASSUME NEW i \in 1 .. n
      PROVE  /\ parts[i].min \in Nat /\ parts[i].max \in Nat
             /\ parts[i].min < parts[i].max
             /\ disk.size[i] = parts[i].max - parts[i].min
             /\ i = 1 => parts[i].min = 0
             /\ i < n => parts[i + 1].min = parts[i].max
             /\ i = n => parts[i].max = fsize
  <2>1. disk.start[i] \in Nat /\ disk.start[i + 1] \in Nat /\ disk.size[i] \in Nat \ {0}
        /\ disk.start[i + 1] = disk.start[i] + disk.size[i]
    BY <1>3, <1>7
  <2>2. i < n => parts[i + 1].min = disk.start[i + 1]
    BY <1>6, <1>4
  <2>3. i = n => fsize = disk.start[i + 1]
    BY <1>1
  <2>4. /\ parts[i].min = disk.start[i]
        /\ parts[i].max = disk.start[i + 1]
        /\ i = 1 => disk.start[i] = 0
    BY <1>6, <1>3
  <2>5. QED  BY <2>1, <2>2, <2>3, <2>4
<1>10. QED  BY <1>2, <1>4, <1>5, <1>6, <1>8, <1>9 DEF Laid

\* equal_range finds the part where the range begins and the part behind it.
LEMMA Located ==
  ASSUME Laid, NEW o \in Nat, NEW s \in Nat, o < fsize,
         NEW f, f = LowerBound(o, s), NEW e, e = UpperBound(o, s)
  PROVE  /\ f \in 1 .. Len(parts)
         /\ parts[f].min <= o /\ o < parts[f].max
         /\ e \in f + 1 .. Len(parts) + 1
         /\ e <= Len(parts) => o + s <= parts[e].min
         /\ \A j \in 1 .. Len(parts) : j < e => parts[j].min <= o \/ parts[j].min < o + s
<1>n. PICK n \in Nat : n = Len(parts)
  BY DEF Laid
<1> DEFINE before(i) == parts[i].min < o /\ parts[i].max <= o
           behind(i) == o < parts[i].min /\ o + s <= parts[i].min
           L == {i \in 1 .. n : ~ before(i)} \cup {n + 1}
           U == {i \in 1 .. n : behind(i)} \cup {n + 1}
<1>1. f = First(L) /\ e = First(U)
  BY <1>n DEF LowerBound, UpperBound, End, less, Query
<1>2. L \in SUBSET Nat /\ L # {} /\ U \in SUBSET Nat /\ U # {}
  BY <1>n
<1> HIDE DEF L, U
<1>3. f \in L /\ (\A j \in L : f <= j) /\ e \in U /\ (\A j \in U : e <= j)
  BY <1>1, <1>2, FirstLeast
<1> USE DEF L, U
<1>4. \A i \in 1 .. n : /\ parts[i].min \in Nat /\ parts[i].max \in Nat
                        /\ parts[i].min < parts[i].max
                        /\ i = 1 => parts[i].min = 0
                        /\ i < n => parts[i + 1].min = parts[i].max
                        /\ i = n => parts[i].max = fsize
  BY <1>n DEF Laid
<1>5. n > 0 /\ fsize \in Nat
  BY <1>n DEF Laid
<1>6. f \in 1 .. n
  <2>1. parts[n].max = fsize /\ parts[n].max \in Nat
    BY <1>4, <1>5
  <2>2. ~ before(n)
    BY <2>1, <1>5
  <2>3. QED  BY <2>2, <1>3, <1>5
<1>7. \A j \in 1 .. n : j < f => before(j)
  BY <1>3, <1>6
<1>8. parts[f].min <= o
  <2>1. CASE f = 1  BY <2>1, <1>4, <1>5
  <2>2. CASE f > 1
    <3>1. f - 1 \in 1 .. n /\ f - 1 < f /\ f - 1 < n /\ (f - 1) + 1 = f
      BY <2>2, <1>6
    <3>2. before(f - 1) /\ parts[(f - 1) + 1].min = parts[f - 1].max
      BY <3>1, <1>7, <1>4
    <3>3. QED  BY <3>1, <3>2
  <2>3. QED  BY <2>1, <2>2, <1>6
<1>9. o < parts[f].max
  <2>1. ~ before(f)
    BY <1>3, <1>6
  <2>2. QED  BY <2>1, <1>4, <1>6, <1>8
<1>10. e \in 1 .. n + 1 /\ (e <= n => behind(e)) /\ \A j \in 1 .. n : j < e => ~ behind(j)
  BY <1>3
<1>11. e > f
  <2>1. SUFFICES ASSUME e <= f PROVE FALSE
    BY <1>10, <1>6
  <2>2. e \in 1 .. n /\ behind(e) /\ parts[e].min \in Nat
    BY <2>1, <1>10, <1>6, <1>4
  <2>3. CASE e = f  BY <2>2, <2>3, <1>8
  <2>4. CASE e < f  BY <2>2, <2>4, <1>7
  <2>5. QED  BY <2>1, <2>3, <2>4, <1>6, <1>10
<1>12. \A j \in 1 .. n : j < e => parts[j].min <= o \/ parts[j].min < o + s
  BY <1>10, <1>4
<1>13. QED  BY <1>n, <1>6, <1>8, <1>9, <1>10, <1>11, <1>12

-----------------------------------------------------------------------------
(* What the reads of one part deliver *)

\* A part's byte is the archive's byte at its range.
LEMMA PartByte ==
  ASSUME Laid, NEW i \in 1 .. Len(parts), NEW x \in Nat,
         parts[i].min <= x, x < parts[i].max
  PROVE  /\ x - parts[i].min \in Nat
         /\ IsByte(<<parts[i].file, x - parts[i].min>>, x)
<1>1. /\ parts[i].min \in Nat /\ parts[i].max \in Nat /\ parts[i].file = i
      /\ i \in 1 .. Len(disk.size)
      /\ disk.start[i] = parts[i].min /\ disk.size[i] = parts[i].max - parts[i].min
  BY DEF Laid
<1>2. x - parts[i].min \in 0 .. disk.size[i] - 1
  BY <1>1
<1>3. x = disk.start[i] + (x - parts[i].min)
  BY <1>1
<1>4. QED  BY <1>1, <1>2, <1>3 DEF IsByte

LEMMA BytesOfPart ==
  ASSUME Laid, NEW i \in 1 .. Len(parts), NEW o \in Nat, NEW n \in Nat,
         parts[i].min <= o, o + n <= parts[i].max,
         NEW b, b = Bytes(parts[i].file, o - parts[i].min, n)
  PROVE  /\ b \in Seq((1 .. Len(disk.size)) \X Nat)
         /\ Len(b) = n
         /\ \A j \in 1 .. n : IsByte(b[j], o + j - 1)
<1>m. PICK m \in Nat : m = parts[i].min
  BY DEF Laid
<1>f. PICK f \in 1 .. Len(disk.size) : f = parts[i].file
  BY DEF Laid
<1>1. b = [j \in 1 .. n |-> <<f, (o - m) + j - 1>>]
  BY <1>m, <1>f DEF Bytes
<1>M. PICK M \in Nat : M = parts[i].max
  BY DEF Laid
<1>c. m \in Nat /\ M \in Nat /\ o \in Nat /\ n \in Nat /\ m <= o /\ o + n <= M
  BY <1>m, <1>M
<1>2. \A j \in 1 .. n : o + j - 1 \in Nat /\ m <= o + j - 1 /\ o + j - 1 < parts[i].max
                        /\ (o - m) + j - 1 = (o + j - 1) - m
  <2>1. \A j \in 1 .. n : o + j - 1 \in Nat /\ m <= o + j - 1 /\ o + j - 1 < M
                          /\ (o - m) + j - 1 = (o + j - 1) - m
    BY ONLY <1>c
  <2>2. QED  BY ONLY <2>1, <1>M
<1>3. \A j \in 1 .. n : (o - m) + j - 1 \in Nat
  BY ONLY <1>c
<1>4. b \in [1 .. n -> (1 .. Len(disk.size)) \X Nat]
  <2>1. \A j \in 1 .. n : <<f, (o - m) + j - 1>> \in (1 .. Len(disk.size)) \X Nat
    BY ONLY <1>3, <1>f
  <2>2. QED  BY ONLY <2>1, <1>1
<1>5. b \in Seq((1 .. Len(disk.size)) \X Nat) /\ Len(b) = n
  BY <1>4
<1>6. ASSUME NEW j \in 1 .. n PROVE IsByte(b[j], o + j - 1)
  <2>1. b[j] = <<f, (o + j - 1) - m>>
    BY <1>1, <1>2
  <2>2. PICK x \in Nat : x = o + j - 1
    BY <1>2
  <2>3. IsByte(<<parts[i].file, x - parts[i].min>>, x)
    BY <1>2, <1>m, <2>2, PartByte
  <2>4. QED  BY <2>1, <2>2, <2>3, <1>m, <1>f
<1>7. QED  BY <1>5, <1>6

\* The mapping begins at a page, the buffer at the offset.
LEMMA MappedBytes ==
  ASSUME NEW f, NEW o \in Nat, NEW n \in Nat
  PROVE  makeMmappedBuffer(f, o, n) = Bytes(f, o, n)
<1>1. PICK a \in Nat : a = o % PageSize /\ a <= o
  BY BoundAssumption
<1>2. makeMmappedBuffer(f, o, n) = SubSeq(Bytes(f, o - a, n + a), a + 1, a + n)
  <2>1. o - (o - a) = a
    BY <1>1
  <2>2. QED  BY <1>1, <2>1 DEF makeMmappedBuffer
<1>3. SubSeq(Bytes(f, o - a, n + a), a + 1, a + n) = [j \in 1 .. n |-> <<f, o + j - 1>>]
  <2>1. SubSeq(Bytes(f, o - a, n + a), a + 1, a + n)
          = [j \in 1 .. n |-> Bytes(f, o - a, n + a)[j + (a + 1) - 1]]
    <3>1. PICK b : b = Bytes(f, o - a, n + a)
      OBVIOUS
    <3>2. \A i \in 1 .. n + a : (o - a) + i - 1 \in Int
      BY <1>1
    <3>3. b \in [1 .. n + a -> {f} \X Int]
      BY <3>1, <3>2 DEF Bytes
    <3>4. b \in Seq({f} \X Int)
      BY <3>3, <1>1
    <3>5. PICK m \in Nat, k \in Nat : m = a + 1 /\ k = a + n
      BY <1>1
    <3>6. SubSeq(b, m, k) = [j \in 1 .. 1 + k - m |-> b[j + m - 1]]
      BY <3>4, <3>5, SubSeqProperties
    <3>7. 1 + k - m = n
      BY <3>5, <1>1
    <3>8. QED  BY <3>1, <3>5, <3>6, <3>7
  <2>2. ASSUME NEW j \in 1 .. n
        PROVE  Bytes(f, o - a, n + a)[j + (a + 1) - 1] = <<f, o + j - 1>>
    <3>1. j + (a + 1) - 1 = j + a /\ j + a \in 1 .. n + a
      BY <1>1
    <3>2. Bytes(f, o - a, n + a)[j + a] = <<f, (o - a) + (j + a) - 1>>
      BY <3>1 DEF Bytes
    <3>3. (o - a) + (j + a) - 1 = o + j - 1
      BY <1>1
    <3>4. QED  BY <3>1, <3>2, <3>3
  <2>3. QED  BY <2>1, <2>2
<1>4. QED  BY <1>2, <1>3 DEF Bytes

-----------------------------------------------------------------------------
(* The invariant is kept: opening *)

LEMMA InitInv == Init => FInv
<1> SUFFICES ASSUME Init PROVE FInv
  OBVIOUS
<1>1. MapInv
  <2>1. disk \in Disks /\ parts = <<>> /\ fsize = 0 /\ pc = "closed"
    BY DEF Init
  <2>2. Len(disk.size) \in Nat /\ disk.start[1] = 0
    BY <2>1, DiskAssumption
  <2>3. 0 \in 0 .. Len(disk.size) /\ fsize = disk.start[0 + 1]
    BY <2>1, <2>2
  <2>4. parts = [i \in 1 .. 0 |-> [min |-> disk.start[i], max |-> disk.start[i + 1], file |-> i]]
    BY <2>1
  <2>5. QED  BY <2>1, <2>3, <2>4 DEF MapInv
<1>2. RangeInv
  BY DEF Init, RangeInv, NoRange
<1>3. LoopInv /\ ReadExact /\ DirectAccessExact
  BY DEF Init, LoopInv, ReadExact, DirectAccessExact
<1>4. QED  BY <1>1, <1>2, <1>3 DEF FInv

\* A file opened after the others takes the range behind them.
LEMMA AddPartStep ==
  ASSUME MapInv, NEW n \in Nat, n = Len(parts), n < Len(disk.size), AddPart(n + 1), disk' = disk
  PROVE  /\ parts' = [i \in 1 .. n + 1 |->
                        [min |-> disk.start[i], max |-> disk.start[i + 1], file |-> i]]
         /\ fsize' = disk.start[n + 2]
<1> DEFINE R(i) == [min |-> disk.start[i], max |-> disk.start[i + 1], file |-> i]
<1>l. Laid
  BY MapLaid
<1>a. disk \in Disks
  BY DEF MapInv
<1>b. PICK N \in Nat : N = Len(disk.size)
  BY <1>a, DiskAssumption
<1>d. /\ N = Len(disk.size)
      /\ \A i \in 1 .. N : disk.start[i + 1] = disk.start[i] + disk.size[i]
      /\ \A i \in 1 .. N : disk.size[i] \in Nat \ {0}
  BY <1>a, <1>b, DiskFacts
<1>1. parts = [i \in 1 .. n |-> R(i)] /\ fsize = disk.start[n + 1]
  BY DEF MapInv
<1>2. fsize \in Nat
  BY <1>l DEF Laid
<1>3. n + 1 \in 1 .. N
  BY <1>d
<1>4. fsize + disk.size[n + 1] = disk.start[n + 2]
  BY <1>1, <1>d, <1>3
<1>5. PICK r : r = R(n + 1)
  OBVIOUS
<1>6. r = [min |-> fsize, max |-> fsize + disk.size[n + 1], file |-> n + 1]
  BY <1>1, <1>4, <1>5
<1>7. \A i \in 1 .. n : less(parts[i], r)
  <2>1. SUFFICES ASSUME NEW i \in 1 .. n PROVE less(parts[i], r)
    OBVIOUS
  <2>2. parts[i].min \in Nat /\ parts[i].max \in Nat /\ parts[i].min < parts[i].max
    BY <1>l DEF Laid
  <2>3. parts[i].max <= fsize
    <3>1. SUFFICES ASSUME parts[i].max > fsize PROVE FALSE
      BY <2>2, <1>2
    <3> DEFINE T == {k \in 1 .. n : parts[k].max > fsize}
    <3>2. T \in SUBSET Nat /\ T # {}
      BY <3>1
    <3>3. \A k \in T : n - k \in Nat
      OBVIOUS
    <3> DEFINE D == {n - k : k \in T}
    <3>4. D \in SUBSET Nat /\ D # {}
      BY <3>2, <3>3
    <3>5. First(D) \in D /\ \A j \in D : First(D) <= j
      <4> HIDE DEF D
      <4> QED  BY <3>4, FirstLeast
    <3>6. PICK k \in T : First(D) = n - k
      BY <3>5
    <3>7. \A j \in T : j <= k
      <4>1. \A j \in T : n - j \in D
        OBVIOUS
      <4> HIDE DEF D
      <4>2. SUFFICES ASSUME NEW j \in T PROVE j <= k
        OBVIOUS
      <4>3. n - k <= n - j
        BY <4>1, <3>5, <3>6
      <4>4. QED  BY <4>3
    <3>8. CASE k = n
      BY <3>8, <1>l, <1>2 DEF Laid
    <3>9. CASE k < n
      <4>1. /\ k + 1 \in 1 .. n
            /\ parts[k + 1].min = parts[k].max /\ parts[k].max > fsize
            /\ parts[k + 1].min < parts[k + 1].max
            /\ parts[k + 1].min \in Nat /\ parts[k + 1].max \in Nat
        BY <3>9, <1>l DEF Laid
      <4>2. k + 1 \in T
        BY <4>1, <1>2
      <4>3. QED  BY <4>2, <3>7
    <3>10. QED  BY <3>8, <3>9, <3>6
  <2>4. QED  BY <2>2, <2>3, <1>2, <1>6 DEF less
<1>8. parts' = Append(parts, r)
  <2>1. ~ \E i \in 1 .. Len(parts) : ~ less(parts[i], r) /\ ~ less(r, parts[i])
    BY <1>7
  <2>2. QED  BY <2>1, <1>6 DEF AddPart, Emplace
<1>9. Append(parts, r) = [i \in 1 .. n + 1 |-> R(i)]
  <2>1. Len(parts) = n
    BY <1>1
  <2>2. Append(parts, r) = [i \in 1 .. n + 1 |-> IF i <= n THEN parts[i] ELSE r]
    BY <1>1, <2>1
  <2>3. \A i \in 1 .. n + 1 : (IF i <= n THEN parts[i] ELSE r) = R(i)
    BY <1>1, <1>5
  <2>4. QED  BY <2>2, <2>3
<1>10. QED  BY <1>8, <1>9, <1>4, <1>1 DEF AddPart

LEMMA OpenStep == ASSUME FInv, Open PROVE FInv'
<1>d. disk \in Disks
  BY DEF FInv, MapInv
<1>N. PICK N \in Nat : N = Len(disk.size)
  BY <1>d, DiskAssumption
<1>n. PICK n \in 0 .. Len(disk.size) :
        /\ parts = [i \in 1 .. n |-> [min |-> disk.start[i], max |-> disk.start[i + 1], file |-> i]]
        /\ fsize = disk.start[n + 1]
        /\ pc = "closed" => n = 0
        /\ pc \notin {"closed", "parts", "failed"} => n > 0
  BY DEF FInv, MapInv
<1>l. n \in Nat /\ n <= N /\ Len(parts) = n
  BY <1>n, <1>N
<1>u. UNCHANGED <<disk, reader, req>>
  BY DEF Open, OpenWhole, OpenParts, OpenPart, LastPart, call
<1>p. pc' \in {"parts", "failed", "opened"}
  BY DEF Open, OpenWhole, OpenParts, OpenPart, LastPart
<1>1. MapInv'
  <2>1. CASE \E m \in Nat : /\ m = n + 1 /\ m <= N
                            /\ parts' = [i \in 1 .. m |-> [min |-> disk.start[i],
                                                          max |-> disk.start[i + 1], file |-> i]]
                            /\ fsize' = disk.start[m + 1]
    <3>1. PICK m \in Nat : /\ m = n + 1 /\ m <= N
                           /\ parts' = [i \in 1 .. m |-> [min |-> disk.start[i],
                                                         max |-> disk.start[i + 1], file |-> i]]
                           /\ fsize' = disk.start[m + 1]
      BY <2>1
    <3>2. m \in 0 .. Len(disk.size) /\ m > 0
      BY <3>1, <1>N, <1>l
    <3>3. QED  BY <3>1, <3>2, <1>u, <1>p, <1>d DEF MapInv
  <2>2. CASE OpenWhole
    <3>1. n = 0 /\ N = 1 /\ AddPart(n + 1) /\ n < Len(disk.size)
      BY <2>2, <1>n, <1>N, <1>d, DiskAssumption DEF OpenWhole
    <3>2. /\ parts' = [i \in 1 .. n + 1 |->
                         [min |-> disk.start[i], max |-> disk.start[i + 1], file |-> i]]
          /\ fsize' = disk.start[n + 2]
      BY <3>1, <1>u, <1>l, <1>N, AddPartStep DEF FInv
    <3>3. QED  BY <3>1, <3>2, <2>1
  <2>3. CASE OpenPart
    <3>1. n < N /\ AddPart(n + 1)
      BY <2>3, <1>l, <1>N, BoundAssumption DEF OpenPart, Minimum
    <3>2. /\ parts' = [i \in 1 .. n + 1 |->
                         [min |-> disk.start[i], max |-> disk.start[i + 1], file |-> i]]
          /\ fsize' = disk.start[n + 2]
      BY <3>1, <1>u, <1>l, <1>N, AddPartStep DEF FInv
    <3>3. n + 1 \in Nat /\ n + 1 <= N /\ (n + 1) + 1 = n + 2
      BY <3>1, <1>l
    <3>4. QED  BY <3>2, <3>3, <2>1
  <2>4. CASE OpenParts
    <3>1. parts' = parts /\ n = 0 /\ pc' = "parts" /\ fsize' = 0
      BY <2>4, <1>n DEF OpenParts
    <3>2. disk.start[n + 1] = 0
      BY <1>d, <3>1, DiskAssumption
    <3>3. QED  BY <3>1, <3>2, <1>n, <1>u, <1>d DEF MapInv
  <2>5. CASE LastPart
    <3>1. parts' = parts /\ fsize' = fsize /\ (pc' = "opened" => parts # <<>>)
      BY <2>5 DEF LastPart
    <3>2. pc' = "opened" => n > 0
      BY <3>1, <1>l, <1>n
    <3>3. QED  BY <3>1, <3>2, <1>n, <1>u, <1>p, <1>d DEF MapInv
  <2>6. QED  BY <2>2, <2>3, <2>4, <2>5 DEF Open
<1>2. RangeInv'
  BY <1>u, <1>p DEF FInv, RangeInv
<1>3. LoopInv' /\ ReadExact' /\ DirectAccessExact'
  BY <1>p DEF LoopInv, ReadExact, DirectAccessExact
<1>4. QED  BY <1>1, <1>2, <1>3 DEF FInv

\* Once the archive is open its map stays.
LEMMA MapStays ==
  ASSUME FInv, pc \notin {"closed", "parts", "failed"}, UNCHANGED <<disk, parts, fsize>>,
         pc' # "closed"
  PROVE  MapInv' /\ Laid /\ Len(parts) > 0
<1>1. PICK n \in 0 .. Len(disk.size) :
        /\ parts = [i \in 1 .. n |-> [min |-> disk.start[i], max |-> disk.start[i + 1], file |-> i]]
        /\ fsize = disk.start[n + 1]
        /\ n > 0
  BY DEF FInv, MapInv
<1>2. MapInv'
  BY <1>1 DEF FInv, MapInv
<1>3. Laid
  BY MapLaid DEF FInv
<1>4. QED  BY <1>1, <1>2, <1>3

LEMMA ReaderStep == ASSUME FInv, NEW o \in 0 .. fsize, NEW s \in 0 .. fsize,
                           MakeReader(o, s) \/ SubReader(o, s)
                    PROVE  FInv'
<1>1. /\ pc \in {"opened", "idle"} /\ pc' = "idle" /\ UNCHANGED <<disk, parts, fsize, req>>
  BY DEF MakeReader, SubReader, call, FInv
<1>2. MapInv' /\ Laid
  BY <1>1, MapStays
<1>3. fsize \in Nat /\ o \in Nat /\ s \in Nat
  BY <1>2 DEF Laid
<1>4. reader' \in [offset : Nat, size : Nat] /\ reader'.offset + reader'.size <= fsize
  <2>1. CASE MakeReader(o, s)
    <3>1. o + s <= fsize
      BY <2>1, <1>3 DEF MakeReader
    <3>2. QED  BY <2>1, <3>1, <1>3 DEF MakeReader
  <2>2. CASE SubReader(o, s)
    <3>1. /\ reader.offset \in Nat /\ reader.size \in Nat
          /\ reader.offset + reader.size <= fsize /\ o + s <= reader.size
      BY <2>2 DEF SubReader, FInv, RangeInv
    <3>2. (reader.offset + o) + s <= fsize /\ reader.offset + o \in Nat
      BY <3>1, <1>3
    <3>3. QED  BY <2>2, <3>2, <1>3 DEF SubReader
  <2>3. QED  BY <2>1, <2>2
<1>5. RangeInv'
  BY <1>1, <1>4 DEF RangeInv, FInv
<1>6. LoopInv' /\ ReadExact' /\ DirectAccessExact'
  BY <1>1 DEF LoopInv, ReadExact, DirectAccessExact
<1>7. QED  BY <1>2, <1>5, <1>6 DEF FInv

-----------------------------------------------------------------------------
(* The invariant is kept: reading *)

LEMMA ReaderInFile ==
  ASSUME FInv, pc \notin {"closed", "parts", "failed", "opened"},
         NEW o \in Nat, NEW s \in Nat, o + s <= reader.size
  PROVE  /\ reader.offset \in Nat /\ reader.size \in Nat
         /\ reader.offset + o \in Nat
         /\ (reader.offset + o) + s <= fsize
<1>1. fsize \in Nat
  BY MapLaid DEF FInv, Laid
<1>2. /\ reader.offset \in Nat /\ reader.size \in Nat
      /\ reader.offset + reader.size <= fsize
  BY DEF FInv, RangeInv
<1>3. QED  BY <1>1, <1>2

\* A call that found its range inside one part and delivers that part's bytes.
LEMMA Delivered ==
  ASSUME FInv, pc = "idle", UNCHANGED <<disk, parts, fsize, reader>>, pc' = "done",
         NEW o \in Nat, NEW s \in Nat, o + s <= reader.size,
         req' = [offset |-> o, size |-> s],
         NEW i \in 1 .. Len(parts), NEW x \in Nat, x = reader.offset + o,
         parts[i].min <= x, x + s <= parts[i].max,
         dest' = Bytes(parts[i].file, x - parts[i].min, s)
  PROVE  FInv'
<1>1. MapInv' /\ Laid
  BY MapStays
<1>2. PICK b : b = dest' /\ b = Bytes(parts[i].file, x - parts[i].min, s)
  OBVIOUS
<1>3. Len(b) = s /\ \A j \in 1 .. s : IsByte(b[j], x + j - 1)
  BY <1>1, <1>2, BytesOfPart
<1>4. \A j \in 1 .. s : IsByte(b[j], x + j - 1)'
  <2>1. SUFFICES ASSUME NEW j \in 1 .. s PROVE IsByte(b[j], x + j - 1)'
    OBVIOUS
  <2>2. IsByte(b[j], x + j - 1)
    BY <1>3
  <2>3. QED  BY <2>2, <1>2 DEF IsByte
<1>5. RangeInv'
  BY DEF FInv, RangeInv
<1>6. ReadExact'
  <2>1. req'.size = s /\ req'.offset = o /\ reader'.offset + req'.offset = x
    OBVIOUS
  <2>2. QED  BY <2>1, <1>2, <1>3, <1>4 DEF ReadExact
<1>7. LoopInv' /\ DirectAccessExact'
  BY DEF LoopInv, DirectAccessExact
<1>8. QED  BY <1>1, <1>5, <1>6, <1>7 DEF FInv

\* A buffer mapped from one part.
LEMMA Mapped ==
  ASSUME FInv, pc = "idle", UNCHANGED <<disk, parts, fsize, reader>>,
         NEW o \in Nat, NEW s \in Nat, o + s <= reader.size,
         req' = [offset |-> o, size |-> s],
         NEW i \in 1 .. Len(parts), NEW x \in Nat, x = reader.offset + o,
         parts[i].min <= x, x + s <= parts[i].max,
         Map(parts[i].file, x - parts[i].min, s)
  PROVE  FInv'
<1>l. Laid
  BY MapLaid DEF FInv
<1>1. PICK y \in Nat : y = x - parts[i].min
  BY <1>l DEF Laid
<1>2. CASE MmapThrows(y, s)
  <2>1. pc' = "threw" /\ s = 0
    <3>1. y % PageSize \in Nat
      BY <1>1, BoundAssumption
    <3>2. QED  BY <1>1, <1>2, <3>1 DEF Map, MmapThrows
  <2>2. MapInv'
    BY <2>1, MapStays
  <2>3. RangeInv'
    BY <2>1 DEF FInv, RangeInv
  <2>4. ReadExact' /\ LoopInv' /\ DirectAccessExact'
    BY <2>1 DEF ReadExact, LoopInv, DirectAccessExact
  <2>5. QED  BY <2>2, <2>3, <2>4 DEF FInv
<1>3. CASE ~ MmapThrows(y, s)
  <2>1. pc' = "done" /\ dest' = Bytes(parts[i].file, y, s)
    BY <1>1, <1>3, MappedBytes DEF Map
  <2>2. QED  BY <2>1, <1>1, Delivered
<1>4. QED  BY <1>2, <1>3

LEMMA SingleFileStep == ASSUME FInv, NEW o \in 0 .. fsize, NEW s \in 0 .. fsize,
                               ReadFile(o, s) \/ GetFileBuffer(o, s)
                        PROVE  FInv'
<1>1. /\ pc = "idle" /\ Len(parts) = 1 /\ o + s <= reader.size
      /\ req' = [offset |-> o, size |-> s]
      /\ UNCHANGED <<disk, parts, fsize, reader>>
  BY DEF ReadFile, GetFileBuffer, CanRead
<1>2. Laid
  BY MapLaid DEF FInv
<1>3. o \in Nat /\ s \in Nat
  BY <1>2 DEF Laid
<1>4. PICK x \in Nat : x = reader.offset + o /\ x + s <= fsize
  BY <1>1, <1>3, ReaderInFile
<1>5. 1 \in 1 .. Len(parts) /\ parts[1].min = 0 /\ parts[1].max = fsize
  BY <1>1, <1>2 DEF Laid
<1>6. x - parts[1].min = x /\ parts[1].min <= x /\ x + s <= parts[1].max
  BY <1>4, <1>5
<1>7. CASE ReadFile(o, s)
  <2>1. pc' = "done" /\ dest' = Bytes(parts[1].file, x - parts[1].min, s)
    BY <1>7, <1>4, <1>6 DEF ReadFile, readAt
  <2>2. QED  BY <2>1, <1>1, <1>3, <1>4, <1>5, <1>6, Delivered
<1>8. CASE GetFileBuffer(o, s)
  <2>1. Map(parts[1].file, x - parts[1].min, s)
    BY <1>8, <1>4, <1>6 DEF GetFileBuffer
  <2>2. QED  BY <2>1, <1>1, <1>3, <1>4, <1>5, <1>6, Mapped
<1>9. QED  BY <1>7, <1>8

\* A range that equal_range finds in one part ends in it.
LEMMA InOnePart ==
  ASSUME Laid, NEW o \in Nat, NEW s \in Nat, o < fsize, o + s <= fsize,
         NEW f, f = LowerBound(o, s), UpperBound(o, s) = f + 1
  PROVE  /\ f \in 1 .. Len(parts)
         /\ parts[f].min <= o /\ o + s <= parts[f].max
<1>1. PICK e : e = UpperBound(o, s)
  OBVIOUS
<1>2. /\ f \in 1 .. Len(parts) /\ parts[f].min <= o
      /\ e <= Len(parts) => o + s <= parts[e].min
  BY <1>1, Located
<1>3. PICK n \in Nat : n = Len(parts)
  BY DEF Laid
<1>4. CASE f = n
  BY <1>2, <1>3, <1>4 DEF Laid
<1>5. CASE f < n
  <2>1. parts[f + 1].min = parts[f].max
    BY <1>2, <1>3, <1>5 DEF Laid
  <2>2. QED  BY <2>1, <1>1, <1>2, <1>3, <1>5
<1>6. QED  BY <1>2, <1>3, <1>4, <1>5

LEMMA GetBufferStep == ASSUME FInv, NEW o \in 0 .. fsize, NEW s \in 0 .. fsize, GetBuffer(o, s)
                       PROVE  FInv'
<1>1. /\ pc = "idle" /\ o + s <= reader.size /\ reader.offset + o < fsize
      /\ req' = [offset |-> o, size |-> s]
      /\ UNCHANGED <<disk, parts, fsize, reader>>
  BY DEF GetBuffer, CanRead
<1>2. Laid
  BY MapLaid DEF FInv
<1>3. o \in Nat /\ s \in Nat
  BY <1>2 DEF Laid
<1> DEFINE x == reader.offset + o
           f == LowerBound(x, s)
<1>4. x \in Nat /\ x + s <= fsize /\ x < fsize
  BY <1>1, <1>3, ReaderInFile
<1>5. UpperBound(x, s) = f + 1 /\ Map(parts[f].file, x - parts[f].min, s)
  <2>1. /\ UpperBound(reader.offset + o, s) = LowerBound(reader.offset + o, s) + 1
        /\ Map(parts[LowerBound(reader.offset + o, s)].file,
               (reader.offset + o) - parts[LowerBound(reader.offset + o, s)].min, s)
    BY Zenon DEF GetBuffer
  <2>2. QED  BY <2>1
<1>e. x = reader.offset + o /\ f = LowerBound(x, s)
  OBVIOUS
<1> HIDE DEF x, f
<1>6. f \in 1 .. Len(parts) /\ parts[f].min <= x /\ x + s <= parts[f].max
  BY <1>2, <1>3, <1>4, <1>5, <1>e, InOnePart
<1>7. QED  BY <1>1, <1>3, <1>4, <1>5, <1>6, <1>e, Mapped

LEMMA ReadCharStep == ASSUME FInv, NEW o \in 0 .. fsize, ReadChar(o) PROVE FInv'
<1>1. /\ pc = "idle" /\ o < reader.size /\ pc' = "done"
      /\ req' = [offset |-> o, size |-> 1]
      /\ UNCHANGED <<disk, parts, fsize, reader>>
  BY DEF ReadChar
<1>2. Laid
  BY MapLaid DEF FInv
<1>3. o \in Nat /\ reader.size \in Nat /\ o + 1 <= reader.size
  BY <1>1, <1>2 DEF Laid, FInv, RangeInv
<1> DEFINE x == reader.offset + o
           f == LowerBound(x, 0)
<1>4. x \in Nat /\ x + 1 <= fsize /\ x < fsize
  <2>1. x \in Nat /\ x + 1 <= fsize
    BY <1>1, <1>3, ReaderInFile
  <2>2. fsize \in Nat
    BY <1>2 DEF Laid
  <2>3. QED  BY <2>1, <2>2
<1>5. dest' = Bytes(parts[f].file, x - parts[f].min, 1)
  <2>1. dest' = Bytes(parts[LowerBound(reader.offset + o, 0)].file,
                      (reader.offset + o) - parts[LowerBound(reader.offset + o, 0)].min, 1)
    BY Zenon DEF ReadChar, readAt
  <2>2. QED  BY <2>1
<1>e. x = reader.offset + o /\ f = LowerBound(x, 0)
  OBVIOUS
<1> HIDE DEF x, f
<1>7. PICK e : e = UpperBound(x, 0)
  OBVIOUS
<1>8. f \in 1 .. Len(parts) /\ parts[f].min <= x /\ x < parts[f].max
  BY <1>2, <1>4, <1>e, <1>7, Located
<1>9. x + 1 <= parts[f].max
  BY <1>2, <1>4, <1>8 DEF Laid
<1>10. QED  BY <1>1, <1>3, <1>4, <1>5, <1>e, <1>8, <1>9, Delivered

LEMMA ReadStep == ASSUME FInv, NEW o \in 0 .. fsize, NEW s \in 0 .. fsize, Read(o, s) PROVE FInv'
<1>1. /\ pc = "idle" /\ o + s <= reader.size /\ pc' \in {"done", "loop"} /\ dest' = <<>>
      /\ req' = [offset |-> o, size |-> s]
      /\ UNCHANGED <<disk, parts, fsize, reader>>
      /\ pc' = "done" <=> s = 0
  BY DEF Read, CanRead
<1>2. Laid /\ MapInv'
  BY <1>1, MapStays
<1>3. o \in Nat /\ s \in Nat /\ fsize \in Nat
  BY <1>2 DEF Laid
<1> DEFINE x == reader.offset + o
<1>4. x \in Nat /\ x + s <= fsize /\ reader.offset \in Nat
  BY <1>1, <1>3, ReaderInFile
<1>5. RangeInv'
  BY <1>1, <1>3 DEF FInv, RangeInv
<1>6. ReadExact' /\ DirectAccessExact'
  BY <1>1 DEF ReadExact, DirectAccessExact
<1>7. LoopInv'
  <2>1. SUFFICES ASSUME s > 0, pc' = "loop" PROVE LoopInv'
    BY <1>1, <1>3 DEF LoopInv
  <2>2. /\ offset' = x /\ size' = s
        /\ current' = LowerBound(x, s) /\ second' = UpperBound(x, s)
    BY <2>1 DEF Read
  <2>3. PICK f, e : f = LowerBound(x, s) /\ e = UpperBound(x, s)
    OBVIOUS
  <2>4. x < fsize
    BY <2>1, <1>3, <1>4
  <2>5. /\ f \in 1 .. Len(parts) /\ parts[f].min <= x /\ x < parts[f].max
        /\ e \in f + 1 .. Len(parts) + 1
    <3> HIDE DEF x
    <3> QED  BY <1>2, <1>3, <1>4, <2>3, <2>4, Located
  <2>6. UpperBound(reader.offset + req.offset, req.size)' = UpperBound(x, s)
    BY <1>1 DEF UpperBound, End, Query, less, First
  <2>7. /\ f \in 1 .. e /\ f < e
    BY <2>5, <1>2 DEF Laid
  <2>8. dest' \in Seq((1 .. Len(disk'.size)) \X Nat) /\ Len(dest') = 0
    BY <1>1
  <2>9. offset' + size' = reader'.offset + req'.offset + req'.size
    BY <1>1, <1>3, <1>4, <2>2
  <2>10. /\ second' = UpperBound(reader.offset + req.offset, req.size)'
         /\ current' = f /\ second' = e
    BY <2>2, <2>3, <2>6
  <2>11. /\ parts'[current'].min <= offset' /\ offset' < parts'[current'].max
    BY <2>2, <2>5, <2>10, <1>1
  <2>12. /\ req'.size = s /\ Len(dest') = req'.size - size'
         /\ \A j \in 1 .. Len(dest') : FALSE
    BY <1>1, <1>3, <2>2, <2>8
  <2>13. current' \in 1 .. second' /\ current' < second' /\ current' # second'
    BY <2>7, <2>10, <2>5, <1>2 DEF Laid
  <2>14. offset' \in Nat /\ size' \in Nat /\ size' > 0 /\ size' <= req'.size /\ req'.size > 0
    BY <2>1, <2>2, <2>12, <1>3, <1>4
  <2>15. QED  BY <2>8, <2>9, <2>10, <2>11, <2>12, <2>13, <2>14 DEF LoopInv
<1>8. QED  BY <1>2, <1>5, <1>6, <1>7 DEF FInv

\* dest with the bytes of one more part behind it
LEMMA Extended ==
  ASSUME NEW S, NEW d \in Seq(S), NEW b \in Seq(S)
  PROVE  /\ d \o b \in Seq(S)
         /\ Len(d \o b) = Len(d) + Len(b)
         /\ \A j \in 1 .. Len(d) : (d \o b)[j] = d[j]
         /\ \A j \in 1 .. Len(b) : (d \o b)[Len(d) + j] = b[j]
BY ConcatProperties

LEMMA ReadPartStep == ASSUME FInv, ReadPart PROVE FInv'
<1>1. /\ pc = "loop" /\ pc' = "loop" /\ current # second /\ current' = current + 1
      /\ UNCHANGED <<disk, parts, fsize, reader, req, second>>
  BY DEF ReadPart
<1>2. Laid /\ MapInv'
  BY <1>1, MapStays
<1> DEFINE x == reader.offset + req.offset
           y == offset - parts[current].min
           n == SizeToGet(size, parts[current], y)
           b == readAt(parts[current].file, n, y)
<1>3. dest' = dest \o b /\ size' = size - n /\ offset' = offset + n
  BY DEF ReadPart
<1>4. /\ offset \in Nat /\ size \in Nat /\ offset + size = x + req.size
      /\ req.size > 0 /\ size <= req.size
      /\ second = UpperBound(x, req.size)
      /\ current \in 1 .. second
      /\ current < second => /\ size > 0
                             /\ parts[current].min <= offset
                             /\ offset < parts[current].max
      /\ dest \in Seq((1 .. Len(disk.size)) \X Nat)
      /\ Len(dest) = req.size - size
      /\ \A j \in 1 .. Len(dest) : IsByte(dest[j], x + j - 1)
  <2>1. reader.offset \in Nat /\ req.offset \in Nat /\ req.size \in Nat
    BY DEF FInv, RangeInv
  <2>2. \A j \in Nat : reader.offset + req.offset + j - 1 = x + j - 1
    BY <2>1
  <2>3. QED  BY <1>1, <2>1, <2>2 DEF FInv, LoopInv
<1>5. /\ x \in Nat /\ req.size \in Nat /\ x + req.size <= fsize /\ fsize \in Nat
      /\ reader.offset \in Nat /\ req.offset \in Nat
  <2>1. /\ req.offset \in Nat /\ req.size \in Nat /\ req.offset + req.size <= reader.size
    BY <1>1 DEF FInv, RangeInv
  <2>2. fsize \in Nat
    BY <1>2 DEF Laid
  <2>3. QED  BY <1>1, <2>1, <2>2, ReaderInFile
<1>6. x < fsize
  BY <1>4, <1>5
<1>7. PICK f : f = LowerBound(x, req.size)
  OBVIOUS
<1>8. /\ second \in 1 .. Len(parts) + 1
      /\ second <= Len(parts) => x + req.size <= parts[second].min
      /\ \A j \in 1 .. Len(parts) : j < second =>
            parts[j].min <= x \/ parts[j].min < x + req.size
  <2>1. /\ f \in 1 .. Len(parts)
        /\ second \in f + 1 .. Len(parts) + 1
        /\ second <= Len(parts) => x + req.size <= parts[second].min
        /\ \A j \in 1 .. Len(parts) : j < second =>
              parts[j].min <= x \/ parts[j].min < x + req.size
    <3> HIDE DEF x
    <3> QED  BY <1>2, <1>4, <1>5, <1>6, <1>7, Located
  <2>2. QED  BY <2>1, <1>2 DEF Laid
<1>c. PICK c \in Nat : c = current
  BY <1>4, <1>8, <1>2 DEF Laid
<1>N. PICK N \in Nat : N = Len(parts)
  BY <1>2 DEF Laid
<1>9. c \in 1 .. N /\ c < second /\ second \in 1 .. N + 1
  BY <1>1, <1>4, <1>8, <1>c, <1>N
<1>10. /\ parts[c].min \in Nat /\ parts[c].max \in Nat
       /\ disk.size[parts[c].file] = parts[c].max - parts[c].min
       /\ c < N => parts[c + 1].min = parts[c].max
       /\ c = N => parts[c].max = fsize
       /\ c < N => parts[c + 1].min < parts[c + 1].max
  BY SMTT(30), <1>2, <1>9, <1>N DEF Laid
<1>11. size > 0 /\ parts[c].min <= offset /\ offset < parts[c].max
  BY <1>4, <1>9, <1>c
<1>12. n = IF size < parts[c].max - offset THEN size ELSE parts[c].max - offset
  <2>1. n = Minimum(size, (parts[c].max - parts[c].min) - (offset - parts[c].min))
    BY <1>10, <1>c DEF SizeToGet
  <2>2. (parts[c].max - parts[c].min) - (offset - parts[c].min) = parts[c].max - offset
    BY <1>4, <1>10
  <2>3. QED  BY <2>1, <2>2 DEF Minimum
<1>13. b = Bytes(parts[c].file, offset - parts[c].min, n)
  BY <1>c DEF readAt
<1>s. /\ offset \in Nat /\ size \in Nat /\ size <= req.size
      /\ offset + size = x + req.size
      /\ Len(dest) = req.size - size
      /\ dest \in Seq((1 .. Len(disk.size)) \X Nat)
  BY <1>4
<1>14. n \in Nat /\ n > 0 /\ n <= size /\ offset + n <= parts[c].max
  BY <1>12, <1>s, <1>10, <1>11
<1> HIDE DEF x, y, n, b
<1>15. /\ b \in Seq((1 .. Len(disk.size)) \X Nat) /\ Len(b) = n
       /\ \A j \in 1 .. n : IsByte(b[j], offset + j - 1)
  <2>1. Laid /\ c \in 1 .. Len(parts) /\ offset \in Nat /\ n \in Nat
    BY <1>2, <1>9, <1>N, <1>s, <1>14
  <2>2. parts[c].min <= offset /\ offset + n <= parts[c].max
    BY <1>11, <1>14
  <2>3. QED  BY ONLY SMTT(30), <2>1, <2>2, <1>13, BytesOfPart
<1>16. PICK k \in Nat : k = Len(dest)
  BY <1>4
<1>17. /\ dest \o b \in Seq((1 .. Len(disk.size)) \X Nat)
       /\ Len(dest \o b) = k + n
       /\ \A j \in 1 .. k : (dest \o b)[j] = dest[j]
       /\ \A j \in 1 .. n : (dest \o b)[k + j] = b[j]
  <2>1. b \in Seq((1 .. Len(disk.size)) \X Nat) /\ Len(b) = n
    BY <1>15
  <2>2. dest \in Seq((1 .. Len(disk.size)) \X Nat) /\ Len(dest) = k
    BY <1>s, <1>16
  <2>3. /\ dest \o b \in Seq((1 .. Len(disk.size)) \X Nat)
        /\ Len(dest \o b) = Len(dest) + Len(b)
        /\ \A j \in 1 .. Len(dest) : (dest \o b)[j] = dest[j]
        /\ \A j \in 1 .. Len(b) : (dest \o b)[Len(dest) + j] = b[j]
    <3>1. PICK S : S = (1 .. Len(disk.size)) \X Nat
      OBVIOUS
    <3>2. dest \in Seq(S) /\ b \in Seq(S)
      BY <3>1, <2>1, <2>2
    <3>3. /\ dest \o b \in Seq(S)
          /\ Len(dest \o b) = Len(dest) + Len(b)
          /\ \A j \in 1 .. Len(dest) : (dest \o b)[j] = dest[j]
          /\ \A j \in 1 .. Len(b) : (dest \o b)[Len(dest) + j] = b[j]
      BY <3>2, Extended
    <3>4. QED  BY <3>1, <3>3
  <2>4. QED  BY <2>1, <2>2, <2>3
<1>18. PICK d : d = dest \o b
  OBVIOUS
<1>19. x + k = offset
  <2>1. k = req.size - size
    BY <1>s, <1>16
  <2>2. offset \in Nat /\ size \in Nat /\ offset + size = x + req.size
    BY <1>s
  <2>3. QED  BY <2>1, <2>2, <1>5
<1>20. \A j \in 1 .. k + n : IsByte(d[j], x + j - 1)
  <2>1. SUFFICES ASSUME NEW j \in 1 .. k + n PROVE IsByte(d[j], x + j - 1)
    OBVIOUS
  <2>2. CASE j <= k
    <3>1. j \in 1 .. k
      BY <2>2, <1>16
    <3>2. d[j] = dest[j] /\ IsByte(dest[j], x + j - 1)
      BY <3>1, <1>4, <1>16, <1>17, <1>18
    <3>3. QED  BY <3>2
  <2>3. CASE j > k
    <3>1. PICK i \in 1 .. n : j = k + i
      <4>1. j - k \in 1 .. n /\ j = k + (j - k)
        BY <2>3, <1>14, <1>16
      <4>2. QED  BY <4>1
    <3>2. d[j] = b[i] /\ IsByte(b[i], offset + i - 1)
      BY <3>1, <1>15, <1>17, <1>18
    <3>3. offset + i - 1 = x + j - 1
      BY <3>1, <1>19, <1>14, <1>5, <1>16
    <3>4. QED  BY <3>2, <3>3
  <2>4. QED  BY <2>2, <2>3, <1>14, <1>16
<1>21. /\ c + 1 < second => /\ size - n > 0
                            /\ parts[c + 1].min <= offset + n
                            /\ offset + n < parts[c + 1].max
       /\ c + 1 = second => size - n = 0
       /\ c + 1 \in 1 .. second
  <2>1. CASE size < parts[c].max - offset
    <3>1. n = size
      BY <2>1, <1>12
    <3>2. offset + size < parts[c].max /\ offset + size = x + req.size
      BY <2>1, <1>4, <1>10
    <3>3. ~ (c + 1 < second)
      <4>1. SUFFICES ASSUME c + 1 < second PROVE FALSE
        OBVIOUS
      <4>2. c + 1 \in 1 .. N /\ c < N
        BY <4>1, <1>9
      <4>3. parts[c + 1].min <= x \/ parts[c + 1].min < x + req.size
        BY <4>1, <4>2, <1>8, <1>N
      <4>4. parts[c + 1].min = parts[c].max
        BY <4>2, <1>10
      <4>5. QED  BY <4>3, <4>4, <3>2, <1>5, <1>10
    <3>4. QED  BY <3>1, <3>3, <1>9, <1>4
  <2>2. CASE ~ (size < parts[c].max - offset)
    <3>1. n = parts[c].max - offset /\ offset + n = parts[c].max /\ parts[c].max <= offset + size
      BY <2>2, <1>12, <1>4, <1>10
    <3>2. CASE c + 1 < second
      <4>1. c + 1 \in 1 .. N /\ c < N
        BY <3>2, <1>9
      <4>2. parts[c + 1].min <= x \/ parts[c + 1].min < x + req.size
        BY <3>2, <4>1, <1>8, <1>N
      <4>3. parts[c + 1].min = parts[c].max /\ parts[c + 1].min < parts[c + 1].max
        BY <4>1, <1>10
      <4>4. x <= offset
        BY <1>19, <1>5, <1>16
      <4>5. parts[c].max < offset + size
        BY <4>2, <4>3, <4>4, <1>4, <1>5, <1>10, <1>11
      <4>6. size - n > 0
        BY <4>5, <3>1, <1>4, <1>10
      <4>7. parts[c + 1].min <= offset + n /\ offset + n < parts[c + 1].max
        <5>1. parts[c + 1].min <= parts[c].max
          BY <4>3, <1>10
        <5>2. QED  BY <5>1, <3>1, <4>3
      <4>8. c + 1 \in 1 .. second /\ c + 1 # second
        BY <3>2, <1>9
      <4>9. QED  BY <4>6, <4>7, <4>8
    <3>3. CASE c + 1 = second
      <4>1. parts[c].max >= x + req.size
        <5>1. CASE c < N
          <6>1. second <= Len(parts) /\ parts[second].min = parts[c].max
            BY <5>1, <3>3, <1>N, <1>10
          <6>2. QED  BY <6>1, <1>8, <1>5, <1>10
        <5>2. CASE c = N
          BY <5>2, <1>10, <1>5
        <5>3. QED  BY <5>1, <5>2, <1>9
      <4>2. size - n = 0
        <5>1. PICK M \in Nat : M = parts[c].max
          BY <1>10
        <5>2. /\ x \in Nat /\ req.size \in Nat /\ offset \in Nat /\ size \in Nat /\ n \in Nat
              /\ M >= x + req.size /\ offset + size = x + req.size
              /\ n = M - offset /\ M <= offset + size
          BY <4>1, <3>1, <1>s, <1>5, <1>14, <5>1
        <5>3. QED  BY ONLY <5>1, <5>2
      <4>3. QED  BY <4>2, <3>3, <1>9
    <3>4. QED  BY <3>2, <3>3, <1>9
  <2>3. QED  BY <2>1, <2>2
<1>22. UpperBound(reader.offset + req.offset, req.size)' = second'
  <2>1. UpperBound(reader.offset + req.offset, req.size)' = UpperBound(reader.offset + req.offset, req.size)
    BY <1>1 DEF UpperBound, End, Query, less, First
  <2>2. QED  BY <2>1, <1>1, <1>4 DEF x
<1>23. LoopInv'
  <2>1. dest' = d
    BY <1>3, <1>18
  <2>2. \A j \in 1 .. Len(dest') : IsByte(dest[j], reader.offset + req.offset + j - 1)'
    <3>1. SUFFICES ASSUME NEW j \in 1 .. Len(dest')
                   PROVE  IsByte(dest[j], reader.offset + req.offset + j - 1)'
      OBVIOUS
    <3>2. j \in 1 .. k + n
      BY <2>1, <1>17, <1>18
    <3>3. IsByte(d[j], x + j - 1)
      BY <3>2, <1>20
    <3>4. reader'.offset + req'.offset + j - 1 = x + j - 1
      BY <3>2, <1>1, <1>5, <1>14, <1>16 DEF x
    <3>5. QED  BY <3>3, <3>4, <2>1, <1>1 DEF IsByte
  <2>3. /\ dest' \in Seq((1 .. Len(disk'.size)) \X Nat)
        /\ Len(dest') = req'.size - size'
    <3>1. d \in Seq((1 .. Len(disk.size)) \X Nat) /\ Len(d) = k + n
      BY <1>17, <1>18
    <3>2. k = req.size - size /\ req'.size = req.size /\ size' = size - n
      BY <1>1, <1>3, <1>s, <1>16
    <3>3. req.size \in Nat /\ size \in Nat /\ n \in Nat
      BY <1>4, <1>5, <1>14
    <3>4. k + n = req'.size - size'
      BY <3>2, <3>3
    <3>5. disk' = disk
      BY <1>1
    <3>6. QED  BY <2>1, <3>1, <3>4, <3>5
  <2>4. /\ offset' \in Nat /\ size' \in Nat /\ size' <= req'.size /\ req'.size > 0
    BY SMTT(30), <1>1, <1>3, <1>4, <1>5, <1>14
  <2>5. offset' + size' = reader'.offset + req'.offset + req'.size
    BY <1>1, <1>3, <1>4, <1>5, <1>14 DEF x
  <2>6. /\ current' \in 1 .. second'
        /\ current' < second' => /\ size' > 0
                                 /\ parts'[current'].min <= offset'
                                 /\ offset' < parts'[current'].max
        /\ current' = second' => size' = 0
    BY <1>1, <1>3, <1>c, <1>21
  <2>7. QED  BY <2>2, <2>3, <2>4, <2>5, <2>6, <1>22 DEF LoopInv
<1>24. RangeInv'
  BY <1>1 DEF FInv, RangeInv
<1>25. ReadExact' /\ DirectAccessExact'
  BY <1>1 DEF ReadExact, DirectAccessExact
<1>26. QED  BY <1>2, <1>23, <1>24, <1>25 DEF FInv

LEMMA ReadEndsStep == ASSUME FInv, ReadEnds PROVE FInv'
<1>1. /\ pc = "loop" /\ pc' = "done" /\ current = second
      /\ UNCHANGED <<disk, parts, fsize, reader, req, dest>>
  BY DEF ReadEnds, call
<1>2. MapInv'
  BY <1>1, MapStays
<1>3. /\ size = 0 /\ Len(dest) = req.size - size
      /\ \A j \in 1 .. Len(dest) : IsByte(dest[j], reader.offset + req.offset + j - 1)
  BY <1>1 DEF FInv, LoopInv
<1>4. req.size \in Nat
  BY DEF FInv, RangeInv
<1>5. Len(dest) = req.size
  BY <1>3, <1>4
<1>6. ReadExact'
  BY <1>1, <1>3, <1>5 DEF ReadExact, IsByte
<1>7. RangeInv'
  BY <1>1 DEF FInv, RangeInv
<1>8. LoopInv' /\ DirectAccessExact'
  BY <1>1 DEF LoopInv, DirectAccessExact
<1>9. QED  BY <1>2, <1>6, <1>7, <1>8 DEF FInv

LEMMA DirectStep == ASSUME FInv, NEW o \in 0 .. fsize, NEW s \in 0 .. fsize, GetDirectAccess(o, s)
                    PROVE  FInv'
<1>1. /\ pc = "idle" /\ o + s <= reader.size /\ reader.offset + o < fsize /\ pc' = "located"
      /\ req' = [offset |-> o, size |-> s]
      /\ UNCHANGED <<disk, parts, fsize, reader>>
  BY DEF GetDirectAccess, CanRead
<1>2. Laid /\ MapInv'
  BY <1>1, MapStays
<1>3. o \in Nat /\ s \in Nat /\ fsize \in Nat
  BY <1>2 DEF Laid
<1> DEFINE x == reader.offset + o
           f == LowerBound(x, s)
<1>4. x \in Nat /\ x + s <= fsize /\ reader.offset \in Nat
  BY <1>1, <1>3, ReaderInFile
<1>5. x < fsize
  BY <1>1
<1>6. \/ direct' = NoAccess
      \/ direct' = IF UpperBound(x, s) # f + 1 THEN NoAccess
                   ELSE <<parts[f].file, x - parts[f].min>>
  BY DEF GetDirectAccess
<1>e. x = reader.offset + o /\ f = LowerBound(x, s)
  OBVIOUS
<1> HIDE DEF x, f
<1>7. DirectAccessExact'
  <2>1. SUFFICES ASSUME direct' # NoAccess
                 PROVE  /\ IsByte(direct, reader.offset + req.offset)'
                        /\ s > 0 => IsByte(<<direct[1], direct[2] + req.size - 1>>,
                                           reader.offset + req.offset + req.size - 1)'
    BY <1>1 DEF DirectAccessExact, NoAccess
  <2>2. UpperBound(x, s) = f + 1 /\ direct' = <<parts[f].file, x - parts[f].min>>
    BY <2>1, <1>6
  <2>3. f \in 1 .. Len(parts) /\ parts[f].min <= x /\ x + s <= parts[f].max
    BY <2>2, <1>2, <1>3, <1>4, <1>5, <1>e, InOnePart
  <2>4. PICK m \in Nat : m = parts[f].min /\ parts[f].max \in Nat
    BY <2>3, <1>2 DEF Laid
  <2>5. x < parts[f].max
    BY <1>2, <1>3, <1>4, <1>5, <1>e, Located
  <2>6. IsByte(<<parts[f].file, x - parts[f].min>>, x)
    BY <2>3, <2>5, <1>2, <1>4, PartByte
  <2>7. reader'.offset + req'.offset = x
    BY <1>1, <1>3, <1>4, <1>e
  <2>8. IsByte(direct, reader.offset + req.offset)'
    BY <2>2, <2>6, <2>7, <1>1 DEF IsByte
  <2>9. ASSUME s > 0
        PROVE  IsByte(<<direct[1], direct[2] + req.size - 1>>,
                      reader.offset + req.offset + req.size - 1)'
    <3>1. PICK z \in Nat : z = x + s - 1
      BY <1>3, <1>4, <2>9
    <3>2. parts[f].min <= z /\ z < parts[f].max
      BY <2>3, <2>4, <2>9, <3>1, <1>3, <1>4
    <3>3. IsByte(<<parts[f].file, z - parts[f].min>>, z)
      BY <2>3, <3>1, <3>2, <1>2, PartByte
    <3>4. /\ reader'.offset + req'.offset + req'.size - 1 = z
          /\ direct'[1] = parts[f].file
          /\ direct'[2] + req'.size - 1 = z - parts[f].min
      BY <1>1, <1>3, <1>4, <1>e, <2>2, <2>4, <3>1
    <3>5. QED  BY <3>3, <3>4, <1>1 DEF IsByte
  <2>10. QED  BY <2>8, <2>9
<1>8. RangeInv'
  BY <1>1, <1>3 DEF FInv, RangeInv
<1>9. LoopInv' /\ ReadExact'
  BY <1>1 DEF LoopInv, ReadExact
<1>10. QED  BY <1>2, <1>7, <1>8, <1>9 DEF FInv

LEMMA ReturnStep == ASSUME FInv, Return PROVE FInv'
<1>1. /\ pc \in {"done", "located", "threw"} /\ pc' = "idle" /\ req' = NoRange
      /\ UNCHANGED <<disk, parts, fsize, reader>>
  BY DEF Return
<1>2. MapInv'
  BY <1>1, MapStays
<1>3. RangeInv'
  BY <1>1 DEF FInv, RangeInv, NoRange
<1>4. LoopInv' /\ ReadExact' /\ DirectAccessExact'
  BY <1>1 DEF LoopInv, ReadExact, DirectAccessExact
<1>5. QED  BY <1>2, <1>3, <1>4 DEF FInv

LEMMA StutterStep == ASSUME FInv, UNCHANGED vars PROVE FInv'
BY ZenonT(60) DEF FInv, vars, MapInv, RangeInv, LoopInv, ReadExact, DirectAccessExact, IsByte,
       UpperBound, End, Query, less, First, NoAccess

LEMMA NextInv == FInv /\ [Next]_vars => FInv'
<1> SUFFICES ASSUME FInv, [Next]_vars PROVE FInv'
  OBVIOUS
<1>1. CASE Open  BY <1>1, OpenStep
<1>2. ASSUME NEW o \in 0 .. fsize, NEW s \in 0 .. fsize, Call(o, s) PROVE FInv'
  BY <1>2, ReaderStep, SingleFileStep, GetBufferStep, ReadStep, ReadCharStep, DirectStep DEF Call
<1>3. CASE ReadPart  BY <1>3, ReadPartStep
<1>4. CASE ReadEnds  BY <1>4, ReadEndsStep
<1>5. CASE Return  BY <1>5, ReturnStep
<1>6. CASE UNCHANGED vars  BY <1>6, StutterStep
<1>7. QED  BY <1>1, <1>2, <1>3, <1>4, <1>5, <1>6 DEF Next

\* The inductive invariant holds: the ranges of the map leave no gap and the
\* loop of MultiPartFileReader::read has always delivered the beginning of its
\* range.
THEOREM FileCompoundInv == Spec => []FInv
<1>1. QED  BY InitInv, NextInv, PTL DEF Spec

\* Whatever the number and the sizes of the parts, a read delivers exactly the
\* bytes asked for (MultiPartFileReader::read, get_buffer, FileReader).
THEOREM ReadsAreExact == Spec => []ReadExact
<1>1. FInv => ReadExact
  BY DEF FInv
<1>2. QED  BY <1>1, FileCompoundInv, PTL

\* Whatever the number and the sizes of the parts, getDirectAccessInformation
\* names the file and the offset where all of the blob is.
THEOREM DirectAccessIsExact == Spec => []DirectAccessExact
<1>1. FInv => DirectAccessExact
  BY DEF FInv
<1>2. QED  BY <1>1, FileCompoundInv, PTL
=============================================================================
