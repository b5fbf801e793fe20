------------------------ MODULE CreatorDirectoryProofs ------------------------
(***************************************************************************)
(* Proofs about CreatorDirectory: DirInv is an invariant for every set of  *)
(* calls, and with it the directory that Creator writes is consistent, the *)
(* redirects and the main page lead where they should, readers accept the  *)
(* counts of the header, and the title listings are those of the entries.  *)
(***************************************************************************)
EXTENDS CreatorDirectoryInvariant, FiniteSetTheorems, SequenceTheorems, WellFoundedInduction, TLAPS

-----------------------------------------------------------------------------
(* The pool and the order of URLs *)

LEMMA PoolFacts ==
  ASSUME pool \in Seq(DirentType)
  PROVE  /\ Len(pool) \in Nat
         /\ \A d \in Ids : /\ pool[d] \in DirentType
                           /\ pool[d].ns \in Nat /\ pool[d].path \in Nat /\ pool[d].mime \in Nat
<1>1. Len(pool) \in Nat /\ Ids = 1 .. Len(pool)
  BY DEF Ids
<1>2. \A d \in Ids : pool[d] \in DirentType
  BY <1>1, ElementOfSeq
<1>3. ASSUME NEW d \in Ids PROVE pool[d].ns \in Nat /\ pool[d].path \in Nat /\ pool[d].mime \in Nat
  <2>1. PICK r \in DirentType : r = pool[d]
    BY <1>2
  <2>2. r.ns \in {1, 2, 3, 4} /\ r.path \in Nat /\ r.mime \in Nat
    BY DEF DirentType, NsC, NsM, NsW, NsX
  <2> QED
    BY <2>1, <2>2
<1> QED
  BY <1>1, <1>2, <1>3

LEMMA FiniteFacts ==
  ASSUME DirType, NEW S, S \subseteq Ids
  PROVE  IsFiniteSet(S) /\ Cardinality(S) \in Nat
<1>1. IsFiniteSet(Ids)
  BY PoolFacts, FS_Interval DEF DirType, Ids
<1> QED
  BY <1>1, FS_Subset, FS_CardinalityType

\* compareUrl is an order, total on what is in the directory.
LEMMA UrlOrder ==
  ASSUME DirType
  PROVE  /\ \A d \in Ids : ~ UrlLess(d, d)
         /\ \A c, d, e \in Ids : UrlLess(c, d) /\ UrlLess(d, e) => UrlLess(c, e)
         /\ UrlInv => \A d, e \in dirents : UrlLess(d, e) \/ UrlLess(e, d) \/ d = e
<1>1. \A d \in Ids : pool[d].ns \in Nat /\ pool[d].path \in Nat
  BY PoolFacts DEF DirType
<1>2. \A d \in Ids : ~ UrlLess(d, d)
  BY <1>1 DEF UrlLess
<1>3. \A c, d, e \in Ids : UrlLess(c, d) /\ UrlLess(d, e) => UrlLess(c, e)
  BY <1>1 DEF UrlLess
<1>4. UrlInv => \A d, e \in dirents : UrlLess(d, e) \/ UrlLess(e, d) \/ d = e
  BY <1>1 DEF UrlLess, UrlInv, DirType
<1> QED
  BY <1>2, <1>3, <1>4

\* So the position in an iteration over the directory names the dirent.
LEMMA RankFacts ==
  ASSUME DirType, UrlInv
  PROVE  /\ \A d \in dirents : UrlRank(d) \in Nat /\ UrlRank(d) < Cardinality(dirents)
         /\ \A d, e \in dirents : UrlRank(d) = UrlRank(e) => d = e
<1> DEFINE Before(d) == {e \in dirents : UrlLess(e, d)}
<1>0. dirents \subseteq Ids
  BY DEF DirType
<1>1. IsFiniteSet(dirents) /\ Cardinality(dirents) \in Nat
  BY <1>0, FiniteFacts
<1>2. ASSUME NEW d \in dirents PROVE UrlRank(d) \in Nat /\ UrlRank(d) < Cardinality(dirents)
  <2>1. Before(d) \subseteq dirents /\ d \notin Before(d)
    BY <1>0, UrlOrder
  <2>2. /\ IsFiniteSet(Before(d)) /\ Cardinality(Before(d)) \in Nat
        /\ Cardinality(Before(d)) <= Cardinality(dirents)
        /\ Cardinality(Before(d)) = Cardinality(dirents) => Before(d) = dirents
    BY <1>1, <2>1, FS_Subset, FS_CardinalityType
  <2>3. UrlRank(d) = Cardinality(Before(d))
    BY DEF UrlRank
  <2> QED
    BY <1>1, <2>1, <2>2, <2>3
<1>3. ASSUME NEW d \in dirents, NEW e \in dirents, UrlLess(d, e) PROVE UrlRank(d) # UrlRank(e)
  <2>1. Before(d) \subseteq Before(e)
    BY <1>0, <1>3, UrlOrder
  <2>2. d \in Before(e) /\ d \notin Before(d) /\ Before(e) \subseteq dirents
    BY <1>0, <1>3, UrlOrder
  <2>3. IsFiniteSet(Before(e))
    BY <1>1, <2>2, FS_Subset
  <2>4. Cardinality(Before(d)) = Cardinality(Before(e)) => Before(d) = Before(e)
    BY <2>1, <2>3, FS_Subset
  <2>5. UrlRank(d) = Cardinality(Before(d)) /\ UrlRank(e) = Cardinality(Before(e))
    BY DEF UrlRank
  <2> QED
    BY <2>2, <2>4, <2>5
<1> QED
  BY <1>2, <1>3, UrlOrder

-----------------------------------------------------------------------------
(* Adding dirents *)

\* What addDirent does to the pool, and to the directory.
Grown(r) ==
  /\ pool' \in Seq(DirentType) /\ Len(pool') = Len(pool) + 1 /\ pool'[Len(pool) + 1] = r
  /\ \A d \in Ids : pool'[d] = pool[d]
  /\ Ids' = Ids \cup {Len(pool) + 1} /\ Len(pool) + 1 \notin Ids
  /\ dirents' \subseteq Ids' /\ dirents' \subseteq dirents \cup {Len(pool) + 1}
  /\ UrlInv'
  /\ unresolved' = {d \in dirents' : pool'[d].mime = RedirectMime}
  /\ \A d \in dirents : d \in dirents' \/ (IsRedirect(d) /\ pool[d].ns = r.ns /\ pool[d].path = r.path)
  /\ \A d \in dirents : ~ IsRedirect(d) => d \in dirents'
  /\ (\A d \in Ids : ~ (pool[d].ns = r.ns /\ pool[d].path = r.path)) => Len(pool) + 1 \in dirents'

LEMMA GrowPool ==
  ASSUME DirType, UrlInv, unresolved = {d \in dirents : IsRedirect(d)},
         NEW r \in DirentType, AddDirent(r)
  PROVE  Grown(r)
<1>1. Len(pool) \in Nat /\ pool \in Seq(DirentType) /\ dirents \subseteq Ids /\ Ids = 1 .. Len(pool)
  BY PoolFacts DEF DirType, Ids
<1>2. PICK n : n = Len(pool) + 1
  OBVIOUS
<1>3. pool' = Append(pool, r)
  BY DEF AddDirent
<1>4. /\ pool' \in Seq(DirentType) /\ Len(pool') = n /\ pool'[n] = r
      /\ \A d \in Ids : pool'[d] = pool[d]
      /\ Ids' = Ids \cup {n} /\ n \notin Ids
  <2>1. pool' \in Seq(DirentType) /\ Len(pool') = n /\ pool'[n] = r /\ \A d \in Ids : pool'[d] = pool[d]
    BY <1>1, <1>2, <1>3
  <2>2. Ids' = 1 .. n
    BY <2>1 DEF Ids
  <2> QED
    BY <1>1, <1>2, <2>1, <2>2
<1>5. PICK same : same = WithUrl(r.ns, r.path)
  OBVIOUS
<1>6. PICK gone : gone = GivesWay(same, r)
  OBVIOUS
<1>7. /\ same = {d \in dirents : pool[d].ns = r.ns /\ pool[d].path = r.path}
      /\ gone = {d \in same : IsRedirect(d) /\ r.mime # RedirectMime}
  BY <1>5, <1>6 DEF WithUrl, GivesWay
<1>8. CASE /\ same = gone
           /\ dirents' = (dirents \ gone) \cup {n}
           /\ unresolved' = (unresolved \ gone) \cup (IF r.mime = RedirectMime THEN {n} ELSE {})
  <2>1. dirents' \subseteq Ids' /\ dirents' \subseteq dirents \cup {n}
    BY <1>1, <1>4, <1>8
  <2>2. UrlInv'
    <3>1. ASSUME NEW d \in dirents', NEW e \in dirents', pool'[d].ns = pool'[e].ns, pool'[d].path = pool'[e].path
          PROVE  d = e
      <4>1. CASE d = n /\ e # n
        BY <1>1, <1>4, <1>7, <1>8, <3>1, <4>1
      <4>2. CASE e = n /\ d # n
        BY <1>1, <1>4, <1>7, <1>8, <3>1, <4>2
      <4>3. CASE d # n /\ e # n
        <5>1. d \in dirents /\ e \in dirents /\ pool'[d] = pool[d] /\ pool'[e] = pool[e]
          BY <1>1, <1>4, <1>8, <4>3
        <5> QED
          BY <3>1, <5>1 DEF UrlInv
      <4> QED
        BY <4>1, <4>2, <4>3
    <3> QED
      BY <3>1 DEF UrlInv
  <2>3. unresolved' = {d \in dirents' : pool'[d].mime = RedirectMime}
    <3>1. \A d \in dirents : IsRedirect(d) <=> pool'[d].mime = RedirectMime
      BY <1>1, <1>4 DEF IsRedirect
    <3>2. n \notin dirents /\ pool'[n].mime = r.mime
      BY <1>1, <1>4
    <3> QED
      BY <1>7, <1>8, <3>1, <3>2
  <2>4. \A d \in dirents : /\ d \in dirents' \/ (IsRedirect(d) /\ pool[d].ns = r.ns /\ pool[d].path = r.path)
                           /\ ~ IsRedirect(d) => d \in dirents'
    BY <1>7, <1>8
  <2> QED
    BY <1>2, <1>4, <1>8, <2>1, <2>2, <2>3, <2>4 DEF Grown
<1>9. CASE same # gone /\ dirents' = dirents /\ unresolved' = unresolved
  <2>1. \A d \in dirents : pool'[d] = pool[d]
    BY <1>1, <1>4
  <2>2. UrlInv'
    BY <1>9, <2>1 DEF UrlInv
  <2>3. unresolved' = {d \in dirents' : pool'[d].mime = RedirectMime}
    BY <1>9, <2>1 DEF IsRedirect
  <2>4. ~ (\A d \in Ids : ~ (pool[d].ns = r.ns /\ pool[d].path = r.path))
    BY <1>1, <1>7, <1>9
  <2> QED
    BY <1>1, <1>2, <1>4, <1>9, <2>2, <2>3, <2>4 DEF Grown
<1> QED
  BY <1>2, <1>5, <1>6, <1>8, <1>9 DEF AddDirent

\* What getMimeTypeIdx does.
MimesGrown ==
  /\ mimeTypes' \in Seq(Nat) /\ Len(mimeTypes) <= Len(mimeTypes') /\ Len(mimeTypes') <= MaxMimeIdx
  /\ \A j, k \in 1 .. Len(mimeTypes') : mimeTypes'[j] = mimeTypes'[k] => j = k

LEMMA MimeFacts ==
  ASSUME DirType, MimeInv, NEW m \in Nat, ~ MimeTypesFull(m), mimeTypes' = MimeTypesWith(m)
  PROVE  MimesGrown /\ MimeIdx(m) \in Nat /\ MimeIdx(m) < Len(mimeTypes')
<1>1. mimeTypes \in Seq(Nat) /\ Len(mimeTypes) \in Nat /\ MaxMimeIdx \in Nat
  BY DirectoryAssumption DEF DirType
<1>2. MimesGrown /\ \E k \in 1 .. Len(mimeTypes') : mimeTypes'[k] = m
  <2>1. CASE \E k \in 1 .. Len(mimeTypes) : mimeTypes[k] = m
    <3>1. mimeTypes' = mimeTypes
      BY <2>1 DEF MimeTypesWith
    <3> QED
      BY <1>1, <2>1, <3>1 DEF MimesGrown, MimeInv
  <2>2. CASE ~ \E k \in 1 .. Len(mimeTypes) : mimeTypes[k] = m
    <3>1. mimeTypes' = Append(mimeTypes, m) /\ Len(mimeTypes) < MaxMimeIdx
      BY <1>1, <2>2 DEF MimeTypesWith, MimeTypesFull
    <3>2. /\ mimeTypes' \in Seq(Nat) /\ Len(mimeTypes') = Len(mimeTypes) + 1
          /\ mimeTypes'[Len(mimeTypes) + 1] = m
          /\ \A k \in 1 .. Len(mimeTypes) : mimeTypes'[k] = mimeTypes[k]
      BY <1>1, <3>1
    <3>3. ASSUME NEW j \in 1 .. Len(mimeTypes'), NEW k \in 1 .. Len(mimeTypes'), mimeTypes'[j] = mimeTypes'[k] PROVE j = k
      <4>1. CASE j \in 1 .. Len(mimeTypes) /\ k \in 1 .. Len(mimeTypes)
        BY <3>2, <3>3, <4>1 DEF MimeInv
      <4>2. CASE j \notin 1 .. Len(mimeTypes) \/ k \notin 1 .. Len(mimeTypes)
        <5>1. \A i \in 1 .. Len(mimeTypes') : i \in 1 .. Len(mimeTypes) \/ i = Len(mimeTypes) + 1
          BY <1>1, <3>2
        <5> QED
          BY <2>2, <3>2, <3>3, <4>2, <5>1
      <4> QED
        BY <4>1, <4>2
    <3>4. Len(mimeTypes) + 1 \in 1 .. Len(mimeTypes')
      BY <1>1, <3>2
    <3> QED
      BY <1>1, <3>1, <3>2, <3>3, <3>4 DEF MimesGrown
  <2> QED
    BY <2>1, <2>2
<1>3. PICK k : k = CHOOSE x \in 1 .. Len(mimeTypes') : mimeTypes'[x] = m
  OBVIOUS
<1>4. k \in 1 .. Len(mimeTypes')
  BY <1>2, <1>3
<1>5. MimeIdx(m) = k - 1
  BY <1>3 DEF MimeIdx
<1>6. Len(mimeTypes') \in Nat
  BY <1>2 DEF MimesGrown
<1> QED
  BY <1>2, <1>4, <1>5, <1>6

\* What dirents are created with.
Created(r) ==
  /\ r \in DirentType
  /\ r.mime = RedirectMime \/ r.mime < Len(mimeTypes')
  /\ r.ns \in {NsM, NsX} => r.mime # RedirectMime
  /\ ~ r.removed

LEMMA ItemCreated ==
  ASSUME DirCore, phase \in Early, NEW ns \in {NsC, NsM, NsX}, NEW p \in Nat, NEW m \in Nat, NEW t \in Nat,
         CreateDirent(ns, p, m, t)
  PROVE  \E r : /\ Grown(r) /\ Created(r) /\ MimesGrown
                /\ r.ns = ns /\ r.path = p /\ r.title = t /\ r.mime # RedirectMime
<1>1. ~ MimeTypesFull(m) /\ mimeTypes' = MimeTypesWith(m)
  BY DEF CreateDirent
<1>2. MimesGrown /\ MimeIdx(m) \in Nat /\ MimeIdx(m) < Len(mimeTypes')
  BY <1>1, MimeFacts DEF DirCore
<1>i. PICK i \in Nat : i = MimeIdx(m)
  BY <1>2
<1>3. PICK r : r = [NewDirent(ns, p, t) EXCEPT !.mime = i]
  OBVIOUS
<1>4. r \in DirentType /\ r.ns = ns /\ r.path = p /\ r.title = t /\ r.mime = i /\ ~ r.removed
  <2>1. ns \in {NsC, NsM, NsW, NsX}
    OBVIOUS
  <2> QED
    BY <1>2, <1>3, <2>1 DEF NewDirent, DirentType, Empty
<1>5. AddDirent(r)
  BY <1>i, <1>3 DEF CreateDirent
<1>6. Grown(r)
  BY <1>4, <1>5, GrowPool DEF DirCore, PendingInv
<1>7. r.mime # RedirectMime
  BY <1>i, <1>2, <1>4, DirectoryAssumption DEF MimesGrown, RedirectMime
<1> QED
  BY <1>i, <1>2, <1>4, <1>6, <1>7 DEF Created

LEMMA RedirectCreated ==
  ASSUME DirCore, phase \in Early, NEW ns \in {NsC, NsW}, NEW p \in Nat, NEW t \in Nat, NEW q \in Nat,
         CreateRedirectDirent(ns, p, t, q)
  PROVE  \E r : /\ Grown(r) /\ Created(r) /\ MimesGrown
                /\ r.ns = ns /\ r.path = p /\ r.title = t /\ r.mime = RedirectMime /\ r.target = q
<1>1. MimesGrown
  BY DEF CreateRedirectDirent, MimesGrown, DirCore, DirType, MimeInv
<1>2. RedirectMime \in Nat
  BY DirectoryAssumption DEF RedirectMime
<1>3. PICK r : r = [NewDirent(ns, p, t) EXCEPT !.mime = RedirectMime, !.target = q]
  OBVIOUS
<1>4. /\ r \in DirentType /\ r.ns = ns /\ r.path = p /\ r.title = t
      /\ r.mime = RedirectMime /\ r.target = q /\ ~ r.removed
  <2>1. ns \in {NsC, NsM, NsW, NsX}
    OBVIOUS
  <2> QED
    BY <1>2, <1>3, <2>1 DEF NewDirent, DirentType, Empty
<1>5. AddDirent(r)
  BY <1>3 DEF CreateRedirectDirent
<1>6. Grown(r)
  BY <1>4, <1>5, GrowPool DEF DirCore, PendingInv
<1>7. r.ns \notin {NsM, NsX}
  BY <1>4 DEF NsC, NsM, NsW, NsX
<1> QED
  BY <1>1, <1>4, <1>6, <1>7 DEF Created

\* What stays true when a dirent is created, whichever it is.
LEMMA GrownInv ==
  ASSUME DirCore, phase \in Early, phase' \in Early, NEW r, Grown(r), Created(r), MimesGrown, resolving' = resolving,
         mainPath' = mainPath, faviconPath' = faviconPath, next' \in Nat, phase' = "handlers" => next' >= 1
  PROVE  DirType' /\ MimeInv' /\ UrlInv' /\ PendingInv' /\ TargetInv' /\ IndexInv' /\ ArchiveInv'
<1>1. /\ pool' \in Seq(DirentType) /\ dirents' \subseteq Ids' /\ UrlInv'
      /\ Ids' = Ids \cup {Len(pool) + 1} /\ pool'[Len(pool) + 1] = r
      /\ \A d \in Ids : pool'[d] = pool[d]
      /\ unresolved' = {d \in dirents' : pool'[d].mime = RedirectMime}
  BY DEF Grown
<1>2. phase' \notin {"resolve", "stop"} \cup Indexed
  BY DEF Early, Indexed
<1>3. DirType'
  BY <1>1, <1>2 DEF DirCore, DirType, MimesGrown
<1>4. MimeInv'
  <2>0. Len(mimeTypes) \in Nat /\ Len(mimeTypes') \in Nat
    BY DEF DirCore, DirType, MimesGrown
  <2>1. ASSUME NEW d \in Ids' PROVE pool'[d].mime = RedirectMime \/ pool'[d].mime < Len(mimeTypes')
    <3>1. CASE d = Len(pool) + 1
      BY <1>1, <3>1 DEF Created
    <3>2. CASE d \in Ids
      <4>1. pool'[d] = pool[d] /\ pool[d].mime \in Nat
        BY <1>1, <3>2, PoolFacts DEF DirCore, DirType
      <4> QED
        BY <2>0, <3>2, <4>1 DEF DirCore, MimeInv, MimesGrown, IsRedirect
    <3> QED
      BY <1>1, <3>1, <3>2
  <2>2. ASSUME NEW d \in Ids', pool'[d].ns \in {NsM, NsX} PROVE ~ (pool'[d].mime = RedirectMime)
    <3>1. CASE d = Len(pool) + 1
      BY <1>1, <2>2, <3>1 DEF Created
    <3>2. CASE d \in Ids
      BY <1>1, <2>2, <3>2 DEF DirCore, MimeInv, IsRedirect
    <3> QED
      BY <1>1, <3>1, <3>2
  <2>3. ASSUME NEW d \in Ids', pool'[d].removed PROVE pool'[d].mime = RedirectMime
    <3>1. d # Len(pool) + 1
      BY <1>1, <2>3 DEF Created
    <3>2. d \in Ids
      BY <1>1, <3>1
    <3> QED
      BY <1>1, <2>3, <3>2 DEF DirCore, MimeInv, IsRedirect
  <2> QED
    BY <2>1, <2>2, <2>3 DEF MimesGrown, MimeInv, IsRedirect
<1>5. PendingInv'
  <2>1. resolving = {}
    BY DEF DirCore, PendingInv, Early
  <2> QED
    BY <1>1, <2>1 DEF PendingInv, IsRedirect
<1>6. TargetInv' /\ IndexInv' /\ ArchiveInv'
  BY <1>2 DEF TargetInv, IndexInv, ArchiveInv, Indexed
<1> QED
  BY <1>1, <1>3, <1>4, <1>5, <1>6

-----------------------------------------------------------------------------
(* Counting clusters *)

ClusterType == [closed : Nat, comp : BOOLEAN, uncomp : BOOLEAN]

\* The number of clusters, for a state of the two open ones.
CountOf(closed, comp, uncomp) == closed + (IF comp THEN 1 ELSE 0) + (IF uncomp THEN 1 ELSE 0)

LEMMA ClusterCountIs ==
  ASSUME NEW c \in ClusterType
  PROVE  /\ c.closed + Cardinality({k \in {"comp", "uncomp"} : c[k]}) = CountOf(c.closed, c.comp, c.uncomp)
         /\ CountOf(c.closed, c.comp, c.uncomp) \in Nat
<1>0. c.closed \in Nat /\ c.comp \in BOOLEAN /\ c.uncomp \in BOOLEAN
  BY DEF ClusterType
<1>1. PICK S : S = {k \in {"comp", "uncomp"} : c[k]}
  OBVIOUS
<1>2. \A k : k \in S <=> (k = "comp" /\ c.comp) \/ (k = "uncomp" /\ c.uncomp)
  BY <1>1
<1>3. Cardinality(S) = (IF c.comp THEN 1 ELSE 0) + (IF c.uncomp THEN 1 ELSE 0)
  <2>1. CASE c.comp /\ c.uncomp
    <3>1. S = {"comp"} \cup {"uncomp"} /\ "uncomp" \notin {"comp"}
      BY <1>2, <2>1
    <3>2. IsFiniteSet({"comp"}) /\ Cardinality({"comp"}) = 1
      BY FS_Singleton
    <3>3. Cardinality(S) = 2
      BY <3>1, <3>2, FS_AddElement
    <3> QED
      BY <2>1, <3>3
  <2>2. CASE c.comp /\ ~ c.uncomp
    <3>1. S = {"comp"}
      BY <1>2, <2>2
    <3>2. Cardinality(S) = 1
      BY <3>1, FS_Singleton
    <3> QED
      BY <2>2, <3>2
  <2>3. CASE ~ c.comp /\ c.uncomp
    <3>1. S = {"uncomp"}
      BY <1>2, <2>3
    <3>2. Cardinality(S) = 1
      BY <3>1, FS_Singleton
    <3> QED
      BY <2>3, <3>2
  <2>4. CASE ~ c.comp /\ ~ c.uncomp
    <3>1. S = {}
      BY <1>2, <2>4
    <3> QED
      BY <2>4, <3>1, FS_EmptySet
  <2> QED
    BY <1>0, <2>1, <2>2, <2>3, <2>4
<1> QED
  BY <1>0, <1>1, <1>3 DEF CountOf

\* addItemData makes at most one cluster more.
LEMMA AddItemDataFacts ==
  ASSUME cluster \in ClusterType, NEW kind \in {"comp", "uncomp"}, AddItemData(kind)
  PROVE  /\ cluster' \in ClusterType
         /\ ClusterCount \in Nat /\ ClusterCount' \in Nat /\ ClusterCount' <= ClusterCount + 1
         /\ cluster.uncomp \/ kind = "uncomp" => cluster'.uncomp
<1>0. cluster.closed \in Nat /\ cluster.comp \in BOOLEAN /\ cluster.uncomp \in BOOLEAN
  BY DEF ClusterType
<1>1. PICK closes \in ClosesCluster :
        cluster' = [cluster EXCEPT ![kind] = TRUE,
                                   !.closed = IF cluster[kind] /\ closes THEN @ + 1 ELSE @]
  BY DEF AddItemData
<1>2. PICK z : z = IF cluster[kind] /\ closes THEN cluster.closed + 1 ELSE cluster.closed
  OBVIOUS
<1>3. z \in Nat /\ z <= cluster.closed + 1 /\ (z # cluster.closed => cluster[kind])
  BY <1>0, <1>2
<1>4. cluster' = [cluster EXCEPT ![kind] = TRUE, !.closed = z]
  BY <1>1, <1>2 DEF ClusterType
<1>5. CASE kind = "comp"
  <2>1. cluster' = [cluster EXCEPT !.comp = TRUE, !.closed = z]
    BY <1>4, <1>5
  <2>2. cluster' \in ClusterType /\ cluster'.comp /\ cluster'.uncomp = cluster.uncomp /\ cluster'.closed = z
    BY <1>3, <2>1 DEF ClusterType
  <2>3. z # cluster.closed => cluster.comp
    BY <1>3, <1>5
  <2> QED
    BY <1>0, <1>3, <1>5, <2>2, <2>3, ClusterCountIs DEF CountOf, ClusterCount
<1>6. CASE kind = "uncomp"
  <2>1. cluster' = [cluster EXCEPT !.uncomp = TRUE, !.closed = z]
    BY <1>4, <1>6
  <2>2. cluster' \in ClusterType /\ cluster'.uncomp /\ cluster'.comp = cluster.comp /\ cluster'.closed = z
    BY <1>3, <2>1 DEF ClusterType
  <2>3. z # cluster.closed => cluster.uncomp
    BY <1>3, <1>6
  <2> QED
    BY <1>0, <1>3, <1>6, <2>2, <2>3, ClusterCountIs DEF CountOf, ClusterCount
<1> QED
  BY <1>5, <1>6

\* The dirents that stand for data, when one is created.
LEMMA GrownCounts ==
  ASSUME DirCore, NEW r, Grown(r)
  PROVE  /\ Cardinality(Stored) \in Nat /\ Cardinality(HandlerDirents) \in Nat
         /\ Cardinality(Stored') = Cardinality(Stored) + (IF r.ns # NsX /\ r.mime # RedirectMime THEN 1 ELSE 0)
         /\ r.ns # NsX => HandlerDirents' = HandlerDirents
         /\ r.ns = NsX => Cardinality(HandlerDirents') = Cardinality(HandlerDirents) + 1
<1>1. /\ Ids' = Ids \cup {Len(pool) + 1} /\ Len(pool) + 1 \notin Ids /\ pool'[Len(pool) + 1] = r
      /\ \A d \in Ids : pool'[d] = pool[d]
  BY DEF Grown
<1>2. /\ IsFiniteSet(Stored) /\ Cardinality(Stored) \in Nat
      /\ IsFiniteSet(HandlerDirents) /\ Cardinality(HandlerDirents) \in Nat
  BY FiniteFacts DEF DirCore, Stored, HandlerDirents
<1>3. Cardinality(Stored') = Cardinality(Stored) + (IF r.ns # NsX /\ r.mime # RedirectMime THEN 1 ELSE 0)
  <2>1. CASE r.ns # NsX /\ r.mime # RedirectMime
    <3>1. Stored' = Stored \cup {Len(pool) + 1} /\ Len(pool) + 1 \notin Stored
      BY <1>1, <2>1 DEF Stored, IsRedirect
    <3> QED
      BY <1>2, <2>1, <3>1, FS_AddElement
  <2>2. CASE ~ (r.ns # NsX /\ r.mime # RedirectMime)
    <3>1. Stored' = Stored
      BY <1>1, <2>2 DEF Stored, IsRedirect
    <3> QED
      BY <1>2, <2>2, <3>1
  <2> QED
    BY <2>1, <2>2
<1>4. r.ns # NsX => HandlerDirents' = HandlerDirents
  BY <1>1 DEF HandlerDirents
<1>5. r.ns = NsX => Cardinality(HandlerDirents') = Cardinality(HandlerDirents) + 1
  <2>1. HAVE r.ns = NsX
  <2>2. HandlerDirents' = HandlerDirents \cup {Len(pool) + 1} /\ Len(pool) + 1 \notin HandlerDirents
    BY <1>1, <2>1 DEF HandlerDirents
  <2> QED
    BY <1>2, <2>2, FS_AddElement
<1> QED
  BY <1>2, <1>3, <1>4, <1>5

-----------------------------------------------------------------------------
(* The API *)

LEMMA CallFacts ==
  /\ \A c \in ItemCalls : /\ c.path \in Nat /\ c.title \in Nat /\ ItemMime(c) \in Nat
                          /\ ItemKind(c) \in {"comp", "uncomp"}
  /\ \A c \in RedirectCalls : c.path \in Nat /\ c.title \in Nat /\ c.target \in Nat
  /\ \A c \in MetadataCalls : c.path \in Nat /\ c.mime \in Nat
  /\ \A m : ClusterKind(m) \in {"comp", "uncomp"}
  /\ \A k \in 1 .. Len(Handlers) : Handlers[k] \in Nat /\ HandlerMime(Handlers[k]) \in Nat
  /\ Len(Handlers) \in Nat /\ Len(Handlers) > 0
<1>1. \A m : ClusterKind(m) \in {"comp", "uncomp"}
  BY DEF ClusterKind
<1>2. ASSUME NEW c \in ItemCalls
      PROVE  /\ c.path \in Nat /\ c.title \in Nat /\ ItemMime(c) \in Nat
             /\ ItemKind(c) \in {"comp", "uncomp"}
  <2>1. c \in ItemCallType
    BY DirectoryAssumption
  <2>2. c.path \in Nat /\ c.title \in Nat /\ c.mime \in Nat /\ c.hint \in {"none", "comp", "uncomp"}
    BY <2>1 DEF ItemCallType
  <2> QED
    BY <1>1, <2>2 DEF ItemMime, ItemKind, OctetStream
<1>3. \A c \in RedirectCalls : c.path \in Nat /\ c.title \in Nat /\ c.target \in Nat
  BY DirectoryAssumption DEF RedirectCallType
<1>4. \A c \in MetadataCalls : c.path \in Nat /\ c.mime \in Nat
  BY DirectoryAssumption DEF MetadataCallType
<1>5. \A k \in 1 .. Len(Handlers) : Handlers[k] \in {1, 2, 3, 4}
  BY DirectoryAssumption DEF FulltextIndex, ListingV0, ListingV1, TitleIndex
<1>6. \A h : HandlerMime(h) \in Nat
  BY DEF HandlerMime, ListingMime, XapianMime
<1>7. Len(Handlers) \in Nat /\ Len(Handlers) > 0
  BY DirectoryAssumption
<1> QED
  BY <1>1, <1>2, <1>3, <1>4, <1>5, <1>6, <1>7

\* A dirent is created while the API may be called: nothing of W and X is there.
LEMMA ApiAdd ==
  ASSUME DirCore, phase = "api", phase' = "api", NEW r, Grown(r), Created(r), MimesGrown, r.ns \in {NsC, NsM},
         UNCHANGED <<mainPath, faviconPath, mainPageDirent, next, resolving>>,
         cluster' \in ClusterType, ClusterCount \in Nat, ClusterCount' \in Nat,
         ClusterCount' <= ClusterCount + (IF r.mime # RedirectMime THEN 1 ELSE 0)
  PROVE  DirCore'
<1>1. DirType' /\ MimeInv' /\ UrlInv' /\ PendingInv' /\ TargetInv' /\ IndexInv' /\ ArchiveInv'
  BY GrownInv DEF DirCore, DirType, Early
<1>2. r.ns # NsW /\ r.ns # NsX
  BY DEF NsC, NsM, NsW, NsX
<1>3. MainInv'
  <2>1. \A d \in Ids' : pool'[d].ns # NsW
    BY <1>2 DEF Grown, DirCore, MainInv
  <2> QED
    BY <2>1 DEF DirCore, MainInv
<1>4. CountInv'
  <2>1. /\ Cardinality(Stored) \in Nat
        /\ Cardinality(Stored') = Cardinality(Stored) + (IF r.mime # RedirectMime THEN 1 ELSE 0)
        /\ HandlerDirents' = HandlerDirents
    BY <1>2, GrownCounts
  <2>2. ClusterCount <= Cardinality(Stored) /\ HandlerDirents = {}
    <3>1. ClusterCount <= Cardinality(Stored) + 0 /\ HandlerDirents = {}
      BY DEF DirCore, CountInv
    <3> QED
      BY <2>1, <3>1
  <2>3. ClusterCount' <= Cardinality(Stored')
    BY <2>1, <2>2
  <2> QED
    BY <2>1, <2>2, <2>3 DEF CountInv, ClusterType, Early
<1> QED
  BY <1>1, <1>3, <1>4 DEF DirCore

LEMMA ClusterTyped == ASSUME DirCore PROVE cluster \in ClusterType /\ ClusterCount \in Nat
<1>1. cluster \in ClusterType
  BY DEF DirCore, CountInv, ClusterType
<1> QED
  BY <1>1, ClusterCountIs DEF ClusterCount

LEMMA AddItemStep == ASSUME DirCore, NEW c \in ItemCalls, AddItem(c) PROVE DirCore'
<1>1. PICK r : /\ Grown(r) /\ Created(r) /\ MimesGrown /\ r.ns = NsC /\ r.mime # RedirectMime
  BY CallFacts, ItemCreated DEF AddItem, Early
<1>2. cluster' \in ClusterType /\ ClusterCount \in Nat /\ ClusterCount' \in Nat /\ ClusterCount' <= ClusterCount + 1
  BY CallFacts, ClusterTyped, AddItemDataFacts DEF AddItem
<1> QED
  BY <1>1, <1>2, ApiAdd DEF AddItem

LEMMA AddMetadataStep == ASSUME DirCore, NEW c \in MetadataCalls, AddMetadata(c) PROVE DirCore'
<1>1. PICK r : /\ Grown(r) /\ Created(r) /\ MimesGrown /\ r.ns = NsM /\ r.mime # RedirectMime
  BY CallFacts, ItemCreated DEF AddMetadata, Early, Empty
<1>2. cluster' \in ClusterType /\ ClusterCount \in Nat /\ ClusterCount' \in Nat /\ ClusterCount' <= ClusterCount + 1
  BY CallFacts, ClusterTyped, AddItemDataFacts DEF AddMetadata
<1> QED
  BY <1>1, <1>2, ApiAdd DEF AddMetadata

LEMMA AddRedirectionStep == ASSUME DirCore, NEW c \in RedirectCalls, AddRedirection(c) PROVE DirCore'
<1>1. PICK r : /\ Grown(r) /\ Created(r) /\ MimesGrown /\ r.ns = NsC /\ r.mime = RedirectMime
  BY CallFacts, RedirectCreated DEF AddRedirection, Early
<1>2. cluster' \in ClusterType /\ ClusterCount \in Nat /\ ClusterCount' = ClusterCount
  BY ClusterTyped DEF AddRedirection, ClusterCount
<1> QED
  BY <1>1, <1>2, ApiAdd DEF AddRedirection

-----------------------------------------------------------------------------
(* finishZimCreation creates its dirents *)

\* What the invariant says of the directory does not depend on anything else.
LEMMA DirectoryFixed ==
  ASSUME DirCore, UNCHANGED <<pool, dirents, unresolved, mimeTypes, resolving>>, phase' \in Early, phase \in Early,
         mainPath' \in Nat, faviconPath' \in Nat, next' \in Nat, phase' = "handlers" => next' >= 1
  PROVE  /\ DirType' /\ MimeInv' /\ UrlInv' /\ PendingInv' /\ TargetInv' /\ IndexInv' /\ ArchiveInv'
         /\ Stored' = Stored /\ HandlerDirents' = HandlerDirents /\ Ids' = Ids
<1>1. phase' \notin {"resolve", "stop", "mimes", "done"}
  BY DEF Early
<1>2. DirType' /\ MimeInv' /\ UrlInv' /\ Ids' = Ids
  BY <1>1 DEF DirCore, DirType, MimeInv, UrlInv, Ids, IsRedirect
<1>3. PendingInv'
  BY DEF DirCore, PendingInv, IsRedirect, Early
<1>4. TargetInv' /\ IndexInv' /\ ArchiveInv'
  BY <1>1 DEF TargetInv, IndexInv, ArchiveInv, Indexed
<1>5. Stored' = Stored /\ HandlerDirents' = HandlerDirents
  BY <1>2 DEF Stored, HandlerDirents, IsRedirect
<1> QED
  BY <1>2, <1>3, <1>4, <1>5

LEMMA ApiOther ==
  ASSUME DirCore,
         \/ \E c \in ItemCalls : AddThrows(ItemMime(c))
         \/ \E c \in MetadataCalls : AddThrows(c.mime)
         \/ \E p \in MainPaths : SetMainPath(p)
         \/ \E p \in FaviconPaths : SetFaviconPath(p)
         \/ FinishZimCreation
  PROVE  DirCore'
<1>1. /\ phase = "api" /\ phase' \in {"api", "favicon"}
      /\ UNCHANGED <<pool, dirents, unresolved, mimeTypes, resolving, cluster, next, mainPageDirent>>
      /\ mainPath' \in Nat /\ faviconPath' \in Nat
  BY DirectoryAssumption DEF AddThrows, SetMainPath, SetFaviconPath, FinishZimCreation, dirVars, DirCore, DirType
<1>2. phase \in Early /\ phase' \in Early /\ next' \in Nat
  BY <1>1 DEF Early, DirCore, DirType
<1>3. /\ DirType' /\ MimeInv' /\ UrlInv' /\ PendingInv' /\ TargetInv' /\ IndexInv' /\ ArchiveInv'
      /\ Stored' = Stored /\ HandlerDirents' = HandlerDirents /\ Ids' = Ids
  BY <1>1, <1>2, DirectoryFixed
<1>4. MainInv'
  BY <1>1, <1>3 DEF DirCore, MainInv
<1>5. CountInv'
  BY <1>1, <1>2, <1>3 DEF DirCore, CountInv, ClusterCount
<1> QED
  BY <1>3, <1>4, <1>5 DEF DirCore

LEMMA CreateFaviconStep == ASSUME DirCore, CreateFavicon PROVE DirCore'
<1>0. /\ phase = "favicon" /\ phase' = "mainPage" /\ phase \in Early /\ phase' \in Early
      /\ UNCHANGED <<mainPath, faviconPath, mainPageDirent, next, resolving, cluster>>
      /\ next' \in Nat /\ mainPath' \in Nat /\ faviconPath' \in Nat
  BY DEF CreateFavicon, Early, DirCore, DirType
<1>c. ClusterCount' = ClusterCount /\ cluster' \in ClusterType
  BY <1>0, ClusterTyped DEF ClusterCount
<1>1. CASE faviconPath = Empty
  <2>1. /\ DirType' /\ MimeInv' /\ UrlInv' /\ PendingInv' /\ TargetInv' /\ IndexInv' /\ ArchiveInv'
        /\ Stored' = Stored /\ HandlerDirents' = HandlerDirents /\ Ids' = Ids /\ pool' = pool
    BY <1>0, <1>1, DirectoryFixed DEF CreateFavicon, dirVars
  <2>2. MainInv'
    BY <1>0, <2>1 DEF DirCore, MainInv
  <2>3. CountInv'
    BY <1>0, <1>c, <2>1 DEF DirCore, CountInv
  <2> QED
    BY <2>1, <2>2, <2>3 DEF DirCore
<1>2. CASE faviconPath # Empty
  <2>1. PICK r : Grown(r) /\ Created(r) /\ MimesGrown /\ r.ns = NsW /\ r.path = Favicon /\ r.mime = RedirectMime
    <3>1. CreateRedirectDirent(NsW, Favicon, Empty, faviconPath)
      BY <1>2 DEF CreateFavicon
    <3>2. Favicon \in Nat /\ Empty \in Nat /\ faviconPath \in Nat
      BY <1>0 DEF Favicon, Empty
    <3> QED
      BY <1>0, <3>1, <3>2, RedirectCreated
  <2>2. DirType' /\ MimeInv' /\ UrlInv' /\ PendingInv' /\ TargetInv' /\ IndexInv' /\ ArchiveInv'
    BY <1>0, <2>1, GrownInv
  <2>3. MainInv'
    <3>1. \A d \in Ids' : pool'[d].ns = NsW => pool'[d].path = Favicon
      BY <1>0, <2>1 DEF Grown, DirCore, MainInv
    <3> QED
      BY <1>0, <3>1 DEF DirCore, MainInv
  <2>4. CountInv'
    <3>1. NsW # NsX
      BY DEF NsW, NsX
    <3>2. /\ Cardinality(Stored) \in Nat /\ HandlerDirents' = HandlerDirents
          /\ Cardinality(Stored') = Cardinality(Stored) + 0
      BY <2>1, <3>1, GrownCounts
    <3> QED
      BY <1>0, <1>c, <3>2 DEF DirCore, CountInv
  <2> QED
    BY <2>2, <2>3, <2>4 DEF DirCore
<1> QED
  BY <1>1, <1>2

LEMMA CreateMainPageStep == ASSUME DirCore, CreateMainPage PROVE DirCore'
<1>0. /\ phase = "mainPage" /\ phase' = "handlers" /\ phase \in Early /\ phase' \in Early
      /\ UNCHANGED <<mainPath, faviconPath, resolving, cluster>>
      /\ next' = 1 /\ mainPath' \in Nat /\ faviconPath' \in Nat
  BY DEF CreateMainPage, Early, DirCore, DirType
<1>c. ClusterCount' = ClusterCount /\ cluster' \in ClusterType
  BY <1>0, ClusterTyped DEF ClusterCount
<1>h. HandlerDirents = {} /\ Cardinality({}) = 0 /\ Len(Handlers) \in Nat
  BY <1>0, FS_EmptySet, CallFacts DEF DirCore, CountInv
<1>1. CASE mainPath = Empty
  <2>1. /\ DirType' /\ MimeInv' /\ UrlInv' /\ PendingInv' /\ TargetInv' /\ IndexInv' /\ ArchiveInv'
        /\ Stored' = Stored /\ HandlerDirents' = HandlerDirents /\ Ids' = Ids /\ pool' = pool
    BY <1>0, <1>1, DirectoryFixed DEF CreateMainPage, dirVars
  <2>2. MainInv'
    BY <1>0, <1>1, <2>1 DEF CreateMainPage, DirCore, MainInv
  <2>3. CountInv'
    BY <1>0, <1>c, <1>h, <2>1 DEF DirCore, CountInv
  <2> QED
    BY <2>1, <2>2, <2>3 DEF DirCore
<1>2. CASE mainPath # Empty
  <2>1. PICK r : /\ Grown(r) /\ Created(r) /\ MimesGrown
                 /\ r.ns = NsW /\ r.path = MainPage /\ r.mime = RedirectMime /\ r.target = mainPath
    <3>1. CreateRedirectDirent(NsW, MainPage, Empty, mainPath)
      BY <1>2 DEF CreateMainPage
    <3>2. MainPage \in Nat /\ Empty \in Nat /\ mainPath \in Nat
      BY <1>0 DEF MainPage, Empty
    <3> QED
      BY <1>0, <3>1, <3>2, RedirectCreated
  <2>2. DirType' /\ MimeInv' /\ UrlInv' /\ PendingInv' /\ TargetInv' /\ IndexInv' /\ ArchiveInv'
    BY <1>0, <2>1, GrownInv
  <2>3. MainInv'
    <3>1. \A d \in Ids : ~ (pool[d].ns = r.ns /\ pool[d].path = r.path)
      BY <1>0, <2>1 DEF DirCore, MainInv, Favicon, MainPage
    <3>2. /\ mainPageDirent' = Len(pool) + 1 /\ Len(pool) + 1 \in dirents' /\ pool'[Len(pool) + 1] = r
          /\ Len(pool) + 1 # 0
      <4>1. mainPageDirent' = Len(pool')
        BY <1>2 DEF CreateMainPage
      <4>2. Len(pool) \in Nat
        BY PoolFacts DEF DirCore, DirType
      <4> QED
        BY <2>1, <3>1, <4>1, <4>2 DEF Grown
    <3> QED
      BY <1>0, <2>1, <3>2 DEF MainInv, IsRedirect
  <2>4. CountInv'
    <3>1. NsW # NsX
      BY DEF NsW, NsX
    <3>2. /\ Cardinality(Stored) \in Nat /\ HandlerDirents' = HandlerDirents
          /\ Cardinality(Stored') = Cardinality(Stored) + 0
      BY <2>1, <3>1, GrownCounts
    <3> QED
      BY <1>0, <1>c, <1>h, <3>2 DEF DirCore, CountInv
  <2> QED
    BY <2>2, <2>3, <2>4 DEF DirCore
<1> QED
  BY <1>1, <1>2

LEMMA CreateHandlerDirentStep == ASSUME DirCore, CreateHandlerDirent PROVE DirCore'
<1>0. /\ phase = "handlers" /\ phase' = "handlers" /\ phase \in Early /\ phase' \in Early
      /\ UNCHANGED <<mainPath, faviconPath, mainPageDirent, resolving, cluster>>
      /\ next \in 1 .. Len(Handlers) /\ next' = next + 1 /\ mainPath' \in Nat /\ faviconPath' \in Nat
  BY CallFacts DEF CreateHandlerDirent, Early, DirCore, DirType
<1>c. ClusterCount' = ClusterCount /\ cluster' \in ClusterType
  BY <1>0, ClusterTyped DEF ClusterCount
<1>1. PICK r : Grown(r) /\ Created(r) /\ MimesGrown /\ r.ns = NsX /\ r.mime # RedirectMime
  BY <1>0, CallFacts, ItemCreated DEF CreateHandlerDirent, Empty
<1>2. DirType' /\ MimeInv' /\ UrlInv' /\ PendingInv' /\ TargetInv' /\ IndexInv' /\ ArchiveInv'
  BY <1>0, <1>1, GrownInv, CallFacts
<1>3. MainInv'
  <2>1. mainPageDirent = 0 => mainPath = Empty
    BY <1>0 DEF DirCore, MainInv
  <2>2. ASSUME mainPageDirent # 0
        PROVE  mainPageDirent \in dirents' /\ mainPageDirent \in Ids /\ pool'[mainPageDirent] = pool[mainPageDirent]
    <3>1. mainPageDirent \in dirents /\ pool[mainPageDirent].ns # NsX
      BY <2>2 DEF DirCore, MainInv, NsW, NsX
    <3> QED
      BY <1>1, <3>1 DEF Grown, DirCore, DirType
  <2> QED
    BY <1>0, <2>1, <2>2 DEF DirCore, MainInv, IsRedirect
<1>4. CountInv'
  <2>1. /\ Cardinality(Stored) \in Nat /\ Cardinality(HandlerDirents) \in Nat
        /\ Cardinality(HandlerDirents') = Cardinality(HandlerDirents) + 1
        /\ Cardinality(Stored') = Cardinality(Stored) + 0
    BY <1>1, GrownCounts
  <2>2. Cardinality(HandlerDirents') = next' - 1 /\ next' <= Len(Handlers) + 1
    BY <1>0, <2>1, CallFacts DEF DirCore, CountInv
  <2> QED
    BY <1>0, <1>c, <2>1, <2>2 DEF DirCore, CountInv
<1> QED
  BY <1>2, <1>3, <1>4 DEF DirCore

LEMMA FinishThrowsStep == ASSUME DirCore, FinishThrows PROVE DirCore'
<1>0. /\ phase = "handlers" /\ phase' = "threw" /\ phase \in Early /\ phase' \in Early
      /\ UNCHANGED <<pool, dirents, unresolved, mimeTypes, mainPath, faviconPath, mainPageDirent, resolving, cluster, next>>
      /\ next' \in Nat /\ mainPath' \in Nat /\ faviconPath' \in Nat
  BY DEF FinishThrows, Early, DirCore, DirType, dirVars
<1>c. ClusterCount' = ClusterCount /\ cluster' \in ClusterType
  BY <1>0, ClusterTyped DEF ClusterCount
<1>1. /\ DirType' /\ MimeInv' /\ UrlInv' /\ PendingInv' /\ TargetInv' /\ IndexInv' /\ ArchiveInv'
      /\ Stored' = Stored /\ HandlerDirents' = HandlerDirents /\ Ids' = Ids
  BY <1>0, DirectoryFixed
<1>2. MainInv'
  BY <1>0 DEF DirCore, MainInv, IsRedirect
<1>3. CountInv'
  BY <1>0, <1>c, <1>1 DEF DirCore, CountInv
<1> QED
  BY <1>1, <1>2, <1>3 DEF DirCore

LEMMA StartResolvingStep == ASSUME DirCore, StartResolving PROVE DirCore'
<1>0. /\ phase = "handlers" /\ phase' = "resolve" /\ phase \in Early /\ phase' \notin Early /\ phase' \notin Indexed
      /\ UNCHANGED <<pool, dirents, unresolved, mimeTypes, mainPath, faviconPath, mainPageDirent, cluster, next>>
      /\ resolving' = unresolved /\ next > Len(Handlers)
  BY DEF StartResolving, Early, Indexed, DirCore, DirType, dirVars
<1>c. ClusterCount' = ClusterCount /\ cluster' \in ClusterType
  BY <1>0, ClusterTyped DEF ClusterCount
<1>1. unresolved = {d \in dirents : IsRedirect(d)}
  BY <1>0 DEF DirCore, PendingInv
<1>2. DirType' /\ MimeInv' /\ UrlInv' /\ Ids' = Ids
  BY <1>0 DEF DirCore, DirType, MimeInv, UrlInv, Ids, IsRedirect
<1>3. PendingInv' /\ TargetInv' /\ IndexInv' /\ ArchiveInv'
  BY <1>0, <1>1 DEF PendingInv, TargetInv, IndexInv, ArchiveInv, IsRedirect, Indexed
<1>4. MainInv'
  BY <1>0 DEF DirCore, MainInv, IsRedirect
<1>5. CountInv'
  <2>1. Stored' = Stored /\ HandlerDirents' = HandlerDirents
    BY <1>0, <1>2 DEF Stored, HandlerDirents, IsRedirect
  <2>2. next = Len(Handlers) + 1
    BY <1>0, CallFacts DEF DirCore, CountInv, DirType
  <2> QED
    BY <1>0, <1>c, <2>1, <2>2, CallFacts DEF DirCore, CountInv
<1> QED
  BY <1>2, <1>3, <1>4, <1>5 DEF DirCore

-----------------------------------------------------------------------------
(* finishZimCreation resolves redirects, indexes and MIME types *)

\* No dirent comes or goes, and none is renamed.
Kept ==
  /\ pool' \in Seq(DirentType) /\ Ids' = Ids
  /\ \A d \in Ids : /\ pool'[d].ns = pool[d].ns /\ pool'[d].path = pool[d].path
                    /\ pool'[d].target = pool[d].target

LEMMA KeptFunction ==
  ASSUME pool \in Seq(DirentType), pool' \in [1 .. Len(pool) -> DirentType]
  PROVE  pool' \in Seq(DirentType) /\ Ids' = Ids
<1>1. Len(pool) \in Nat
  OBVIOUS
<1>2. pool' \in Seq(DirentType)
  BY <1>1, SeqDef
<1>3. Len(pool') = Len(pool)
  BY <1>1, <1>2
<1> QED
  BY <1>2, <1>3 DEF Ids

\* The redirects keep being redirects, and nothing else becomes one.
SameKinds == \A d \in Ids : pool'[d].mime = RedirectMime <=> IsRedirect(d)

LEMMA KeptRanks ==
  ASSUME DirType, Kept, dirents' = dirents
  PROVE  \A d \in Ids : UrlRank(d)' = UrlRank(d)
<1>1. \A d, e \in Ids : UrlLess(d, e)' <=> UrlLess(d, e)
  BY DEF Kept, UrlLess
<1>2. ASSUME NEW d \in Ids PROVE UrlRank(d)' = UrlRank(d)
  <2>1. {e \in dirents' : UrlLess(e, d)'} = {e \in dirents : UrlLess(e, d)}
    BY <1>1 DEF DirType
  <2> QED
    BY <2>1 DEF UrlRank
<1> QED
  BY <1>2

LEMMA KeptCounts ==
  ASSUME DirType, Kept, SameKinds
  PROVE  Stored' = Stored /\ HandlerDirents' = HandlerDirents
BY DEF Kept, SameKinds, Stored, HandlerDirents, IsRedirect

LEMMA KeptMimes ==
  ASSUME DirCore, Kept, SameKinds, mimeTypes' = mimeTypes,
         \A d \in Ids : /\ pool'[d].mime = RedirectMime \/ pool'[d].mime < Len(mimeTypes)
                        /\ pool'[d].removed => pool[d].removed \/ IsRedirect(d)
  PROVE  MimeInv'
<1>1. \A d \in Ids' : pool'[d].ns \in {NsM, NsX} => ~ (pool'[d].mime = RedirectMime)
  BY DEF Kept, SameKinds, DirCore, MimeInv
<1>2. ASSUME NEW d \in Ids', pool'[d].removed PROVE pool'[d].mime = RedirectMime
  <2>1. d \in Ids
    BY DEF Kept
  <2>2. pool[d].removed \/ IsRedirect(d)
    BY <1>2, <2>1
  <2>3. IsRedirect(d)
    BY <2>1, <2>2 DEF DirCore, MimeInv
  <2> QED
    BY <2>1, <2>3 DEF SameKinds
<1>3. \A d \in Ids' : pool'[d].mime = RedirectMime \/ pool'[d].mime < Len(mimeTypes)
  BY DEF Kept
<1> QED
  BY <1>1, <1>2, <1>3 DEF DirCore, MimeInv, IsRedirect

\* No step takes an item out of the directory or makes it a redirect.
ItemsKept == \A d \in dirents : ~IsRedirect(d) => d \in dirents' /\ ~IsRedirect(d)'

LEMMA ResolveRedirectStep == ASSUME DirCore, ResolveRedirect PROVE DirCore' /\ ItemsKept
<1>0. /\ phase = "resolve" /\ phase' = "resolve" /\ phase \notin Early /\ phase \notin Indexed
      /\ UNCHANGED <<mimeTypes, mainPath, faviconPath, next, cluster>>
  BY DEF ResolveRedirect, Early, Indexed
<1>t. pool \in Seq(DirentType) /\ dirents \subseteq Ids /\ Ids = 1 .. Len(pool)
  BY DEF DirCore, DirType, Ids
<1>1. PICK d \in resolving :
        LET found == WithUrl(NsC, pool[d].target)
        IN  /\ \A e \in resolving : ~UrlLess(e, d)
            /\ resolving' = resolving \ {d}
            /\ \/ /\ found = {}
                  /\ dirents' = dirents \ {d}
                  /\ pool' = [pool EXCEPT ![d].removed = TRUE]
                  /\ mainPageDirent' = MainPageWithout(d)
               \/ /\ found # {}
                  /\ pool' = [pool EXCEPT ![d].to = CHOOSE e \in found : TRUE]
                  /\ UNCHANGED <<dirents, mainPageDirent>>
  BY DEF ResolveRedirect
<1>2. d \in dirents /\ d \in Ids /\ IsRedirect(d) /\ resolving \subseteq dirents
  BY <1>t DEF DirCore, PendingInv
<1>r. PICK b \in DirentType : b = pool[d]
  BY <1>2, <1>t, PoolFacts
<1>3. CASE /\ WithUrl(NsC, pool[d].target) = {}
           /\ dirents' = dirents \ {d}
           /\ pool' = [pool EXCEPT ![d].removed = TRUE]
           /\ mainPageDirent' = MainPageWithout(d)
  <2>0. PICK r : r = [b EXCEPT !.removed = TRUE]
    OBVIOUS
  <2>1. /\ r \in DirentType /\ r.ns = b.ns /\ r.path = b.path
        /\ r.target = b.target /\ r.mime = b.mime /\ r.to = b.to
    BY <2>0 DEF DirentType
  <2>2. pool' = [pool EXCEPT ![d] = r]
    BY <1>3, <1>r, <2>0
  <2>3. /\ pool' \in Seq(DirentType) /\ Len(pool') = Len(pool)
        /\ \A e \in 1 .. Len(pool) : pool'[e] = IF e = d THEN r ELSE pool[e]
    BY <1>2, <1>t, <2>1, <2>2, ExceptSeq
  <2>4. /\ Kept /\ SameKinds
        /\ \A e \in Ids : /\ pool'[e].mime = pool[e].mime /\ pool'[e].to = pool[e].to
                          /\ e # d => pool'[e].removed = pool[e].removed
    BY <1>t, <1>r, <2>1, <2>3 DEF Kept, SameKinds, Ids, IsRedirect
  <2>5. DirType'
    BY <1>0, <1>3, <1>t, <2>4 DEF Kept, DirCore, DirType
  <2>6. MimeInv'
    BY <1>0, <1>2, <2>4, KeptMimes DEF DirCore, MimeInv, IsRedirect
  <2>7. UrlInv'
    BY <1>3, <1>t, <2>4 DEF Kept, DirCore, UrlInv
  <2>8. PendingInv'
    BY <1>0, <1>1, <1>3, <1>t, <2>4 DEF SameKinds, DirCore, PendingInv, IsRedirect, Early
  <2>9. TargetInv'
    <3>1. ASSUME NEW e \in dirents' \ resolving', pool'[e].mime = RedirectMime, NEW f, f = pool'[e].to
          PROVE  /\ f \in Ids' /\ pool'[f].ns = NsC /\ pool'[f].path = pool'[e].target
                 /\ pool'[e].ns = NsW => f \in dirents' \ resolving'
      <4>1. e \in dirents \ resolving /\ e \in Ids /\ IsRedirect(e) /\ f = pool[e].to
        BY <1>1, <1>3, <1>t, <2>4, <3>1 DEF SameKinds
      <4>2. /\ f \in Ids /\ pool[f].ns = NsC /\ pool[f].path = pool[e].target
            /\ pool[e].ns = NsW => f \in dirents \ resolving
        BY <1>0, <4>1 DEF DirCore, TargetInv
      <4> QED
        BY <1>1, <1>3, <2>4, <4>1, <4>2 DEF Kept
    <3> QED
      BY <3>1 DEF TargetInv, IsRedirect
  <2>10. MainInv'
    <3>1. \A q : WithUrl(NsC, q) = {} => WithUrl(NsC, q)' = {}
      BY <1>3, <1>t, <2>4 DEF Kept, WithUrl
    <3>2. CASE d = mainPageDirent
      <4>1. mainPageDirent' = 0
        BY <1>3, <3>2 DEF MainPageWithout
      <4>m. mainPageDirent # 0
        BY <1>2, <1>t, <3>2
      <4>t. pool[d].target = mainPath
        BY <3>2, <4>m DEF DirCore, MainInv
      <4>2. WithUrl(NsC, mainPath) = {}
        BY <1>3, <4>t
      <4> QED
        BY <1>0, <3>1, <4>1, <4>2 DEF MainInv, Early
    <3>3. CASE d # mainPageDirent
      <4>1. mainPageDirent' = mainPageDirent
        BY <1>3, <3>3 DEF MainPageWithout
      <4>2. CASE mainPageDirent = 0
        BY <1>0, <3>1, <4>1, <4>2 DEF DirCore, MainInv
      <4>3. CASE mainPageDirent # 0
        <5>1. mainPageDirent \in dirents' /\ mainPageDirent \in Ids
          BY <1>3, <1>t, <3>3, <4>3 DEF DirCore, MainInv
        <5> QED
          BY <1>0, <2>4, <4>1, <4>3, <5>1 DEF Kept, DirCore, MainInv, IsRedirect
      <4> QED
        BY <4>2, <4>3
    <3> QED
      BY <3>2, <3>3
  <2>11. CountInv'
    BY <1>0, <2>4, KeptCounts DEF DirCore, CountInv, ClusterCount
  <2>12. ItemsKept
    BY <1>2, <1>3, <1>t, <2>4 DEF ItemsKept, IsRedirect
  <2> QED
    BY <1>0, <2>5, <2>6, <2>7, <2>8, <2>9, <2>10, <2>11, <2>12 DEF DirCore, IndexInv, ArchiveInv, Indexed
<1>4. CASE /\ WithUrl(NsC, pool[d].target) # {}
           /\ pool' = [pool EXCEPT ![d].to = CHOOSE e \in WithUrl(NsC, pool[d].target) : TRUE]
           /\ UNCHANGED <<dirents, mainPageDirent>>
  <2>0. PICK g \in WithUrl(NsC, pool[d].target) : pool' = [pool EXCEPT ![d].to = g]
    BY <1>4
  <2>g. g \in dirents /\ g \in Ids /\ g \in Nat /\ pool[g].ns = NsC /\ pool[g].path = b.target
    BY <1>r, <1>t DEF WithUrl
  <2>r. PICK r : r = [b EXCEPT !.to = g]
    OBVIOUS
  <2>1. /\ r \in DirentType /\ r.ns = b.ns /\ r.path = b.path
        /\ r.target = b.target /\ r.mime = b.mime /\ r.to = g /\ r.removed = b.removed
    BY <2>g, <2>r DEF DirentType
  <2>2. pool' = [pool EXCEPT ![d] = r]
    BY <1>r, <2>0, <2>r
  <2>3. /\ pool' \in Seq(DirentType) /\ Len(pool') = Len(pool)
        /\ \A e \in 1 .. Len(pool) : pool'[e] = IF e = d THEN r ELSE pool[e]
    BY <1>2, <1>t, <2>1, <2>2, ExceptSeq
  <2>4. /\ Kept /\ SameKinds
        /\ \A e \in Ids : /\ pool'[e].mime = pool[e].mime /\ pool'[e].removed = pool[e].removed
                          /\ e # d => pool'[e].to = pool[e].to
        /\ pool'[d].to = g
    BY <1>2, <1>t, <1>r, <2>1, <2>3 DEF Kept, SameKinds, Ids, IsRedirect
  <2>5. DirType'
    BY <1>0, <1>4, <1>t, <2>4 DEF Kept, DirCore, DirType
  <2>6. MimeInv'
    BY <1>0, <1>2, <2>4, KeptMimes DEF DirCore, MimeInv, IsRedirect
  <2>7. UrlInv'
    BY <1>4, <1>t, <2>4 DEF Kept, DirCore, UrlInv
  <2>8. PendingInv'
    BY <1>0, <1>1, <1>4, <1>t, <2>4 DEF SameKinds, DirCore, PendingInv, IsRedirect, Early
  <2>9. TargetInv'
    <3>1. ASSUME NEW e \in dirents' \ resolving', pool'[e].mime = RedirectMime, NEW f, f = pool'[e].to
          PROVE  /\ f \in Ids' /\ pool'[f].ns = NsC /\ pool'[f].path = pool'[e].target
                 /\ pool'[e].ns = NsW => f \in dirents' \ resolving'
      <4>1. CASE e # d
        <5>1. e \in dirents \ resolving /\ e \in Ids /\ IsRedirect(e) /\ f = pool[e].to
          BY <1>1, <1>4, <1>t, <2>4, <3>1, <4>1 DEF SameKinds
        <5>2. /\ f \in Ids /\ pool[f].ns = NsC /\ pool[f].path = pool[e].target
              /\ pool[e].ns = NsW => f \in dirents \ resolving
          BY <1>0, <5>1 DEF DirCore, TargetInv
        <5> QED
          BY <1>1, <1>4, <2>4, <5>1, <5>2 DEF Kept
      <4>2. CASE e = d
        <5>1. f = g /\ pool'[g].ns = NsC /\ pool'[g].path = pool'[d].target
          BY <1>2, <1>r, <2>4, <2>g, <3>1, <4>2 DEF Kept
        <5>2. pool'[d].ns = NsW => g \notin resolving
          <6>1. HAVE pool'[d].ns = NsW
          <6>2. pool[d].ns = NsW
            BY <1>2, <2>4, <6>1 DEF Kept
          <6>3. UrlLess(g, d)
            BY <2>g, <6>2 DEF UrlLess, NsC, NsW
          <6> QED
            BY <1>1, <6>3
        <5> QED
          BY <1>1, <1>4, <2>4, <2>g, <4>2, <5>1, <5>2 DEF Kept
      <4> QED
        BY <4>1, <4>2
    <3> QED
      BY <3>1 DEF TargetInv, IsRedirect
  <2>10. MainInv'
    <3>1. \A q : WithUrl(NsC, q) = {} => WithUrl(NsC, q)' = {}
      BY <1>4, <1>t, <2>4 DEF Kept, WithUrl
    <3>2. CASE mainPageDirent = 0
      BY <1>0, <1>4, <3>1, <3>2 DEF DirCore, MainInv
    <3>3. CASE mainPageDirent # 0
      <4>1. mainPageDirent \in dirents' /\ mainPageDirent \in Ids
        BY <1>4, <1>t, <3>3 DEF DirCore, MainInv
      <4> QED
        BY <1>0, <1>4, <2>4, <3>3, <4>1 DEF Kept, DirCore, MainInv, IsRedirect
    <3> QED
      BY <3>2, <3>3
  <2>11. CountInv'
    BY <1>0, <2>4, KeptCounts DEF DirCore, CountInv, ClusterCount
  <2>12. ItemsKept
    BY <1>4, <1>t, <2>4 DEF ItemsKept, IsRedirect
  <2> QED
    BY <1>0, <2>5, <2>6, <2>7, <2>8, <2>9, <2>10, <2>11, <2>12 DEF DirCore, IndexInv, ArchiveInv, Indexed
<1> QED
  BY <1>1, <1>3, <1>4

\* What the later steps, which keep the directory, leave true.
LEMMA KeptInv ==
  ASSUME DirCore, Kept, SameKinds, phase \notin Early, phase' \notin Early,
         UNCHANGED <<dirents, mimeTypes, mainPath, faviconPath, mainPageDirent, resolving>>,
         \A d \in Ids : pool'[d].to = pool[d].to
  PROVE  UrlInv' /\ TargetInv' /\ MainInv'
<1>t. dirents \subseteq Ids
  BY DEF DirCore, DirType
<1>k. /\ Ids' = Ids
      /\ \A d \in Ids : /\ pool'[d].ns = pool[d].ns /\ pool'[d].path = pool[d].path
                        /\ pool'[d].target = pool[d].target /\ pool'[d].to = pool[d].to
                        /\ IsRedirect(d)' <=> IsRedirect(d)
  BY DEF Kept, SameKinds, IsRedirect
<1>1. UrlInv'
  BY <1>t, <1>k DEF DirCore, UrlInv
<1>2. TargetInv'
  <2>1. ASSUME NEW e \in dirents' \ resolving', IsRedirect(e)', NEW f, f = pool'[e].to
        PROVE  /\ f \in Ids' /\ pool'[f].ns = NsC /\ pool'[f].path = pool'[e].target
               /\ pool'[e].ns = NsW => f \in dirents' \ resolving'
    <3>1. e \in dirents \ resolving /\ e \in Ids /\ IsRedirect(e) /\ f = pool[e].to
      BY <1>t, <1>k, <2>1
    <3>2. /\ f \in Ids /\ pool[f].ns = NsC /\ pool[f].path = pool[e].target
          /\ pool[e].ns = NsW => f \in dirents \ resolving
      BY <3>1 DEF DirCore, TargetInv
    <3> QED
      BY <1>k, <3>1, <3>2
  <2> QED
    BY <2>1 DEF TargetInv
<1>3. MainInv'
  <2>1. \A q : WithUrl(NsC, q) = {} => WithUrl(NsC, q)' = {}
    BY <1>t, <1>k DEF WithUrl
  <2>2. phase' \notin {"api", "favicon", "mainPage"} /\ phase \notin {"api", "favicon", "mainPage"}
    BY DEF Early
  <2>3. CASE mainPageDirent = 0
    BY <2>1, <2>2, <2>3 DEF DirCore, MainInv
  <2>4. CASE mainPageDirent # 0
    <3>1. mainPageDirent \in dirents /\ mainPageDirent \in Ids
      BY <1>t, <2>4 DEF DirCore, MainInv
    <3> QED
      BY <1>k, <2>2, <2>4, <3>1 DEF DirCore, MainInv
  <2> QED
    BY <2>3, <2>4
<1> QED
  BY <1>1, <1>2, <1>3

LEMMA SetEntryIndexesStep == ASSUME DirCore, SetEntryIndexes PROVE DirCore' /\ ItemsKept
<1>0. /\ phase = "resolve" /\ phase' = "mimes" /\ resolving = {} /\ phase \notin Early /\ phase' \notin Early
      /\ UNCHANGED <<dirents, unresolved, mimeTypes, mainPath, faviconPath, mainPageDirent, next, resolving, cluster>>
      /\ pool' = [d \in 1 .. Len(pool) |->
                    IF d \in dirents THEN [pool[d] EXCEPT !.idx = EntryIndex(d)] ELSE pool[d]]
  BY DEF SetEntryIndexes, Early
<1>t. pool \in Seq(DirentType) /\ dirents \subseteq Ids /\ Ids = 1 .. Len(pool)
  BY DEF DirCore, DirType, Ids
<1>1. ASSUME NEW d \in Ids
      PROVE  /\ pool'[d] \in DirentType
             /\ pool'[d].ns = pool[d].ns /\ pool'[d].path = pool[d].path /\ pool'[d].target = pool[d].target
             /\ pool'[d].mime = pool[d].mime /\ pool'[d].to = pool[d].to /\ pool'[d].removed = pool[d].removed
             /\ d \in dirents => pool'[d].idx = UrlRank(d)
  <2>1. PICK b \in DirentType : b = pool[d]
    BY <1>t, PoolFacts
  <2>2. CASE d \notin dirents
    BY <1>0, <1>t, <2>1, <2>2
  <2>3. CASE d \in dirents
    <3>1. PICK i : i = UrlRank(d)
      OBVIOUS
    <3>2. i \in Nat
      BY <2>3, <3>1, RankFacts DEF DirCore
    <3>3. pool'[d] = [b EXCEPT !.idx = i]
      BY <1>0, <1>t, <2>1, <2>3, <3>1 DEF EntryIndex
    <3>4. PICK r : r = [b EXCEPT !.idx = i]
      OBVIOUS
    <3>5. /\ r \in DirentType /\ r.ns = b.ns /\ r.path = b.path /\ r.target = b.target
          /\ r.mime = b.mime /\ r.to = b.to /\ r.idx = i /\ r.removed = b.removed
      BY <3>2, <3>4 DEF DirentType
    <3> QED
      BY <2>1, <3>1, <3>3, <3>4, <3>5
  <2> QED
    BY <2>2, <2>3
<1>2. pool' \in [1 .. Len(pool) -> DirentType]
  BY <1>0, <1>1, <1>t
<1>3. Kept /\ SameKinds
  BY <1>1, <1>2, <1>t, KeptFunction DEF Kept, SameKinds, IsRedirect
<1>4. UrlInv' /\ TargetInv' /\ MainInv'
  BY <1>0, <1>1, <1>3, KeptInv
<1>5. DirType'
  BY <1>0, <1>3, <1>t DEF Kept, DirCore, DirType, Indexed
<1>6. MimeInv'
  BY <1>0, <1>1, <1>3, KeptMimes DEF DirCore, MimeInv, IsRedirect
<1>7. PendingInv'
  BY <1>0 DEF PendingInv
<1>8. IndexInv'
  BY <1>0, <1>1, <1>3, <1>t, KeptRanks DEF IndexInv, DirCore
<1>9. CountInv'
  BY <1>0, <1>3, KeptCounts DEF DirCore, CountInv, ClusterCount
<1>10. ItemsKept
  BY <1>0, <1>3, <1>t DEF ItemsKept, SameKinds, IsRedirect
<1> QED
  BY <1>0, <1>4, <1>5, <1>6, <1>7, <1>8, <1>9, <1>10 DEF DirCore, ArchiveInv

-----------------------------------------------------------------------------
(* resolveMimeTypes *)

\* How many MIME types come before m in the sorted list.
MimeRank(m) == Cardinality({j \in 1 .. Len(mimeTypes) : mimeTypes[j] < m})

\* The position in the sorted list names the type.
LEMMA MimeRankFacts ==
  ASSUME DirType, MimeInv
  PROVE  /\ \A k \in 1 .. Len(mimeTypes) : /\ MimeRank(mimeTypes[k]) \in Nat
                                           /\ MimeRank(mimeTypes[k]) < Len(mimeTypes)
         /\ \A j, k \in 1 .. Len(mimeTypes) : MimeRank(mimeTypes[j]) = MimeRank(mimeTypes[k]) => j = k
<1> DEFINE D == 1 .. Len(mimeTypes)
           Before(m) == {j \in D : mimeTypes[j] < m}
<1>0. Len(mimeTypes) \in Nat /\ \A k \in D : mimeTypes[k] \in Nat
  BY DEF DirType
<1>n. PICK n \in Nat : n = Len(mimeTypes)
  BY <1>0
<1>c. IsFiniteSet(1 .. n) /\ Cardinality(1 .. n) = n
  BY FS_Interval
<1>1. IsFiniteSet(D) /\ Cardinality(D) = Len(mimeTypes)
  BY <1>n, <1>c
<1>2. ASSUME NEW k \in D
      PROVE  MimeRank(mimeTypes[k]) \in Nat /\ MimeRank(mimeTypes[k]) < Len(mimeTypes)
  <2>1. Before(mimeTypes[k]) \subseteq D /\ k \notin Before(mimeTypes[k])
    BY <1>0
  <2>2. /\ IsFiniteSet(Before(mimeTypes[k])) /\ Cardinality(Before(mimeTypes[k])) \in Nat
        /\ Cardinality(Before(mimeTypes[k])) <= Cardinality(D)
        /\ Cardinality(Before(mimeTypes[k])) = Cardinality(D) => Before(mimeTypes[k]) = D
    BY <1>1, <2>1, FS_Subset, FS_CardinalityType
  <2>3. MimeRank(mimeTypes[k]) = Cardinality(Before(mimeTypes[k]))
    BY DEF MimeRank
  <2> QED
    BY <1>0, <1>1, <2>1, <2>2, <2>3
<1>3. ASSUME NEW j \in D, NEW k \in D, mimeTypes[j] < mimeTypes[k]
      PROVE  MimeRank(mimeTypes[j]) # MimeRank(mimeTypes[k])
  <2>1. Before(mimeTypes[j]) \subseteq Before(mimeTypes[k]) /\ Before(mimeTypes[k]) \subseteq D
    BY <1>0, <1>3
  <2>2. j \in Before(mimeTypes[k]) /\ j \notin Before(mimeTypes[j])
    BY <1>0, <1>3
  <2>3. IsFiniteSet(Before(mimeTypes[k]))
    BY <1>1, <2>1, FS_Subset
  <2>4. Cardinality(Before(mimeTypes[j])) = Cardinality(Before(mimeTypes[k])) =>
          Before(mimeTypes[j]) = Before(mimeTypes[k])
    BY <2>1, <2>3, FS_Subset
  <2>5. /\ MimeRank(mimeTypes[j]) = Cardinality(Before(mimeTypes[j]))
        /\ MimeRank(mimeTypes[k]) = Cardinality(Before(mimeTypes[k]))
    BY DEF MimeRank
  <2> QED
    BY <2>2, <2>4, <2>5
<1>4. ASSUME NEW j \in D, NEW k \in D, j # k PROVE MimeRank(mimeTypes[j]) # MimeRank(mimeTypes[k])
  <2>1. mimeTypes[j] < mimeTypes[k] \/ mimeTypes[k] < mimeTypes[j]
    BY <1>0, <1>4 DEF MimeInv
  <2> QED
    BY <1>3, <2>1
<1> QED
  BY <1>2, <1>4

LEMMA ResolveMimeTypesStep == ASSUME DirCore, ResolveMimeTypes PROVE DirCore' /\ ItemsKept
<1>0. /\ phase = "mimes" /\ phase' = "stop" /\ next' = 1 /\ phase \notin Early /\ phase' \notin Early
      /\ UNCHANGED <<dirents, unresolved, mimeTypes, mainPath, faviconPath, mainPageDirent, resolving, cluster>>
      /\ pool' = [d \in 1 .. Len(pool) |->
                    IF d \in dirents /\ ~IsRedirect(d)
                    THEN [pool[d] EXCEPT !.mime = NewMimeIdx(@)] ELSE pool[d]]
  BY DEF ResolveMimeTypes, Early
<1>t. pool \in Seq(DirentType) /\ dirents \subseteq Ids /\ Ids = 1 .. Len(pool)
  BY DEF DirCore, DirType, Ids
<1>m. Len(mimeTypes) \in Nat /\ Len(mimeTypes) <= MaxMimeIdx /\ MaxMimeIdx \in Nat
  BY DirectoryAssumption DEF DirCore, DirType, MimeInv
<1>1. ASSUME NEW d \in Ids
      PROVE  /\ pool'[d] \in DirentType
             /\ pool'[d].ns = pool[d].ns /\ pool'[d].path = pool[d].path /\ pool'[d].target = pool[d].target
             /\ pool'[d].to = pool[d].to /\ pool'[d].idx = pool[d].idx /\ pool'[d].removed = pool[d].removed
             /\ IsRedirect(d) => pool'[d].mime = RedirectMime
             /\ ~IsRedirect(d) => pool'[d].mime < Len(mimeTypes) /\ pool'[d].mime # RedirectMime
  <2>1. PICK b \in DirentType : b = pool[d]
    BY <1>t, PoolFacts
  <2>i. b.mime \in Nat /\ (~IsRedirect(d) => b.mime < Len(mimeTypes))
    BY <2>1 DEF DirCore, MimeInv, DirentType
  <2>2. CASE ~ (d \in dirents /\ ~IsRedirect(d))
    <3>1. pool'[d] = b
      BY <1>0, <1>t, <2>1, <2>2
    <3> QED
      BY <1>m, <2>1, <2>i, <3>1 DEF IsRedirect, RedirectMime
  <2>3. CASE d \in dirents /\ ~IsRedirect(d)
    <3>1. PICK i : i = NewMimeIdx(b.mime)
      OBVIOUS
    <3>2. i \in Nat /\ i < Len(mimeTypes)
      <4>1. b.mime + 1 \in 1 .. Len(mimeTypes)
        BY <1>m, <2>i, <2>3
      <4>2. NewMimeIdx(b.mime) = MimeRank(mimeTypes[b.mime + 1])
        BY DEF NewMimeIdx, MimeRank
      <4> QED
        BY <3>1, <4>1, <4>2, MimeRankFacts DEF DirCore
    <3>3. pool'[d] = [b EXCEPT !.mime = i]
      BY <1>0, <1>t, <2>1, <2>3, <3>1
    <3>4. PICK r : r = [b EXCEPT !.mime = i]
      OBVIOUS
    <3>5. /\ r \in DirentType /\ r.ns = b.ns /\ r.path = b.path /\ r.target = b.target
          /\ r.to = b.to /\ r.idx = b.idx /\ r.mime = i /\ r.removed = b.removed
      BY <3>2, <3>4 DEF DirentType
    <3> QED
      BY <1>m, <2>1, <2>3, <3>2, <3>3, <3>4, <3>5 DEF RedirectMime
  <2> QED
    BY <2>2, <2>3
<1>2. pool' \in [1 .. Len(pool) -> DirentType]
  BY <1>0, <1>1, <1>t
<1>3. Kept /\ SameKinds
  BY <1>1, <1>2, <1>t, KeptFunction DEF Kept, SameKinds
<1>4. UrlInv' /\ TargetInv' /\ MainInv'
  BY <1>0, <1>1, <1>3, KeptInv
<1>5. DirType'
  BY <1>0, <1>3, <1>t DEF Kept, DirCore, DirType, Indexed
<1>6. MimeInv'
  BY <1>0, <1>1, <1>3, KeptMimes
<1>7. PendingInv'
  BY <1>0 DEF PendingInv, DirCore
<1>8. IndexInv'
  BY <1>0, <1>1, <1>3, <1>t, KeptRanks DEF IndexInv, DirCore, Indexed
<1>9. CountInv'
  BY <1>0, <1>3, KeptCounts, CallFacts DEF DirCore, CountInv, ClusterCount
<1>10. ItemsKept
  BY <1>0, <1>3, <1>t DEF ItemsKept, SameKinds, IsRedirect
<1> QED
  BY <1>0, <1>4, <1>5, <1>6, <1>7, <1>8, <1>9, <1>10 DEF DirCore, ArchiveInv

-----------------------------------------------------------------------------
(* The data of the handlers, and writing *)

\* What the invariant says of the directory, once it is complete.
LEMMA DirectoryDone ==
  ASSUME DirCore, UNCHANGED <<pool, dirents, mimeTypes, mainPath, faviconPath, mainPageDirent, resolving>>,
         phase = "stop", phase' \in {"stop", "done"}, next' \in Nat, next' >= 1
  PROVE  /\ DirType' /\ MimeInv' /\ UrlInv' /\ PendingInv' /\ TargetInv' /\ IndexInv' /\ MainInv'
         /\ Stored' = Stored /\ HandlerDirents' = HandlerDirents
<1>0. phase \notin Early /\ phase' \notin Early /\ phase' \in Indexed /\ phase \in Indexed
  BY DEF Early, Indexed
<1>1. DirType' /\ MimeInv' /\ UrlInv' /\ Ids' = Ids
  BY <1>0 DEF DirCore, DirType, MimeInv, UrlInv, Ids, IsRedirect
<1>2. PendingInv'
  BY <1>0 DEF DirCore, PendingInv
<1>3. Kept /\ SameKinds
  BY <1>1 DEF Kept, SameKinds, DirType, IsRedirect
<1>4. TargetInv' /\ MainInv'
  BY <1>0, <1>3, KeptInv
<1>5. IndexInv'
  BY <1>0, <1>1, <1>3, KeptRanks DEF IndexInv, DirCore, DirType
<1>6. Stored' = Stored /\ HandlerDirents' = HandlerDirents
  BY <1>3, KeptCounts DEF DirCore
<1> QED
  BY <1>1, <1>2, <1>4, <1>5, <1>6

LEMMA StopHandlerStep == ASSUME DirCore, StopHandler PROVE DirCore'
<1>0. /\ phase = "stop" /\ phase' = "stop" /\ next \in Nat /\ next >= 1 /\ next <= Len(Handlers) /\ next' = next + 1
      /\ UNCHANGED <<pool, dirents, mimeTypes, mainPath, faviconPath, mainPageDirent, resolving>>
      /\ AddItemData("uncomp")
  BY DEF StopHandler, DirCore, DirType, dirVars
<1>1. /\ DirType' /\ MimeInv' /\ UrlInv' /\ PendingInv' /\ TargetInv' /\ IndexInv' /\ MainInv'
      /\ Stored' = Stored /\ HandlerDirents' = HandlerDirents
  BY <1>0, DirectoryDone
<1>2. /\ cluster' \in ClusterType /\ cluster'.uncomp
      /\ ClusterCount \in Nat /\ ClusterCount' \in Nat /\ ClusterCount' <= ClusterCount + 1
  BY <1>0, AddItemDataFacts, ClusterTyped
<1>3. Cardinality(Stored) \in Nat /\ Len(Handlers) \in Nat
  BY FiniteFacts, CallFacts DEF DirCore, Stored
<1>4. CountInv'
  <2>1. ClusterCount <= Cardinality(Stored) + (next - 1)
    BY <1>0 DEF DirCore, CountInv
  <2>2. ClusterCount' <= Cardinality(Stored') + (next' - 1) /\ next' <= Len(Handlers) + 1
    BY <1>0, <1>1, <1>2, <1>3, <2>1
  <2>3. phase' \notin Early /\ Cardinality(HandlerDirents') = Len(Handlers)
    BY <1>0, <1>1 DEF DirCore, CountInv, Early
  <2> QED
    BY <1>0, <1>2, <2>2, <2>3 DEF CountInv, ClusterType
<1> QED
  BY <1>0, <1>1, <1>4 DEF DirCore, ArchiveInv

LEMMA WriteStep == ASSUME DirCore, Write PROVE DirCore'
<1>0. /\ phase = "stop" /\ phase' = "done" /\ next \in Nat /\ next >= 1 /\ next > Len(Handlers) /\ next' = next
      /\ UNCHANGED <<pool, dirents, mimeTypes, mainPath, faviconPath, mainPageDirent, resolving, cluster>>
  BY DEF Write, DirCore, DirType, dirVars
<1>1. /\ DirType' /\ MimeInv' /\ UrlInv' /\ PendingInv' /\ TargetInv' /\ IndexInv' /\ MainInv'
      /\ Stored' = Stored /\ HandlerDirents' = HandlerDirents
  BY <1>0, DirectoryDone
<1>2. CountInv'
  <2>1. next = Len(Handlers) + 1 /\ next > 1
    BY <1>0, CallFacts DEF DirCore, CountInv
  <2>2. cluster' \in ClusterType /\ cluster'.uncomp /\ ClusterCount' = ClusterCount
    BY <1>0, <2>1, ClusterTyped DEF DirCore, CountInv, ClusterCount
  <2>3. ClusterCount' <= Cardinality(Stored') + Len(Handlers)
    BY <1>0, <1>1, <2>1, <2>2, CallFacts DEF DirCore, CountInv
  <2>4. phase' \notin Early /\ Cardinality(HandlerDirents') = Len(Handlers)
    BY <1>0, <1>1 DEF DirCore, CountInv, Early
  <2> QED
    BY <1>0, <2>2, <2>3, <2>4 DEF CountInv, ClusterType
<1>3. ArchiveInv'
  <2>1. \A d : WrittenDirent(d)' = WrittenDirent(d) /\ UrlRank(d)' = UrlRank(d)
    BY <1>0 DEF WrittenDirent, UrlRank, UrlLess, Title, IsRedirect
  <2>n. PICK n \in Nat : n = Cardinality(dirents)
    BY FiniteFacts DEF DirCore, DirType
  <2>2. archive'.entries = [k \in 1 .. n |-> WrittenDirent(CHOOSE d \in dirents : UrlRank(d) = k - 1)]
    BY <2>n DEF Write
  <2>e. Len(archive'.entries) = n
    BY <2>2
  <2>3. ASSUME NEW d \in dirents PROVE archive'.entries[UrlRank(d) + 1] = WrittenDirent(d)
    <3>1. PICK i : i = UrlRank(d)
      OBVIOUS
    <3>2. i \in Nat /\ i < n /\ \A e \in dirents : UrlRank(e) = i => e = d
      BY <2>n, <3>1, RankFacts DEF DirCore
    <3>3. i + 1 \in 1 .. n /\ (i + 1) - 1 = i
      BY <3>2
    <3>4. (CHOOSE e \in dirents : UrlRank(e) = i) = d
      BY <3>1, <3>2
    <3> QED
      BY <2>2, <3>1, <3>3, <3>4
  <2>4. archive'.mainPage = (IF mainPageDirent = 0 THEN -1 ELSE pool[mainPageDirent].idx)'
    BY <1>0 DEF Write
  <2>5. archive'.clusterCount = ClusterCount'
    BY <1>0 DEF Write, ClusterCount
  <2> QED
    BY <1>0, <2>n, <2>e, <2>1, <2>3, <2>4, <2>5 DEF ArchiveInv, Entry
<1> QED
  BY <1>1, <1>2, <1>3 DEF DirCore

-----------------------------------------------------------------------------
(* The invariant *)

LEMMA DirStutter == ASSUME DirCore, UNCHANGED vars PROVE DirCore'
<1>1. DirType' /\ MimeInv' /\ UrlInv' /\ PendingInv' /\ TargetInv' /\ Ids' = Ids
  BY DEF vars, DirCore, DirType, MimeInv, UrlInv, PendingInv, TargetInv, Ids, IsRedirect
<1>2. \A d : UrlRank(d)' = UrlRank(d) /\ WrittenDirent(d)' = WrittenDirent(d)
  BY DEF vars, UrlRank, UrlLess, WrittenDirent, Title, IsRedirect
<1>3. IndexInv'
  BY <1>2 DEF vars, DirCore, IndexInv
<1>4. MainInv'
  BY <1>1 DEF vars, DirCore, MainInv, WithUrl, IsRedirect
<1>5. CountInv'
  <2>1. Stored' = Stored /\ HandlerDirents' = HandlerDirents /\ ClusterCount' = ClusterCount
    BY <1>1 DEF vars, Stored, HandlerDirents, ClusterCount, IsRedirect
  <2> QED
    BY <2>1 DEF vars, DirCore, CountInv
<1>6. ArchiveInv'
  BY <1>2 DEF vars, DirCore, ArchiveInv, Entry, ClusterCount
<1> QED
  BY <1>1, <1>3, <1>4, <1>5, <1>6 DEF DirCore

LEMMA DirInit == ASSUME Init PROVE DirCore
<1>0. /\ phase = "api" /\ pool = <<>> /\ dirents = {} /\ unresolved = {} /\ mimeTypes = <<>> /\ mainPath = 0
      /\ faviconPath = 0 /\ mainPageDirent = 0 /\ next = 0 /\ resolving = {}
      /\ cluster = [closed |-> 0, comp |-> FALSE, uncomp |-> FALSE]
  BY DEF Init, Empty
<1>1. Len(pool) = 0 /\ pool \in Seq(DirentType) /\ Ids = {} /\ mimeTypes \in Seq(Nat) /\ Len(mimeTypes) = 0
  BY <1>0 DEF Ids
<1>2. DirType
  BY <1>0, <1>1 DEF DirType, Early
<1>3. MimeInv
  BY <1>1, DirectoryAssumption DEF MimeInv
<1>4. UrlInv /\ PendingInv /\ TargetInv /\ IndexInv /\ ArchiveInv
  BY <1>0 DEF UrlInv, PendingInv, TargetInv, IndexInv, ArchiveInv, Early, Indexed
<1>5. MainInv
  BY <1>0, <1>1 DEF MainInv
<1>6. CountInv
  <2>1. Stored = {} /\ HandlerDirents = {} /\ Cardinality({}) = 0
    BY <1>1, FS_EmptySet DEF Stored, HandlerDirents
  <2>2. cluster \in ClusterType /\ ClusterCount = 0
    <3>1. cluster \in ClusterType /\ cluster.closed = 0 /\ ~ cluster.comp /\ ~ cluster.uncomp
      BY <1>0 DEF ClusterType
    <3> QED
      BY <3>1, ClusterCountIs DEF ClusterCount, CountOf
  <2> QED
    BY <1>0, <2>1, <2>2 DEF CountInv, ClusterType, Early
<1> QED
  BY <1>2, <1>3, <1>4, <1>5, <1>6 DEF DirCore

LEMMA DirNext == ASSUME DirCore, [Next]_vars PROVE DirCore'
<1>1. ASSUME NEW c \in ItemCalls, AddItem(c) PROVE DirCore'
  BY <1>1, AddItemStep
<1>2. ASSUME NEW c \in MetadataCalls, AddMetadata(c) PROVE DirCore'
  BY <1>2, AddMetadataStep
<1>3. ASSUME NEW c \in RedirectCalls, AddRedirection(c) PROVE DirCore'
  BY <1>3, AddRedirectionStep
<1>4. CASE \/ \E c \in ItemCalls : AddThrows(ItemMime(c))
           \/ \E c \in MetadataCalls : AddThrows(c.mime)
           \/ \E p \in MainPaths : SetMainPath(p)
           \/ \E p \in FaviconPaths : SetFaviconPath(p)
           \/ FinishZimCreation
  BY <1>4, ApiOther
<1>5. CASE CreateFavicon
  BY <1>5, CreateFaviconStep
<1>6. CASE CreateMainPage
  BY <1>6, CreateMainPageStep
<1>7. CASE CreateHandlerDirent
  BY <1>7, CreateHandlerDirentStep
<1>8. CASE FinishThrows
  BY <1>8, FinishThrowsStep
<1>9. CASE StartResolving
  BY <1>9, StartResolvingStep
<1>10. CASE ResolveRedirect
  BY <1>10, ResolveRedirectStep
<1>11. CASE SetEntryIndexes
  BY <1>11, SetEntryIndexesStep
<1>12. CASE ResolveMimeTypes
  BY <1>12, ResolveMimeTypesStep
<1>13. CASE StopHandler
  BY <1>13, StopHandlerStep
<1>14. CASE Write
  BY <1>14, WriteStep
<1>15. CASE UNCHANGED vars
  BY <1>15, DirStutter
<1> QED
  BY <1>1, <1>2, <1>3, <1>4, <1>5, <1>6, <1>7, <1>8, <1>9, <1>10, <1>11, <1>12, <1>13, <1>14, <1>15
  DEF Next, Terminated

LEMMA CoreInvariance == Spec => []DirCore
<1>1. Init => DirCore
  BY DirInit
<1>2. DirCore /\ [Next]_vars => DirCore'
  BY DirNext
<1> QED
  BY <1>1, <1>2, PTL DEF Spec

-----------------------------------------------------------------------------
(* What follows from the invariant *)

\* No two entries of the directory have the same URL, what is still to be
\* resolved is there, and no item is taken for a redirect: addDirent, which
\* replaces redirects by items, and getMimeTypeIdx, which throws before its
\* last index, see to it whatever is added.
THEOREM DirectoryIsConsistent == Spec => []DirectoryConsistent
<1>1. DirCore => DirectoryConsistent
  <2>1. HAVE DirCore
  <2>2. \A d, e \in dirents : UrlLess(d, e) \/ UrlLess(e, d) \/ d = e
    BY <2>1, UrlOrder DEF DirCore
  <2>3. /\ \A d \in resolving : d \in dirents /\ IsRedirect(d)
        /\ \A d \in Ids : pool[d].ns \in {NsM, NsX} => ~IsRedirect(d)
        /\ phase \in {"api", "favicon", "mainPage", "handlers"} => unresolved = {d \in dirents : IsRedirect(d)}
    BY <2>1 DEF DirCore, PendingInv, MimeInv, Early
  <2> QED
    BY <2>2, <2>3 DEF DirectoryConsistent
<1> QED
  BY <1>1, CoreInvariance, PTL

\* What is written of a redirect whose target is in the directory.
LEMMA RedirectWritten ==
  ASSUME DirCore, phase = "done", NEW d \in dirents, IsRedirect(d), pool[d].to \in dirents
  PROVE  /\ Entry(pool[d].idx).ns = pool[d].ns /\ Entry(pool[d].idx).path = pool[d].path
         /\ pool[d].idx = UrlRank(d)
         /\ Entry(Entry(pool[d].idx).redirect).ns = NsC
         /\ Entry(Entry(pool[d].idx).redirect).path = pool[d].target
<1>1. \A e \in dirents : pool[e].idx = UrlRank(e) /\ Entry(pool[e].idx) = WrittenDirent(e)
  BY DEF DirCore, IndexInv, ArchiveInv, Indexed
<1>2. PICK e \in dirents : e = pool[d].to
  OBVIOUS
<1>3. pool[e].ns = NsC /\ pool[e].path = pool[d].target
  BY <1>2 DEF DirCore, TargetInv, PendingInv, Early
<1>4. WrittenDirent(d).redirect = pool[e].idx /\ WrittenDirent(d).ns = pool[d].ns /\ WrittenDirent(d).path = pool[d].path
  BY <1>2 DEF WrittenDirent
<1>5. WrittenDirent(e).ns = NsC /\ WrittenDirent(e).path = pool[d].target
  BY <1>3 DEF WrittenDirent
<1> QED
  BY <1>1, <1>4, <1>5

\* The index that is written for a redirect is the one of the entry with the
\* path the caller gave: resolveRedirectIndexes keeps a pointer, and only
\* setEntryIndexes, after the last removal, gives it an index.
THEOREM RedirectsAreExact == Spec => []RedirectsExact
<1>1. DirCore => RedirectsExact
  <2>1. SUFFICES ASSUME DirCore, phase = "done", NEW d \in dirents, IsRedirect(d)
                 PROVE  /\ pool[d].to # 0
                        /\ pool[d].to \in dirents =>
                             /\ Entry(Entry(UrlRank(d)).redirect).ns = NsC
                             /\ Entry(Entry(UrlRank(d)).redirect).path = pool[d].target
    BY DEF RedirectsExact
  <2>2. pool[d].to \in 1 .. Len(pool)
    BY <2>1 DEF DirCore, TargetInv, PendingInv, Early, Ids
  <2> QED
    BY <2>1, <2>2, RedirectWritten
<1> QED
  BY <1>1, CoreInvariance, PTL

\* The main page in the header is W/mainPage, which leads to the path given to
\* setMainPath; there is none only if that path is not an item of the archive.
THEOREM MainPageIsExact == Spec => []MainPageExact
<1>1. DirCore => MainPageExact
  <2>1. SUFFICES ASSUME DirCore, phase = "done" PROVE MainPageExact
    BY DEF MainPageExact
  <2>2. archive.mainPage = IF mainPageDirent = 0 THEN -1 ELSE pool[mainPageDirent].idx
    BY <2>1 DEF DirCore, ArchiveInv
  <2>3. CASE mainPageDirent = 0
    <3>1. archive.mainPage = -1
      BY <2>2, <2>3
    <3>2. mainPath = Empty \/ WithUrl(NsC, mainPath) = {}
      BY <2>1, <2>3 DEF DirCore, MainInv
    <3> QED
      BY <3>1, <3>2 DEF MainPageExact
  <2>4. CASE mainPageDirent # 0
    <3>1. PICK d : d = mainPageDirent
      OBVIOUS
    <3>2. /\ d \in dirents /\ IsRedirect(d) /\ pool[d].ns = NsW /\ pool[d].path = MainPage
          /\ pool[d].target = mainPath
      BY <2>1, <2>4, <3>1 DEF DirCore, MainInv
    <3>3. pool[d].to \in dirents
      BY <2>1, <3>2 DEF DirCore, TargetInv, PendingInv, Early
    <3>4. archive.mainPage = pool[d].idx /\ pool[d].idx = UrlRank(d)
      BY <2>1, <2>2, <2>4, <3>1, <3>2, <3>3, RedirectWritten
    <3>5. archive.mainPage # -1
      <4>1. UrlRank(d) \in Nat
        BY <2>1, <3>2, RankFacts DEF DirCore
      <4> QED
        BY <3>4, <4>1
    <3>6. /\ Entry(archive.mainPage).ns = NsW /\ Entry(archive.mainPage).path = MainPage
          /\ Entry(Entry(archive.mainPage).redirect).ns = NsC
          /\ Entry(Entry(archive.mainPage).redirect).path = mainPath
      BY <2>1, <3>2, <3>3, <3>4, RedirectWritten
    <3> QED
      BY <3>5, <3>6 DEF MainPageExact
  <2> QED
    BY <2>3, <2>4
<1> QED
  BY <1>1, CoreInvariance, PTL

\* If no item was refused, Fileheader::sanity_check accepts the counts of the
\* header: there is an entry for each cluster, and a cluster because the
\* handlers always leave one.
THEOREM CountsAreSane == Spec => []SaneUnlessRefused
<1>1. DirCore => SaneUnlessRefused
  <2>1. SUFFICES ASSUME DirCore, phase = "done", \A d \in Lost : IsRedirect(d) PROVE SanityCheck
    BY DEF SaneUnlessRefused
  <2>2. Stored \cup HandlerDirents \subseteq dirents
    <3>1. SUFFICES ASSUME NEW d \in Stored \cup HandlerDirents PROVE d \in dirents
      OBVIOUS
    <3>2. d \in Ids /\ ~IsRedirect(d)
      BY <2>1 DEF Stored, HandlerDirents, DirCore, MimeInv
    <3>3. ~ pool[d].removed
      BY <2>1, <3>2 DEF DirCore, MimeInv
    <3> QED
      BY <2>1, <3>2, <3>3 DEF Lost
  <2>3. /\ IsFiniteSet(Stored) /\ IsFiniteSet(HandlerDirents) /\ IsFiniteSet(dirents)
        /\ Cardinality(Stored) \in Nat /\ Cardinality(HandlerDirents) \in Nat /\ Cardinality(dirents) \in Nat
    BY <2>1, FiniteFacts DEF Stored, HandlerDirents, DirCore, DirType
  <2>4. Stored \cap HandlerDirents = {}
    BY DEF Stored, HandlerDirents
  <2>5. Cardinality(Stored \cup HandlerDirents) = Cardinality(Stored) + Cardinality(HandlerDirents)
    <3>1. /\ Cardinality(Stored \cup HandlerDirents) =
               Cardinality(Stored) + Cardinality(HandlerDirents) - Cardinality(Stored \cap HandlerDirents)
          /\ Cardinality({}) = 0
      BY <2>3, FS_Union, FS_EmptySet
    <3>2. Cardinality(Stored \cap HandlerDirents) = 0
      BY <2>4, <3>1
    <3> QED
      BY <2>3, <3>1, <3>2
  <2>6. Cardinality(Stored \cup HandlerDirents) <= Cardinality(dirents)
    BY <2>2, <2>3, FS_Subset
  <2>7. /\ archive.clusterCount = ClusterCount /\ ClusterCount \in Nat
        /\ ClusterCount <= Cardinality(Stored) + Len(Handlers)
        /\ Cardinality(HandlerDirents) = Len(Handlers)
        /\ Len(archive.entries) = Cardinality(dirents)
    BY <2>1, ClusterTyped DEF DirCore, ArchiveInv, CountInv, Early
  <2>8. ClusterCount # 0
    <3>1. cluster \in ClusterType /\ cluster.uncomp
      BY <2>1, ClusterTyped DEF DirCore, CountInv
    <3>2. cluster.closed \in Nat /\ cluster.comp \in BOOLEAN
      BY <3>1 DEF ClusterType
    <3>3. ClusterCount = CountOf(cluster.closed, cluster.comp, cluster.uncomp)
      BY <3>1, ClusterCountIs DEF ClusterCount
    <3> QED
      BY <3>1, <3>2, <3>3 DEF CountOf
  <2>9. archive.clusterCount <= Len(archive.entries) /\ archive.clusterCount # 0
    BY <2>3, <2>5, <2>6, <2>7, <2>8
  <2>10. archive.entries # <<>>
    <3>1. Len(archive.entries) # 0
      BY <2>3, <2>7, <2>8, <2>9
    <3> QED
      BY <3>1
  <2> QED
    BY <2>9, <2>10 DEF SanityCheck
<1> QED
  BY <1>1, CoreInvariance, PTL

-----------------------------------------------------------------------------
(* Items stay *)

LEMMA GrownItems == ASSUME DirCore, NEW r, Grown(r) PROVE ItemsKept
BY DEF Grown, ItemsKept, IsRedirect, DirCore, DirType

LEMMA ItemsKeptNext == ASSUME DirCore, [Next]_vars PROVE ItemsKept \/ UNCHANGED <<pool, dirents>>
<1>1. ASSUME NEW c \in ItemCalls, AddItem(c) PROVE ItemsKept
  <2>1. PICK r : Grown(r)
    BY <1>1, CallFacts, ItemCreated DEF AddItem, Early
  <2> QED
    BY <2>1, GrownItems
<1>2. ASSUME NEW c \in MetadataCalls, AddMetadata(c) PROVE ItemsKept
  <2>1. PICK r : Grown(r)
    BY <1>2, CallFacts, ItemCreated DEF AddMetadata, Early, Empty
  <2> QED
    BY <2>1, GrownItems
<1>3. ASSUME NEW c \in RedirectCalls, AddRedirection(c) PROVE ItemsKept
  <2>1. PICK r : Grown(r)
    BY <1>3, CallFacts, RedirectCreated DEF AddRedirection, Early
  <2> QED
    BY <2>1, GrownItems
<1>4. CASE CreateFavicon
  <2>1. CASE faviconPath = Empty
    BY <1>4, <2>1 DEF CreateFavicon, dirVars
  <2>2. CASE faviconPath # Empty
    <3>1. CreateRedirectDirent(NsW, Favicon, Empty, faviconPath) /\ phase \in Early
      BY <1>4, <2>2 DEF CreateFavicon, Early
    <3>2. Favicon \in Nat /\ Empty \in Nat /\ faviconPath \in Nat
      BY DEF Favicon, Empty, DirCore, DirType
    <3>3. PICK r : Grown(r)
      BY <3>1, <3>2, RedirectCreated
    <3> QED
      BY <3>3, GrownItems
  <2> QED
    BY <2>1, <2>2
<1>5. CASE CreateMainPage
  <2>1. CASE mainPath = Empty
    BY <1>5, <2>1 DEF CreateMainPage, dirVars
  <2>2. CASE mainPath # Empty
    <3>1. CreateRedirectDirent(NsW, MainPage, Empty, mainPath) /\ phase \in Early
      BY <1>5, <2>2 DEF CreateMainPage, Early
    <3>2. MainPage \in Nat /\ Empty \in Nat /\ mainPath \in Nat
      BY DEF MainPage, Empty, DirCore, DirType
    <3>3. PICK r : Grown(r)
      BY <3>1, <3>2, RedirectCreated
    <3> QED
      BY <3>3, GrownItems
  <2> QED
    BY <2>1, <2>2
<1>6. CASE CreateHandlerDirent
  <2>1. phase \in Early /\ next \in 1 .. Len(Handlers)
    BY <1>6, CallFacts DEF CreateHandlerDirent, Early, DirCore, DirType
  <2>2. PICK r : Grown(r)
    BY <1>6, <2>1, CallFacts, ItemCreated DEF CreateHandlerDirent, Empty
  <2> QED
    BY <2>2, GrownItems
<1>7. CASE ResolveRedirect \/ SetEntryIndexes \/ ResolveMimeTypes
  BY <1>7, ResolveRedirectStep, SetEntryIndexesStep, ResolveMimeTypesStep
<1>8. CASE \/ \E c \in ItemCalls : AddThrows(ItemMime(c))
           \/ \E c \in MetadataCalls : AddThrows(c.mime)
           \/ \E p \in MainPaths : SetMainPath(p)
           \/ \E p \in FaviconPaths : SetFaviconPath(p)
           \/ FinishZimCreation \/ FinishThrows \/ StartResolving \/ StopHandler \/ Write \/ UNCHANGED vars
  BY <1>8 DEF AddThrows, SetMainPath, SetFaviconPath, FinishZimCreation, FinishThrows, StartResolving, StopHandler,
              Write, vars, dirVars
<1> QED
  BY <1>1, <1>2, <1>3, <1>4, <1>5, <1>6, <1>7, <1>8 DEF Next, Terminated

\* An item that addDirent accepted is never taken out again nor becomes a
\* redirect, however its MIME index changes.
THEOREM ItemsAreKept == Spec => ItemsStay
<1>1. DirCore /\ [Next]_vars => [ItemsKept]_<<pool, dirents>>
  BY ItemsKeptNext
<1>2. Spec => [][ItemsKept]_<<pool, dirents>>
  BY <1>1, CoreInvariance, PTL DEF Spec
<1> QED
  BY <1>2 DEF ItemsStay, ItemsKept

-----------------------------------------------------------------------------
(* The list of MIME types *)

\* Every place of the sorted list belongs to a type.
LEMMA MimeRankOnto ==
  ASSUME DirType, MimeInv, NEW i \in Nat, i < Len(mimeTypes)
  PROVE  \E k \in 1 .. Len(mimeTypes) : MimeRank(mimeTypes[k]) = i
<1>1. PICK n \in Nat : n = Len(mimeTypes)
  BY DEF DirType
<1>2. PICK f : f = [k \in 1 .. n |-> MimeRank(mimeTypes[k])]
  OBVIOUS
<1>3. ASSUME NEW k \in 1 .. n PROVE f[k] \in 0 .. n - 1
  BY <1>1, <1>2, MimeRankFacts
<1>4. f \in Injection(1 .. n, 0 .. n - 1)
  <2>1. f \in [1 .. n -> 0 .. n - 1]
    BY <1>2, <1>3
  <2>2. \A j, k \in 1 .. n : f[j] = f[k] => j = k
    BY <1>1, <1>2, MimeRankFacts
  <2> QED
    BY <2>1, <2>2 DEF Injection, IsInjective
<1>5. /\ IsFiniteSet(0 .. n - 1) /\ Cardinality(0 .. n - 1) = n
      /\ Cardinality(1 .. n) = n
  <2>1. PICK l \in Int : l = n - 1
    OBVIOUS
  <2>a. PICK a \in Int : a = 0
    OBVIOUS
  <2>b. IsFiniteSet(a .. l) /\ Cardinality(a .. l) = IF a > l THEN 0 ELSE l - a + 1
    BY FS_Interval
  <2>2. IsFiniteSet(0 .. l) /\ Cardinality(0 .. l) = IF 0 > l THEN 0 ELSE l - 0 + 1
    BY <2>a, <2>b
  <2>3. Cardinality(1 .. n) = IF 1 > n THEN 0 ELSE n - 1 + 1
    BY FS_Interval
  <2>4. Cardinality(0 .. l) = n
    BY <2>1, <2>2
  <2>5. Cardinality(1 .. n) = n
    BY <2>3
  <2> QED
    BY <2>1, <2>2, <2>4, <2>5
<1>6. f \in Surjection(1 .. n, 0 .. n - 1)
  BY <1>4, <1>5, FS_Injection
<1>7. \A t \in 0 .. n - 1 : \E k \in 1 .. n : f[k] = t
  BY <1>6 DEF Surjection
<1> QED
  BY <1>1, <1>2, <1>7

\* The empty MIME type, at which FileImpl::readMimeTypes stops, is not there.
NoEmptyMime == \A k \in 1 .. Len(mimeTypes) : mimeTypes[k] # Empty

LEMMA NamedMime ==
  ASSUME DirType, NoEmptyMime, NEW m \in Nat, m # Empty, mimeTypes' = MimeTypesWith(m)
  PROVE  NoEmptyMime'
<1>1. mimeTypes \in Seq(Nat) /\ Len(mimeTypes) \in Nat
  BY DEF DirType
<1>2. CASE mimeTypes' = mimeTypes
  BY <1>2 DEF NoEmptyMime
<1>3. CASE mimeTypes' = Append(mimeTypes, m)
  <2>1. /\ Len(mimeTypes') = Len(mimeTypes) + 1 /\ mimeTypes'[Len(mimeTypes) + 1] = m
        /\ \A k \in 1 .. Len(mimeTypes) : mimeTypes'[k] = mimeTypes[k]
    BY <1>1, <1>3
  <2>2. \A k \in 1 .. Len(mimeTypes') : k \in 1 .. Len(mimeTypes) \/ k = Len(mimeTypes) + 1
    BY <1>1, <2>1
  <2> QED
    BY <2>1, <2>2 DEF NoEmptyMime
<1> QED
  BY <1>2, <1>3 DEF MimeTypesWith

LEMMA NoEmptyMimeNext ==
  ASSUME \A c \in MetadataCalls : c.mime # Empty, DirCore, NoEmptyMime, [Next]_vars
  PROVE  NoEmptyMime'
<1>1. ASSUME NEW c \in ItemCalls, AddItem(c) PROVE NoEmptyMime'
  <2>1. mimeTypes' = MimeTypesWith(ItemMime(c)) /\ ItemMime(c) \in Nat
    BY <1>1, CallFacts DEF AddItem, CreateDirent
  <2>2. ItemMime(c) # Empty
    BY DEF ItemMime, OctetStream, Empty
  <2> QED
    BY <2>1, <2>2, NamedMime DEF DirCore
<1>2. ASSUME NEW c \in MetadataCalls, AddMetadata(c) PROVE NoEmptyMime'
  BY <1>2, CallFacts, NamedMime DEF AddMetadata, CreateDirent, DirCore
<1>3. CASE CreateHandlerDirent
  <2>1. PICK h : mimeTypes' = MimeTypesWith(HandlerMime(h))
    BY <1>3 DEF CreateHandlerDirent, CreateDirent
  <2>2. HandlerMime(h) \in Nat /\ HandlerMime(h) # Empty
    BY DEF HandlerMime, ListingMime, XapianMime, Empty
  <2> QED
    BY <2>1, <2>2, NamedMime DEF DirCore
<1>4. CASE UNCHANGED mimeTypes
  BY <1>4 DEF NoEmptyMime
<1>5. ASSUME NEW c \in RedirectCalls, AddRedirection(c) PROVE UNCHANGED mimeTypes
  BY <1>5 DEF AddRedirection, CreateRedirectDirent
<1>6. CreateFavicon \/ CreateMainPage => UNCHANGED mimeTypes
  BY DEF CreateFavicon, CreateMainPage, CreateRedirectDirent, dirVars
<1>7. ResolveRedirect \/ SetEntryIndexes \/ ResolveMimeTypes => UNCHANGED mimeTypes
  BY DEF ResolveRedirect, SetEntryIndexes, ResolveMimeTypes
<1>8. CASE \/ \E c \in ItemCalls : AddThrows(ItemMime(c))
           \/ \E c \in MetadataCalls : AddThrows(c.mime)
           \/ \E p \in MainPaths : SetMainPath(p)
           \/ \E p \in FaviconPaths : SetFaviconPath(p)
           \/ FinishZimCreation \/ FinishThrows \/ StartResolving \/ StopHandler \/ Write \/ UNCHANGED vars
  <2>1. UNCHANGED mimeTypes
    BY <1>8 DEF AddThrows, SetMainPath, SetFaviconPath, FinishZimCreation, FinishThrows, StartResolving,
                StopHandler, Write, vars, dirVars
  <2> QED
    BY <1>4, <2>1
<1> QED
  BY <1>1, <1>2, <1>3, <1>4, <1>5, <1>6, <1>7, <1>8 DEF Next, Terminated

\* What resolveMimeTypes leaves in the list and in the dirents.
LEMMA MimeListExact ==
  ASSUME DirCore, NoEmptyMime, ResolveMimeTypes, NEW d \in dirents, ~IsRedirect(d)
  PROVE  /\ pool'[d].mime + 1 \in MimesRead(mimeList')
         /\ mimeList'[pool'[d].mime + 1] = mimeTypes[pool[d].mime + 1]
<1>1. PICK n \in Nat : n = Len(mimeTypes)
  BY DEF DirCore, DirType
<1>2. PICK b \in DirentType : b = pool[d]
  BY PoolFacts DEF DirCore, DirType
<1>3. b.mime \in Nat /\ b.mime + 1 \in 1 .. n /\ d \in 1 .. Len(pool)
  <2>1. b.mime \in Nat
    BY DEF DirentType
  <2>2. b.mime < n /\ d \in 1 .. Len(pool)
    BY <1>1, <1>2 DEF DirCore, DirType, MimeInv, Ids
  <2> QED
    BY <2>1, <2>2
<1>4. PICK i : i = MimeRank(mimeTypes[b.mime + 1])
  OBVIOUS
<1>5. i \in Nat /\ i < n
  BY <1>1, <1>3, <1>4, MimeRankFacts DEF DirCore
<1>6. pool'[d].mime = i
  <2>1. pool'[d] = [b EXCEPT !.mime = NewMimeIdx(b.mime)]
    BY <1>2, <1>3 DEF ResolveMimeTypes
  <2>2. NewMimeIdx(b.mime) = i
    BY <1>4 DEF NewMimeIdx, MimeRank
  <2> QED
    BY <2>1, <2>2 DEF DirentType
<1>7. mimeList' = [k \in 1 .. n |-> CHOOSE m \in {mimeTypes[j] : j \in 1 .. n} : MimeRank(m) = k - 1]
  BY <1>1 DEF ResolveMimeTypes, MimeRank
<1>8. Len(mimeList') = n
  BY <1>7
<1>9. ASSUME NEW k \in 1 .. n
      PROVE  \E j \in 1 .. n : mimeList'[k] = mimeTypes[j] /\ MimeRank(mimeTypes[j]) = k - 1
  <2>1. PICK r \in Nat : r = k - 1 /\ r < n
    OBVIOUS
  <2>2. \E j \in 1 .. n : MimeRank(mimeTypes[j]) = r
    BY <1>1, <2>1, MimeRankOnto DEF DirCore
  <2>3. PICK m : m = CHOOSE x \in {mimeTypes[j] : j \in 1 .. n} : MimeRank(x) = r
    OBVIOUS
  <2>4. m \in {mimeTypes[j] : j \in 1 .. n} /\ MimeRank(m) = r
    BY <2>2, <2>3
  <2>5. mimeList'[k] = m
    BY <1>7, <2>1, <2>3
  <2> QED
    BY <2>1, <2>4, <2>5
<1>10. i + 1 \in MimesRead(mimeList')
  <2>1. \A k \in 1 .. i + 1 : k \in 1 .. n
    BY <1>5
  <2>2. \A k \in 1 .. i + 1 : mimeList'[k] # Empty
    BY SMTT(30), <1>1, <1>9, <2>1 DEF NoEmptyMime
  <2>3. i + 1 \in 1 .. Len(mimeList')
    BY <1>5, <1>8
  <2> QED
    BY <2>2, <2>3 DEF MimesRead
<1>11. mimeList'[i + 1] = mimeTypes[b.mime + 1]
  <2>1. i + 1 \in 1 .. n /\ (i + 1) - 1 = i
    BY <1>5
  <2>2. PICK j \in 1 .. n : mimeList'[i + 1] = mimeTypes[j] /\ MimeRank(mimeTypes[j]) = i
    BY <1>9, <2>1
  <2>3. j = b.mime + 1
    BY <1>1, <1>3, <1>4, <2>2, MimeRankFacts DEF DirCore
  <2> QED
    BY <2>2, <2>3
<1> QED
  BY <1>2, <1>6, <1>10, <1>11

\* The action of MimeTypesExact.
MimesKept ==
  phase = "mimes" => \A d \in dirents : ~IsRedirect(d) =>
    LET i == pool'[d].mime + 1
    IN  /\ i \in MimesRead(mimeList')
        /\ mimeList'[i] = mimeTypes[pool[d].mime + 1]

\* A reader finds for every entry the MIME type that was given to createDirent,
\* if no metadata has an empty one: addItem replaces it, addMetadata does not,
\* and the list that is read ends there.
THEOREM MimeTypesAreExact ==
  ASSUME \A c \in MetadataCalls : c.mime # Empty
  PROVE  Spec => MimeTypesExact
<1>1. Init => NoEmptyMime
  BY DEF Init, NoEmptyMime
<1>2. DirCore /\ NoEmptyMime /\ [Next]_vars => NoEmptyMime'
  BY NoEmptyMimeNext
<1>3. DirCore /\ NoEmptyMime /\ [Next]_vars => [MimesKept]_phase
  <2>1. SUFFICES ASSUME DirCore, NoEmptyMime, [Next]_vars, phase' # phase, phase = "mimes" PROVE MimesKept
    BY DEF MimesKept
  <2>2. ResolveMimeTypes
    BY <2>1 DEF Next, vars, AddItem, AddMetadata, AddRedirection, AddThrows, SetMainPath, SetFaviconPath,
                FinishZimCreation, CreateFavicon, CreateMainPage, CreateHandlerDirent, FinishThrows, StartResolving,
                ResolveRedirect, SetEntryIndexes, StopHandler, Write, Terminated
  <2> QED
    BY <2>1, <2>2, MimeListExact DEF MimesKept
<1>4. Spec => [][MimesKept]_phase
  BY <1>1, <1>2, <1>3, CoreInvariance, PTL DEF Spec
<1> QED
  BY <1>4 DEF MimeTypesExact, MimesKept

-----------------------------------------------------------------------------
(* Sorting *)

LEMMA Smallest == ASSUME NEW T, T \subseteq Nat, T # {} PROVE \E x \in T : \A y \in T : x <= y
<1>1. PICK x \in T : \A y \in T : ~ (<<y, x>> \in OpToRel(<, Nat))
  BY WFMin, NatLessThanWellFounded
<1>2. \A y \in T : ~ (y < x)
  BY <1>1 DEF OpToRel
<1> QED
  BY <1>2

LEMMA CountUp ==
  ASSUME NEW n \in Nat, NEW T, 0 \in T, \A k \in Nat : k < n /\ k \in T => k + 1 \in T
  PROVE  \A k \in 0 .. n : k \in T
<1> DEFINE U == {k \in 0 .. n : k \notin T}
<1> SUFFICES ASSUME U # {} PROVE FALSE
  BY Zenon
<1>1. U \subseteq Nat
  OBVIOUS
<1>2. PICK m \in U : \A y \in U : m <= y
  BY <1>1, Smallest
<1>3. m \in Nat /\ m <= n /\ m # 0 /\ m \notin T
  BY <1>2
<1>4. m - 1 \in Nat /\ m - 1 < n /\ m - 1 \notin U /\ (m - 1) + 1 = m
  BY <1>2, <1>3
<1>5. m - 1 \in T
  BY <1>3, <1>4
<1> QED
  BY <1>3, <1>4, <1>5

\* f holds what G makes of base, up to n times.
Iterated(f, n, base, G) == f[0] = base /\ \A k \in 1 .. n : f[k] = G[f[k - 1]]

LEMMA Iterates ==
  ASSUME NEW n \in Nat, NEW V, NEW base \in V, NEW G \in [V -> V]
  PROVE  \E f \in [0 .. n -> V] : Iterated(f, n, base, G)
<1> DEFINE Table(f, m) == f[0] = base /\ \A k \in 1 .. m : f[k] = G[f[k - 1]]
           T == {m \in Nat : \E f \in [0 .. m -> V] : Table(f, m)}
<1>1. 0 \in T
  <2>1. PICK f : f = [k \in 0 .. 0 |-> base]
    OBVIOUS
  <2>2. f \in [0 .. 0 -> V] /\ f[0] = base /\ 1 .. 0 = {}
    BY <2>1
  <2> QED
    BY <2>2
<1>2. ASSUME NEW m \in Nat, m < n, m \in T PROVE m + 1 \in T
  <2>1. PICK f \in [0 .. m -> V] : Table(f, m)
    BY <1>2
  <2>2. PICK x \in V : x = G[f[m]]
    BY <1>2, <2>1
  <2>3. PICK g : g = [k \in 0 .. m + 1 |-> IF k = m + 1 THEN x ELSE f[k]]
    OBVIOUS
  <2>4. g \in [0 .. m + 1 -> V] /\ g[m + 1] = x /\ \A k \in 0 .. m : g[k] = f[k]
    BY <1>2, <2>3
  <2>5. g[0] = base
    BY <1>2, <2>1, <2>4
  <2>6. ASSUME NEW k \in 1 .. m + 1 PROVE g[k] = G[g[k - 1]]
    <3>1. CASE k = m + 1
      <4>1. k - 1 = m /\ g[m] = f[m]
        BY <1>2, <2>4, <3>1
      <4> QED
        BY <2>2, <2>4, <3>1, <4>1
    <3>2. CASE k # m + 1
      <4>1. k \in 1 .. m /\ k \in 0 .. m /\ k - 1 \in 0 .. m
        BY <1>2, <3>2
      <4>2. f[k] = G[f[k - 1]]
        BY <2>1, <4>1
      <4> QED
        BY <2>4, <4>1, <4>2
    <3> QED
      BY <3>1, <3>2
  <2>7. Table(g, m + 1)
    BY <2>5, <2>6
  <2> QED
    BY <2>4, <2>7
<1> HIDE DEF T
<1>3. n \in T
  <2>1. \A k \in 0 .. n : k \in T
    BY <1>1, <1>2, CountUp
  <2> QED
    BY <2>1
<1> QED
  BY <1>3 DEF T, Iterated

\* The sequences of X with one dirent more
OneMore(S, X) == UNION {{Append(s, d) : d \in Follows(S, s)} : s \in X}

SortStep(S, f, n) == IF n = 0 THEN {<<>>} ELSE OneMore(S, f[n - 1])
IsSort(S, f) == f = [n \in 0 .. Cardinality(S) |-> SortStep(S, f, n)]
Sorts(S) == CHOOSE f : IsSort(S, f)

LEMMA SortDef == ASSUME NEW S PROVE SortedByTitle(S) = Sorts(S)[Cardinality(S)]
BY Zenon DEF SortedByTitle, Sorts, IsSort, SortStep, OneMore

LEMMA OneMoreType == ASSUME NEW S, NEW X, X \subseteq Seq(S) PROVE OneMore(S, X) \subseteq Seq(S)
<1>1. ASSUME NEW t \in OneMore(S, X) PROVE t \in Seq(S)
  <2>1. PICK s \in X : t \in {Append(s, d) : d \in Follows(S, s)}
    BY DEF OneMore
  <2>2. PICK d \in Follows(S, s) : t = Append(s, d)
    BY <2>1
  <2>3. d \in S
    BY <2>2 DEF Follows
  <2> QED
    BY <2>2, <2>3
<1> QED
  BY <1>1

LEMMA SortUnfolds ==
  ASSUME NEW S, NEW n \in Nat, n = Cardinality(S), NEW c, c = Sorts(S)
  PROVE  c[0] = {<<>>} /\ \A k \in 1 .. n : c[k] = OneMore(S, c[k - 1])
<1>1. PICK V : V = SUBSET Seq(S)
  OBVIOUS
<1>2. PICK G : G = [X \in V |-> OneMore(S, X)]
  OBVIOUS
<1>3. G \in [V -> V]
  <2>1. ASSUME NEW X \in V PROVE OneMore(S, X) \in V
    BY <1>1, OneMoreType
  <2> QED
    BY <1>2, <2>1
<1>4. PICK base : base = {<<>>}
  OBVIOUS
<1>5. base \in V
  BY <1>1, <1>4
<1>6. PICK f \in [0 .. n -> V] : f[0] = base /\ \A k \in 1 .. n : f[k] = G[f[k - 1]]
  <2>1. \E f \in [0 .. n -> V] : Iterated(f, n, base, G)
    BY <1>3, <1>5, Iterates
  <2> QED
    BY <2>1 DEF Iterated
<1>7. ASSUME NEW k \in 0 .. n PROVE f[k] = SortStep(S, f, k)
  <2>1. CASE k = 0
    BY <1>4, <1>6, <2>1, Zenon DEF SortStep
  <2>2. CASE k # 0
    <3>1. k \in 1 .. n /\ k - 1 \in 0 .. n
      BY <2>2
    <3>2. f[k - 1] \in V
      BY <1>6, <3>1
    <3>3. f[k] = OneMore(S, f[k - 1])
      BY <1>2, <1>6, <3>1, <3>2, Zenon
    <3> QED
      BY <2>2, <3>3, Zenon DEF SortStep
  <2> QED
    BY <2>1, <2>2
<1>8. IsSort(S, f)
  <2>1. f = [k \in 0 .. n |-> f[k]]
    BY <1>6
  <2>2. [k \in 0 .. n |-> f[k]] = [k \in 0 .. n |-> SortStep(S, f, k)]
    BY <1>7, Zenon
  <2> QED
    BY <2>1, <2>2, Zenon DEF IsSort
<1>9. IsSort(S, c)
  BY <1>8, Zenon DEF Sorts
<1>10. \A k \in 0 .. n : c[k] = SortStep(S, c, k)
  <2>1. c = [k \in 0 .. n |-> SortStep(S, c, k)]
    BY <1>9, Zenon DEF IsSort
  <2> QED
    BY <2>1, Zenon
<1>11. c[0] = {<<>>}
  <2>1. 0 \in 0 .. n
    OBVIOUS
  <2> QED
    BY <1>10, <2>1, Zenon DEF SortStep
<1>12. ASSUME NEW k \in 1 .. n PROVE c[k] = OneMore(S, c[k - 1])
  <2>1. k \in 0 .. n /\ k # 0
    OBVIOUS
  <2> QED
    BY <1>10, <2>1, Zenon DEF SortStep
<1> QED
  BY <1>11, <1>12

\* s begins a sorted sequence of S: nothing that is left belongs before s[i].
Begins(S, s, k) ==
  /\ s \in Seq(S) /\ Len(s) = k
  /\ \A i, j \in 1 .. k : s[i] = s[j] => i = j
  /\ \A i \in 1 .. k : \A e \in S : (\A j \in 1 .. i - 1 : s[j] # e) => ~ TitleLess(e, s[i])

LEMMA BeginsOneMore ==
  ASSUME NEW S, NEW k \in Nat, NEW s, Begins(S, s, k), NEW d \in Follows(S, s), NEW t, t = Append(s, d)
  PROVE  Begins(S, t, k + 1)
<1>1. s \in Seq(S) /\ Len(s) = k /\ \A i, j \in 1 .. k : s[i] = s[j] => i = j
  BY DEF Begins
<1>2. /\ d \in S /\ \A i \in 1 .. k : s[i] # d
      /\ \A e \in S : (\A i \in 1 .. k : s[i] # e) => ~ TitleLess(e, d)
  BY <1>1 DEF Follows
<1>3. t \in Seq(S) /\ Len(t) = k + 1 /\ t[k + 1] = d /\ \A i \in 1 .. k : t[i] = s[i]
  BY <1>1, <1>2
<1>4. ASSUME NEW i \in 1 .. k + 1, NEW j \in 1 .. k + 1, t[i] = t[j] PROVE i = j
  <2>1. i \in 1 .. k \/ i = k + 1
    OBVIOUS
  <2>2. j \in 1 .. k \/ j = k + 1
    OBVIOUS
  <2> QED
    BY <1>1, <1>2, <1>3, <1>4, <2>1, <2>2, ZenonT(60)
<1>5. ASSUME NEW i \in 1 .. k + 1, NEW e \in S, \A j \in 1 .. i - 1 : t[j] # e PROVE ~ TitleLess(e, t[i])
  <2>1. CASE i = k + 1
    <3>1. i - 1 = k
      BY <2>1
    <3> QED
      BY <1>2, <1>3, <1>5, <2>1, <3>1, Zenon
  <2>2. CASE i # k + 1
    <3>1. i \in 1 .. k /\ \A j \in 1 .. i - 1 : j \in 1 .. k
      BY <2>2
    <3>2. \A j \in 1 .. i - 1 : s[j] # e
      BY <1>3, <1>5, <3>1, Zenon
    <3>3. ~ TitleLess(e, s[i])
      BY <3>1, <3>2, Zenon DEF Begins
    <3> QED
      BY <1>3, <3>1, <3>3, Zenon
  <2> QED
    BY <2>1, <2>2
<1> QED
  BY <1>3, <1>4, <1>5, Zenon DEF Begins

LEMMA SortBegins ==
  ASSUME NEW S, NEW n \in Nat, n = Cardinality(S), NEW s \in SortedByTitle(S)
  PROVE  Begins(S, s, n)
<1>1. PICK c : c = Sorts(S)
  OBVIOUS
<1>2. c[0] = {<<>>} /\ \A k \in 1 .. n : c[k] = OneMore(S, c[k - 1])
  BY <1>1, SortUnfolds
<1> DEFINE T == {k \in Nat : \A t \in c[k] : Begins(S, t, k)}
<1>3. 0 \in T
  <2>1. <<>> \in Seq(S) /\ Len(<<>>) = 0 /\ 1 .. 0 = {}
    OBVIOUS
  <2>2. Begins(S, <<>>, 0)
    BY <2>1 DEF Begins
  <2> QED
    BY <1>2, <2>2
<1>4. ASSUME NEW k \in Nat, k < n, k \in T PROVE k + 1 \in T
  <2>1. k + 1 \in 1 .. n /\ (k + 1) - 1 = k
    BY <1>4
  <2>2. c[k + 1] = OneMore(S, c[k])
    BY <1>2, <2>1, Zenon
  <2>3. ASSUME NEW t \in c[k + 1] PROVE Begins(S, t, k + 1)
    <3>1. PICK u \in c[k] : t \in {Append(u, d) : d \in Follows(S, u)}
      BY <2>2 DEF OneMore
    <3>2. PICK d \in Follows(S, u) : t = Append(u, d)
      BY <3>1
    <3>3. Begins(S, u, k)
      BY <1>4
    <3> QED
      BY <3>2, <3>3, BeginsOneMore
  <2> QED
    BY <2>3
<1>5. n \in T
  <2> HIDE DEF T
  <2>1. \A k \in 0 .. n : k \in T
    BY <1>3, <1>4, CountUp
  <2> QED
    BY <2>1
<1>6. s \in c[n]
  BY <1>1, SortDef, Zenon
<1> QED
  BY <1>5, <1>6

\* std::sort leaves each dirent of the set once, in the order of the titles.
LEMMA SortFacts ==
  ASSUME NEW S, IsFiniteSet(S), NEW s \in SortedByTitle(S)
  PROVE  s \in Seq(S) /\ Len(s) = Cardinality(S) /\ Members(s) = S /\ InOrder(s)
<1>1. PICK n \in Nat : n = Cardinality(S)
  BY FS_CardinalityType
<1>2. Begins(S, s, n)
  BY <1>1, SortBegins
<1>3. s \in Seq(S) /\ Len(s) = n /\ \A i, j \in 1 .. n : s[i] = s[j] => i = j
  BY <1>2 DEF Begins
<1>4. s \in Injection(1 .. n, S)
  <2>1. s \in [1 .. n -> S]
    BY <1>3
  <2> QED
    BY <1>3, <2>1 DEF Injection, IsInjective
<1>5. Cardinality(1 .. n) = n
  <2>1. PICK a \in Int : a = 1
    OBVIOUS
  <2>2. Cardinality(a .. n) = IF a > n THEN 0 ELSE n - a + 1
    BY FS_Interval
  <2> QED
    BY <2>1, <2>2
<1>6. s \in Surjection(1 .. n, S)
  BY <1>1, <1>4, <1>5, FS_Injection
<1>7. Members(s) = S
  <2>1. \A e \in S : \E k \in 1 .. n : s[k] = e
    BY <1>6 DEF Surjection
  <2>2. \A k \in 1 .. n : s[k] \in S
    BY <1>3
  <2> QED
    BY <1>3, <2>1, <2>2 DEF Members
<1>8. ASSUME NEW j \in 1 .. n, NEW k \in 1 .. n, j < k PROVE ~ TitleLess(s[k], s[j])
  <2>1. \A i \in 1 .. j - 1 : i \in 1 .. n /\ i # k
    BY <1>8
  <2>2. \A i \in 1 .. j - 1 : s[i] # s[k]
    BY <1>3, <2>1, Zenon
  <2>3. s[k] \in S
    BY <1>3
  <2> QED
    BY <1>2, <2>2, <2>3, Zenon DEF Begins
<1> QED
  BY <1>1, <1>3, <1>7, <1>8 DEF InOrder

-----------------------------------------------------------------------------
(* The listings *)

LEMMA MembersAppend ==
  ASSUME NEW T, NEW s \in Seq(T), NEW n
  PROVE  Members(Append(s, n)) = Members(s) \cup {n}
<1>1. PICK a : a = Append(s, n)
  OBVIOUS
<1>2. PICK m \in Nat : m = Len(s)
  OBVIOUS
<1>3. Len(a) = m + 1 /\ a[m + 1] = n /\ \A k \in 1 .. m : a[k] = s[k]
  BY <1>1, <1>2
<1>4. {a[k] : k \in 1 .. m + 1} = {a[k] : k \in 1 .. m} \cup {a[m + 1]}
  <2>1. 1 .. m + 1 = (1 .. m) \cup {m + 1}
    OBVIOUS
  <2> QED
    BY <2>1, Zenon
<1>5. {a[k] : k \in 1 .. m} = {s[k] : k \in 1 .. m}
  BY <1>3, Zenon
<1> QED
  BY <1>1, <1>2, <1>3, <1>4, <1>5 DEF Members

\* A dirent that is created is listed, and the title index told.
LEMMA ListGrown ==
  ASSUME DirCore, ListInv, phase \in Early, phase' \in Early, NEW r, Grown(r), Created(r),
         NEW n, n = Len(pool'), NEW front, listing' = Listed(n, front), titleDocs \subseteq titleDocs',
         WithTitleIndex /\ r.ns = NsC /\ r.title # Empty => [path |-> r.path, title |-> r.title] \in titleDocs'
  PROVE  ListInv'
<1>0. ~Stopped(ListingV0) /\ ~Stopped(ListingV0)' /\ ~Stopped(ListingV1)' /\ phase' # "done"
  BY DEF Early, Stopped
<1>1. /\ pool'[n] = r /\ Ids' = Ids \cup {n} /\ n \notin Ids /\ \A d \in Ids : pool'[d] = pool[d]
      /\ dirents' \subseteq dirents \cup {n} /\ dirents \subseteq Ids
  BY DEF Grown, DirCore, DirType
<1>2. RemovedInv'
  <2>1. ASSUME NEW d \in Ids', pool'[d].removed PROVE d \notin dirents'
    <3>1. d # n
      BY <1>1, <2>1 DEF Created
    <3>2. d \in Ids /\ pool[d].removed
      BY <1>1, <2>1, <3>1
    <3>3. d \notin dirents
      BY <3>2 DEF ListInv, RemovedInv
    <3> QED
      BY <1>1, <3>1, <3>3
  <2> QED
    BY <2>1 DEF RemovedInv
<1>3. PICK s \in Seq(Ids) : s = listing.v0
  BY DEF ListInv, ListType
<1>4. PICK t \in Seq(Ids) : t = listing.v1
  BY DEF ListInv, ListType
<1>5. listing'.v0 = Append(s, n) /\ listing'.v1 = IF front THEN Append(t, n) ELSE t
  BY <1>3, <1>4 DEF Listed
<1>6. s \in Seq(Ids') /\ t \in Seq(Ids') /\ n \in Ids'
  <2>1. Ids \subseteq Ids'
    BY <1>1
  <2> QED
    BY <1>1, <2>1, SeqMonotonic
<1>7. ListType'
  <2>1. listing' = [v0 |-> Append(s, n), v1 |-> IF front THEN Append(t, n) ELSE t]
    BY <1>3, <1>4 DEF Listed
  <2> QED
    BY <1>6, <2>1 DEF ListType
<1>8. AllListedInv'
  <2>1. Members(s) = Ids
    BY <1>0, <1>3 DEF ListInv, AllListedInv
  <2>2. Members(listing'.v0) = Ids'
    BY <1>1, <1>5, <2>1, MembersAppend
  <2> QED
    BY <1>0, <1>7, <2>2 DEF AllListedInv, Members
<1>9. TitleDocsInv'
  <2>1. ASSUME NEW d \in Ids', WithTitleIndex, pool'[d].ns = NsC, pool'[d].title # Empty
        PROVE  [path |-> pool'[d].path, title |-> pool'[d].title] \in titleDocs'
    <3>1. CASE d = n
      BY <1>1, <2>1, <3>1
    <3>2. CASE d \in Ids
      <4>1. pool'[d] = pool[d]
        BY <1>1, <3>2
      <4>2. [path |-> pool[d].path, title |-> pool[d].title] \in titleDocs
        BY <2>1, <3>2, <4>1 DEF ListInv, TitleDocsInv
      <4> QED
        BY <4>1, <4>2
    <3> QED
      BY <1>1, <3>1, <3>2
  <2> QED
    BY <2>1 DEF TitleDocsInv, WithTitleIndex
<1> QED
  BY <1>0, <1>2, <1>7, <1>8, <1>9 DEF ListInv, FrontListedInv, WrittenListsInv

\* The listings do not change, and no dirent gets another name or is removed
\* from the listings only.
LEMMA ListKept ==
  ASSUME DirCore, ListInv, UNCHANGED <<listing, titleDocs>>, Ids' = Ids,
         \A d \in Ids : /\ pool'[d].ns = pool[d].ns /\ pool'[d].path = pool[d].path
                        /\ pool'[d].title = pool[d].title
                        /\ pool'[d].removed => pool[d].removed \/ d \notin dirents',
         dirents' \subseteq dirents,
         phase \notin {"stop", "done"}, phase' \notin {"stop", "done"} \/ (phase' = "stop" /\ next' = 1)
  PROVE  ListInv'
<1>0. ~Stopped(ListingV0) /\ ~Stopped(ListingV0)' /\ ~Stopped(ListingV1)' /\ phase' # "done"
  <2>1. next' = 1 => 1 .. next' - 1 = {}
    OBVIOUS
  <2> QED
    BY <2>1 DEF Stopped
<1>1. RemovedInv' /\ ListType'
  BY DEF ListInv, RemovedInv, ListType
<1>2. AllListedInv'
  BY <1>0 DEF ListInv, AllListedInv, Members
<1>3. FrontListedInv'
  BY <1>0 DEF ListInv, FrontListedInv
<1>4. TitleDocsInv'
  <2>1. ASSUME NEW d \in Ids', WithTitleIndex, pool'[d].ns = NsC, pool'[d].title # Empty
        PROVE  [path |-> pool'[d].path, title |-> pool'[d].title] \in titleDocs'
    <3>1. [path |-> pool[d].path, title |-> pool[d].title] \in titleDocs
      BY <2>1 DEF ListInv, TitleDocsInv
    <3> QED
      BY <2>1, <3>1
  <2> QED
    BY <2>1 DEF TitleDocsInv, WithTitleIndex
<1> QED
  BY <1>0, <1>1, <1>2, <1>3, <1>4 DEF ListInv, WrittenListsInv

LEMMA AddItemLists == ASSUME DirCore, ListInv, NEW c \in ItemCalls, AddItem(c) PROVE ListInv'
<1>1. PICK r : /\ Grown(r) /\ Created(r) /\ r.ns = NsC /\ r.path = c.path /\ r.title = c.title
  BY SMTT(30), CallFacts, ItemCreated DEF AddItem, Early
<1>2. PICK n : n = Len(pool')
  OBVIOUS
<1>3. pool'[n] = r
  BY <1>1, <1>2 DEF Grown
<1>4. titleDocs' = TitleDocsWith(r) /\ listing' = Listed(n, c.front) /\ phase \in Early /\ phase' \in Early
  BY <1>2, <1>3 DEF AddItem, Early
<1>5. PICK front : front = c.front
  OBVIOUS
<1>6. listing' = Listed(n, front)
  BY <1>4, <1>5
<1> QED
  BY <1>1, <1>2, <1>4, <1>6, ListGrown DEF TitleDocsWith

LEMMA AddRedirectionLists == ASSUME DirCore, ListInv, NEW c \in RedirectCalls, AddRedirection(c) PROVE ListInv'
<1>0. /\ c.path \in Nat /\ c.title \in Nat /\ c.target \in Nat
      /\ CreateRedirectDirent(NsC, c.path, c.title, c.target) /\ phase \in Early
  BY CallFacts DEF AddRedirection, Early
<1>1. PICK r : /\ Grown(r) /\ Created(r) /\ r.ns = NsC /\ r.path = c.path /\ r.title = c.title
  BY <1>0, RedirectCreated
<1>2. PICK n : n = Len(pool')
  OBVIOUS
<1>3. pool'[n] = r
  BY <1>1, <1>2 DEF Grown
<1>4. titleDocs' = TitleDocsWith(r) /\ listing' = Listed(n, c.front) /\ phase \in Early /\ phase' \in Early
  BY <1>2, <1>3 DEF AddRedirection, Early
<1>5. PICK front : front = c.front
  OBVIOUS
<1>6. listing' = Listed(n, front)
  BY <1>4, <1>5
<1> QED
  BY <1>1, <1>2, <1>4, <1>6, ListGrown DEF TitleDocsWith

\* What is created without a title is not told to the title index.
LEMMA UntitledListed ==
  ASSUME DirCore, ListInv, phase \in Early, phase' \in Early, NEW r, Grown(r), Created(r), r.title = Empty,
         listing' = Listed(Len(pool'), FALSE), titleDocs' = titleDocs
  PROVE  ListInv'
<1>1. PICK n : n = Len(pool')
  OBVIOUS
<1>2. PICK front : front = FALSE
  OBVIOUS
<1>3. listing' = Listed(n, front)
  BY <1>1, <1>2
<1> QED
  BY <1>1, <1>3, ListGrown

LEMMA AddMetadataLists == ASSUME DirCore, ListInv, NEW c \in MetadataCalls, AddMetadata(c) PROVE ListInv'
<1>1. PICK r : /\ Grown(r) /\ Created(r) /\ r.title = Empty
  BY CallFacts, ItemCreated DEF AddMetadata, Early, Empty
<1> QED
  BY <1>1, UntitledListed DEF AddMetadata, Early

LEMMA CreateFaviconLists == ASSUME DirCore, ListInv, CreateFavicon PROVE ListInv'
<1>0. phase = "favicon" /\ phase' = "mainPage" /\ phase \in Early /\ phase' \in Early /\ titleDocs' = titleDocs
  BY DEF CreateFavicon, Early
<1>1. CASE faviconPath = Empty
  <2>1. UNCHANGED <<pool, dirents, listing>> /\ Ids' = Ids
    BY <1>1 DEF CreateFavicon, dirVars, Ids
  <2> QED
    BY <1>0, <2>1, ListKept
<1>2. CASE faviconPath # Empty
  <2>1. CreateRedirectDirent(NsW, Favicon, Empty, faviconPath) /\ listing' = Listed(Len(pool'), FALSE)
    BY <1>2 DEF CreateFavicon
  <2>2. Favicon \in Nat /\ Empty \in Nat /\ faviconPath \in Nat
    BY DEF Favicon, Empty, DirCore, DirType
  <2>3. PICK r : Grown(r) /\ Created(r) /\ r.title = Empty
    BY <1>0, <2>1, <2>2, RedirectCreated
  <2> QED
    BY <1>0, <2>1, <2>3, UntitledListed
<1> QED
  BY <1>1, <1>2

LEMMA CreateMainPageLists == ASSUME DirCore, ListInv, CreateMainPage PROVE ListInv'
<1>0. phase = "mainPage" /\ phase' = "handlers" /\ phase \in Early /\ phase' \in Early /\ titleDocs' = titleDocs
  BY DEF CreateMainPage, Early
<1>1. CASE mainPath = Empty
  <2>1. UNCHANGED <<pool, dirents, listing>> /\ Ids' = Ids
    BY <1>1 DEF CreateMainPage, dirVars, Ids
  <2> QED
    BY <1>0, <2>1, ListKept
<1>2. CASE mainPath # Empty
  <2>1. CreateRedirectDirent(NsW, MainPage, Empty, mainPath) /\ listing' = Listed(Len(pool'), FALSE)
    BY <1>2 DEF CreateMainPage
  <2>2. MainPage \in Nat /\ Empty \in Nat /\ mainPath \in Nat
    BY DEF MainPage, Empty, DirCore, DirType
  <2>3. PICK r : Grown(r) /\ Created(r) /\ r.title = Empty
    BY <1>0, <2>1, <2>2, RedirectCreated
  <2> QED
    BY <1>0, <2>1, <2>3, UntitledListed
<1> QED
  BY <1>1, <1>2

LEMMA CreateHandlerDirentLists == ASSUME DirCore, ListInv, CreateHandlerDirent PROVE ListInv'
<1>0. /\ phase \in Early /\ phase' \in Early /\ next \in 1 .. Len(Handlers)
      /\ titleDocs' = titleDocs /\ listing' = Listed(Len(pool'), FALSE)
  BY CallFacts DEF CreateHandlerDirent, Early, DirCore, DirType
<1>1. PICK r : Grown(r) /\ Created(r) /\ r.title = Empty
  BY <1>0, CallFacts, ItemCreated DEF CreateHandlerDirent, Empty
<1> QED
  BY <1>0, <1>1, UntitledListed

LEMMA UnlistedSteps ==
  ASSUME DirCore, ListInv,
         \/ \E c \in ItemCalls : AddThrows(ItemMime(c))
         \/ \E c \in MetadataCalls : AddThrows(c.mime)
         \/ \E p \in MainPaths : SetMainPath(p)
         \/ \E p \in FaviconPaths : SetFaviconPath(p)
         \/ FinishZimCreation \/ FinishThrows \/ StartResolving
  PROVE  ListInv'
<1>1. /\ UNCHANGED <<pool, dirents, listing, titleDocs>>
      /\ phase \notin {"stop", "done"} /\ phase' \notin {"stop", "done"}
  BY DEF AddThrows, SetMainPath, SetFaviconPath, FinishZimCreation, FinishThrows, StartResolving, dirVars
<1>2. Ids' = Ids
  BY <1>1 DEF Ids
<1> QED
  BY <1>1, <1>2, ListKept

LEMMA ResolveRedirectLists == ASSUME DirCore, ListInv, ResolveRedirect PROVE ListInv'
<1>0. /\ phase = "resolve" /\ phase' = "resolve" /\ UNCHANGED <<listing, titleDocs>>
      /\ pool \in Seq(DirentType) /\ Ids = 1 .. Len(pool) /\ dirents \subseteq Ids
  BY DEF ResolveRedirect, DirCore, DirType, Ids
<1>1. PICK d \in resolving :
        \/ dirents' = dirents \ {d} /\ pool' = [pool EXCEPT ![d].removed = TRUE]
        \/ \E g : dirents' = dirents /\ pool' = [pool EXCEPT ![d].to = g]
  BY DEF ResolveRedirect
<1>2. d \in Ids
  BY <1>0 DEF DirCore, PendingInv
<1>3. PICK b \in DirentType : b = pool[d]
  BY <1>0, <1>2, PoolFacts
<1>4. \E r : /\ pool' = [pool EXCEPT ![d] = r]
             /\ r.ns = b.ns /\ r.path = b.path /\ r.title = b.title
             /\ dirents' \subseteq dirents /\ (r.removed => b.removed \/ d \notin dirents')
  <2>1. CASE dirents' = dirents \ {d} /\ pool' = [pool EXCEPT ![d].removed = TRUE]
    <3>1. PICK r : r = [b EXCEPT !.removed = TRUE]
      OBVIOUS
    <3>2. r.ns = b.ns /\ r.path = b.path /\ r.title = b.title
      BY <3>1 DEF DirentType
    <3>3. pool' = [pool EXCEPT ![d] = r]
      BY <1>3, <2>1, <3>1
    <3> QED
      BY <2>1, <3>2, <3>3
  <2>2. ASSUME NEW g, dirents' = dirents, pool' = [pool EXCEPT ![d].to = g]
        PROVE  \E r : /\ pool' = [pool EXCEPT ![d] = r]
                      /\ r.ns = b.ns /\ r.path = b.path /\ r.title = b.title
                      /\ dirents' \subseteq dirents /\ (r.removed => b.removed \/ d \notin dirents')
    <3>1. PICK r : r = [b EXCEPT !.to = g]
      OBVIOUS
    <3>2. r.ns = b.ns /\ r.path = b.path /\ r.title = b.title /\ r.removed = b.removed
      BY <3>1 DEF DirentType
    <3>3. pool' = [pool EXCEPT ![d] = r]
      BY <1>3, <2>2, <3>1
    <3> QED
      BY <2>2, <3>2, <3>3
  <2> QED
    BY <1>1, <2>1, <2>2
<1>5. PICK r : /\ pool' = [pool EXCEPT ![d] = r]
               /\ r.ns = b.ns /\ r.path = b.path /\ r.title = b.title
               /\ dirents' \subseteq dirents /\ (r.removed => b.removed \/ d \notin dirents')
  BY <1>4
<1>6. Len(pool') = Len(pool) /\ \A e \in Ids : pool'[e] = IF e = d THEN r ELSE pool[e]
  <2>1. pool \in [1 .. Len(pool) -> DirentType] /\ DOMAIN pool' = 1 .. Len(pool) /\ Len(pool) \in Nat
    BY <1>0, <1>5
  <2>2. pool' \in Seq(DirentType)
    BY DirNext DEF ResolveRedirect, Next, DirCore, DirType
  <2> QED
    BY <1>0, <1>2, <1>5, <2>1, <2>2
<1>7. Ids' = Ids
  BY <1>6 DEF Ids
<1> QED
  BY <1>0, <1>3, <1>5, <1>6, <1>7, ListKept

\* A new index or MIME type is no new name.
LEMMA SetEntryIndexesLists == ASSUME DirCore, ListInv, SetEntryIndexes PROVE ListInv'
<1>0. /\ phase = "resolve" /\ phase' = "mimes" /\ UNCHANGED <<listing, titleDocs, dirents>>
      /\ pool \in Seq(DirentType) /\ Ids = 1 .. Len(pool) /\ dirents \subseteq Ids
      /\ pool' = [d \in 1 .. Len(pool) |->
                    IF d \in dirents THEN [pool[d] EXCEPT !.idx = EntryIndex(d)] ELSE pool[d]]
  BY DEF SetEntryIndexes, DirCore, DirType, Ids
<1>1. ASSUME NEW d \in Ids
      PROVE  /\ pool'[d].ns = pool[d].ns /\ pool'[d].path = pool[d].path /\ pool'[d].title = pool[d].title
             /\ pool'[d].removed = pool[d].removed
  <2>1. PICK b \in DirentType : b = pool[d]
    BY <1>0, PoolFacts
  <2>2. PICK i : i = EntryIndex(d)
    OBVIOUS
  <2>3. PICK r : r = [b EXCEPT !.idx = i]
    OBVIOUS
  <2>4. r.ns = b.ns /\ r.path = b.path /\ r.title = b.title /\ r.removed = b.removed
    BY <2>3 DEF DirentType
  <2>5. pool'[d] = IF d \in dirents THEN r ELSE b
    BY <1>0, <2>1, <2>2, <2>3
  <2> QED
    BY <2>1, <2>4, <2>5
<1>2. Ids' = Ids
  <2>1. Len(pool) \in Nat
    BY <1>0
  <2>2. Len(pool') = Len(pool)
    BY <1>0, <2>1
  <2> QED
    BY <2>2 DEF Ids
<1> QED
  BY <1>0, <1>1, <1>2, ListKept

LEMMA ResolveMimeTypesLists == ASSUME DirCore, ListInv, ResolveMimeTypes PROVE ListInv'
<1>0. /\ phase = "mimes" /\ phase' = "stop" /\ next' = 1 /\ UNCHANGED <<listing, titleDocs, dirents>>
      /\ pool \in Seq(DirentType) /\ Ids = 1 .. Len(pool) /\ dirents \subseteq Ids
      /\ pool' = [d \in 1 .. Len(pool) |->
                    IF d \in dirents /\ ~IsRedirect(d)
                    THEN [pool[d] EXCEPT !.mime = NewMimeIdx(@)] ELSE pool[d]]
  BY DEF ResolveMimeTypes, DirCore, DirType, Ids
<1>1. ASSUME NEW d \in Ids
      PROVE  /\ pool'[d].ns = pool[d].ns /\ pool'[d].path = pool[d].path /\ pool'[d].title = pool[d].title
             /\ pool'[d].removed = pool[d].removed
  <2>1. PICK b \in DirentType : b = pool[d]
    BY <1>0, PoolFacts
  <2>2. PICK i : i = NewMimeIdx(b.mime)
    OBVIOUS
  <2>3. PICK r : r = [b EXCEPT !.mime = i]
    OBVIOUS
  <2>4. r.ns = b.ns /\ r.path = b.path /\ r.title = b.title /\ r.removed = b.removed
    BY <2>3 DEF DirentType
  <2>5. pool'[d] = IF d \in dirents /\ ~IsRedirect(d) THEN r ELSE b
    BY <1>0, <2>1, <2>2, <2>3
  <2> QED
    BY <2>1, <2>4, <2>5
<1>2. Ids' = Ids
  <2>1. Len(pool) \in Nat
    BY <1>0
  <2>2. Len(pool') = Len(pool)
    BY <1>0, <2>1
  <2> QED
    BY <2>2 DEF Ids
<1> QED
  BY <1>0, <1>1, <1>2, ListKept

\* What the listings say of a pool that does not change any more.
LEMMA PoolFixed ==
  ASSUME pool' = pool
  PROVE  /\ Ids' = Ids /\ Remaining' = Remaining
         /\ \A s : InOrder(s)' <=> InOrder(s)
<1>1. Ids' = Ids
  BY DEF Ids
<1>2. \A d, e : TitleLess(d, e)' <=> TitleLess(d, e)
  BY DEF TitleLess, Title
<1> QED
  BY <1>1, <1>2 DEF Remaining, InOrder

LEMMA AllListedFixed ==
  ASSUME AllListedInv, pool' = pool, listing'.v0 = listing.v0, Stopped(ListingV0)' <=> Stopped(ListingV0)
  PROVE  AllListedInv'
<1>1. PICK s : s = listing.v0
  OBVIOUS
<1>2. listing'.v0 = s /\ Ids' = Ids /\ Remaining' = Remaining /\ (InOrder(s)' <=> InOrder(s))
  BY <1>1, PoolFixed
<1>3. /\ ~Stopped(ListingV0) => Members(s) = Ids
      /\ Stopped(ListingV0) => Members(s) = Remaining /\ Len(s) = Cardinality(Remaining) /\ InOrder(s)
  BY <1>1 DEF AllListedInv
<1>4. Stopped(ListingV0)' => InOrder(s)'
  BY <1>2, <1>3
<1>5. Stopped(ListingV0)' => InOrder(listing.v0)'
  BY <1>2, <1>4 DEF InOrder
<1> QED
  BY <1>2, <1>3, <1>5 DEF AllListedInv, Members

LEMMA FrontListedFixed ==
  ASSUME FrontListedInv, pool' = pool, listing'.v1 = listing.v1, Stopped(ListingV1)' <=> Stopped(ListingV1)
  PROVE  FrontListedInv'
BY PoolFixed DEF FrontListedInv, Members

LEMMA TitleDocsFixed ==
  ASSUME TitleDocsInv, pool' = pool, titleDocs' = titleDocs
  PROVE  TitleDocsInv'
BY PoolFixed DEF TitleDocsInv, WithTitleIndex

LEMMA RemovedFixed == ASSUME RemovedInv, UNCHANGED <<pool, dirents>> PROVE RemovedInv'
BY PoolFixed DEF RemovedInv

\* A handler is stopped in its turn.
LEMMA StopOne ==
  ASSUME phase = "stop", phase' = "stop", next \in Nat, next >= 1, next' = next + 1, NEW h
  PROVE  Stopped(h)' <=> Stopped(h) \/ Handlers[next] = h
<1>1. 1 .. next' - 1 = (1 .. next - 1) \cup {next}
  OBVIOUS
<1>2. Stopped(h)' <=> \E k \in 1 .. next' - 1 : Handlers[k] = h
  BY DEF Stopped
<1>3. Stopped(h) <=> \E k \in 1 .. next - 1 : Handlers[k] = h
  BY DEF Stopped
<1> QED
  BY <1>1, <1>2, <1>3

\* What stop() leaves in a listing, in order.
LEMMA StopListing ==
  ASSUME DirCore, ListInv, NEW S, S \subseteq Remaining, NEW s \in SortedByTitle(S)
  PROVE  s \in Seq(Ids) /\ Len(s) = Cardinality(S) /\ Members(s) = S /\ InOrder(s)
<1>1. S \subseteq Ids
  BY DEF Remaining
<1>2. IsFiniteSet(S)
  BY <1>1, FiniteFacts DEF DirCore
<1>3. s \in Seq(S) /\ Len(s) = Cardinality(S) /\ Members(s) = S /\ InOrder(s)
  BY <1>2, SortFacts
<1> QED
  BY <1>1, <1>3, SeqMonotonic

LEMMA StopHandlerLists == ASSUME DirCore, ListInv, StopHandler PROVE ListInv'
<1>0. /\ phase = "stop" /\ phase' = "stop" /\ next \in Nat /\ next >= 1 /\ next' = next + 1
      /\ UNCHANGED <<pool, dirents, titleDocs>> /\ phase' # "done"
  BY DEF StopHandler, DirCore, DirType, dirVars
<1>1. \A h : Stopped(h)' <=> Stopped(h) \/ Handlers[next] = h
  BY <1>0, StopOne
<1>2. RemovedInv' /\ TitleDocsInv' /\ WrittenListsInv'
  BY <1>0, RemovedFixed, TitleDocsFixed DEF ListInv, WrittenListsInv
<1>3. Ids' = Ids /\ Remaining' = Remaining /\ \A s : InOrder(s)' <=> InOrder(s)
  BY <1>0, PoolFixed
<1>4. ListingV0 # ListingV1
  BY DEF ListingV0, ListingV1
<1>r. Remaining \subseteq Ids /\ AllListedInv /\ FrontListedInv
  BY DEF Remaining, ListInv
<1>l. /\ listing \in [v0 : Seq(Ids), v1 : Seq(Ids)]
      /\ Members(listing.v0) \subseteq Ids /\ Members(listing.v1) \subseteq Ids
  BY DEF ListInv, ListType, Members
<1>n. \A s : NotRemoved(s) = {d \in Members(s) : ~pool[d].removed}
  BY DEF NotRemoved, Members
<1>5. ASSUME Handlers[next] = ListingV0, NEW s \in SortedByTitle(NotRemoved(listing.v0)),
             listing' = [listing EXCEPT !.v0 = s]
      PROVE  ListInv'
  <2>1. NotRemoved(listing.v0) = Remaining
    <3>1. Members(listing.v0) = Ids \/ Members(listing.v0) = Remaining
      BY <1>r DEF AllListedInv
    <3> QED
      BY <1>n, <3>1 DEF Remaining
  <2>2. s \in Seq(Ids) /\ Len(s) = Cardinality(Remaining) /\ Members(s) = Remaining /\ InOrder(s)
    BY <2>1, StopListing
  <2>3. listing'.v0 = s /\ listing'.v1 = listing.v1 /\ listing' \in [v0 : Seq(Ids), v1 : Seq(Ids)]
    BY <1>5, <1>l, <2>2
  <2>4. InOrder(s)'
    BY <1>3, <2>2
  <2>5. InOrder(listing.v0)'
    BY <2>3, <2>4 DEF InOrder
  <2>6. AllListedInv'
    BY <1>1, <1>3, <1>5, <2>2, <2>3, <2>5 DEF AllListedInv, Members
  <2>7. FrontListedInv'
    BY <1>0, <1>1, <1>4, <1>5, <1>r, <2>3, FrontListedFixed
  <2> QED
    BY <1>2, <1>3, <2>3, <2>6, <2>7 DEF ListInv, ListType
<1>6. ASSUME Handlers[next] = ListingV1, NEW s \in SortedByTitle(NotRemoved(listing.v1)),
             listing' = [listing EXCEPT !.v1 = s]
      PROVE  ListInv'
  <2>1. NotRemoved(listing.v1) \subseteq Remaining
    BY <1>l, <1>n DEF Remaining
  <2>2. s \in Seq(Ids) /\ Members(s) \subseteq Remaining
    BY <2>1, StopListing
  <2>3. listing'.v1 = s /\ listing'.v0 = listing.v0 /\ listing' \in [v0 : Seq(Ids), v1 : Seq(Ids)]
    BY <1>6, <1>l, <2>2
  <2>4. FrontListedInv'
    BY <1>3, <2>2, <2>3 DEF FrontListedInv, Members
  <2>5. AllListedInv'
    BY <1>0, <1>1, <1>4, <1>6, <1>r, <2>3, AllListedFixed
  <2> QED
    BY <1>2, <1>3, <2>3, <2>4, <2>5 DEF ListInv, ListType
<1>7. ASSUME Handlers[next] \notin {ListingV0, ListingV1}, listing' = listing PROVE ListInv'
  <2>1. AllListedInv'
    BY <1>0, <1>1, <1>7, <1>r, AllListedFixed
  <2>2. FrontListedInv'
    BY <1>0, <1>1, <1>7, <1>r, FrontListedFixed
  <2> QED
    BY <1>2, <1>3, <1>7, <2>1, <2>2 DEF ListInv, ListType
<1> QED
  BY <1>5, <1>6, <1>7 DEF StopHandler

LEMMA WriteLists == ASSUME DirCore, ListInv, Write PROVE ListInv'
<1>0. /\ phase = "stop" /\ phase' = "done" /\ next' = next /\ next > Len(Handlers)
      /\ UNCHANGED <<pool, dirents, listing, titleDocs>>
  BY DEF Write, dirVars
<1>1. \A h : Stopped(h)' <=> Stopped(h)
  BY <1>0 DEF Stopped
<1>2. RemovedInv' /\ TitleDocsInv' /\ AllListedInv' /\ FrontListedInv'
  BY <1>0, <1>1, RemovedFixed, TitleDocsFixed, AllListedFixed, FrontListedFixed DEF ListInv
<1>3. ListType'
  BY <1>0, PoolFixed DEF ListInv, ListType
<1>4. /\ archive'.v0 = [k \in 1 .. Len(listing.v0) |-> pool[listing.v0[k]].idx]
      /\ archive'.v1 = [k \in 1 .. Len(listing.v1) |-> pool[listing.v1[k]].idx]
  BY DEF Write
<1>5. WrittenListsInv'
  BY <1>0, <1>4 DEF WrittenListsInv
<1> QED
  BY <1>2, <1>3, <1>5 DEF ListInv

LEMMA ListStutter == ASSUME DirCore, ListInv, UNCHANGED vars PROVE ListInv'
<1>0. UNCHANGED <<phase, next, pool, dirents, listing, titleDocs, archive>>
  BY DEF vars
<1>1. \A h : Stopped(h)' <=> Stopped(h)
  BY <1>0 DEF Stopped
<1>2. RemovedInv' /\ TitleDocsInv' /\ AllListedInv' /\ FrontListedInv'
  BY <1>0, <1>1, RemovedFixed, TitleDocsFixed, AllListedFixed, FrontListedFixed DEF ListInv
<1>3. ListType'
  BY <1>0, PoolFixed DEF ListInv, ListType
<1>4. WrittenListsInv'
  BY <1>0 DEF ListInv, WrittenListsInv
<1> QED
  BY <1>2, <1>3, <1>4 DEF ListInv

LEMMA ListInit == ASSUME Init PROVE ListInv
<1>0. phase = "api" /\ pool = <<>> /\ listing = [v0 |-> <<>>, v1 |-> <<>>]
  BY DEF Init
<1>1. Ids = {}
  BY <1>0 DEF Ids
<1>2. ~Stopped(ListingV0) /\ ~Stopped(ListingV1)
  BY <1>0 DEF Stopped
<1>3. Members(listing.v0) = {}
  BY <1>0 DEF Members
<1>4. ListType
  BY <1>0 DEF ListType
<1> QED
  BY <1>0, <1>1, <1>2, <1>3, <1>4
  DEF ListInv, RemovedInv, AllListedInv, FrontListedInv, TitleDocsInv, WrittenListsInv

LEMMA ListNext == ASSUME DirCore, ListInv, [Next]_vars PROVE ListInv'
<1>1. ASSUME NEW c \in ItemCalls, AddItem(c) PROVE ListInv'
  BY <1>1, AddItemLists
<1>2. ASSUME NEW c \in MetadataCalls, AddMetadata(c) PROVE ListInv'
  BY <1>2, AddMetadataLists
<1>3. ASSUME NEW c \in RedirectCalls, AddRedirection(c) PROVE ListInv'
  BY <1>3, AddRedirectionLists
<1>4. CASE \/ \E c \in ItemCalls : AddThrows(ItemMime(c))
           \/ \E c \in MetadataCalls : AddThrows(c.mime)
           \/ \E p \in MainPaths : SetMainPath(p)
           \/ \E p \in FaviconPaths : SetFaviconPath(p)
           \/ FinishZimCreation \/ FinishThrows \/ StartResolving
  BY <1>4, UnlistedSteps
<1>5. CASE CreateFavicon
  BY <1>5, CreateFaviconLists
<1>6. CASE CreateMainPage
  BY <1>6, CreateMainPageLists
<1>7. CASE CreateHandlerDirent
  BY <1>7, CreateHandlerDirentLists
<1>8. CASE ResolveRedirect
  BY <1>8, ResolveRedirectLists
<1>9. CASE SetEntryIndexes
  BY <1>9, SetEntryIndexesLists
<1>10. CASE ResolveMimeTypes
  BY <1>10, ResolveMimeTypesLists
<1>11. CASE StopHandler
  BY <1>11, StopHandlerLists
<1>12. CASE Write
  BY <1>12, WriteLists
<1>13. CASE UNCHANGED vars
  BY <1>13, ListStutter
<1> QED
  BY <1>1, <1>2, <1>3, <1>4, <1>5, <1>6, <1>7, <1>8, <1>9, <1>10, <1>11, <1>12, <1>13 DEF Next, Terminated

\* The directory that the add* calls and finishZimCreation build is as DirInv
\* says in every state, for every set of calls, handlers and MIME types.
THEOREM DirectoryInvariance == Spec => []DirInv
<1>1. Init => ListInv
  BY ListInit
<1>2. DirCore /\ ListInv /\ [Next]_vars => ListInv'
  BY ListNext
<1>3. DirCore /\ ListInv => DirInv
  BY DEF DirInv
<1> QED
  BY <1>1, <1>2, <1>3, CoreInvariance, PTL DEF Spec

-----------------------------------------------------------------------------
(* The listings of the archive *)

\* Each place of the archive is that of a dirent.
LEMMA RankOnto ==
  ASSUME DirType, UrlInv, NEW n \in Nat, n = Cardinality(dirents)
  PROVE  \A i \in 0 .. n - 1 : \E d \in dirents : UrlRank(d) = i
<1>1. PICK f : f = [d \in dirents |-> UrlRank(d)]
  OBVIOUS
<1>2. \A d \in dirents : UrlRank(d) \in 0 .. n - 1
  BY RankFacts
<1>3. f \in [dirents -> 0 .. n - 1] /\ \A d \in dirents : f[d] = UrlRank(d)
  BY <1>1, <1>2
<1>4. \A d, e \in dirents : f[d] = f[e] => d = e
  BY <1>3, RankFacts
<1>5. f \in Injection(dirents, 0 .. n - 1)
  BY <1>3, <1>4 DEF Injection, IsInjective
<1>6. IsFiniteSet(0 .. n - 1) /\ Cardinality(0 .. n - 1) = n
  <2>1. PICK a \in Int : a = 0
    OBVIOUS
  <2>2. PICK b \in Int : b = n - 1
    OBVIOUS
  <2>3. IsFiniteSet(a .. b) /\ Cardinality(a .. b) = IF a > b THEN 0 ELSE b - a + 1
    BY FS_Interval
  <2> QED
    BY <2>1, <2>2, <2>3
<1>7. f \in Surjection(dirents, 0 .. n - 1)
  BY <1>5, <1>6, FS_Injection
<1> QED
  BY <1>3, <1>7 DEF Surjection

\* When the archive has been written and nothing was lost, what remains is the
\* directory, and both handlers of listings have been stopped.
LEMMA AllStopped ==
  ASSUME DirInv, phase = "done", Lost = {}
  PROVE  Remaining = dirents /\ Stopped(ListingV0) /\ Stopped(ListingV1)
<1>1. Remaining = dirents
  <2>1. dirents \subseteq Ids
    BY DEF DirInv, DirCore, DirType
  <2>2. \A d \in dirents : ~pool[d].removed
    BY <2>1 DEF DirInv, ListInv, RemovedInv
  <2>3. \A d \in Ids : d \in dirents \/ pool[d].removed
    BY DEF Lost
  <2> QED
    BY <2>1, <2>2, <2>3 DEF Remaining
<1>2. next \in Nat /\ next > Len(Handlers) /\ Len(Handlers) \in Nat
  BY CallFacts DEF DirInv, DirCore, DirType, ListInv, WrittenListsInv
<1>3. \A k \in 1 .. Len(Handlers) : k \in 1 .. next - 1
  BY <1>2
<1>4. \A h \in {ListingV0, ListingV1} : \E k \in 1 .. next - 1 : Handlers[k] = h
  BY <1>3, ListingsAssumption
<1> QED
  BY <1>1, <1>4 DEF Stopped

\* What a reader finds at a place of a listing.
LEMMA ListedEntry ==
  ASSUME DirInv, phase = "done", NEW d \in dirents
  PROVE  /\ pool[d].idx = UrlRank(d) /\ UrlRank(d) \in Nat /\ UrlRank(d) < Len(archive.entries)
         /\ Entry(pool[d].idx).ns = pool[d].ns /\ Entry(pool[d].idx).title = Title(d)
<1>1. pool[d].idx = UrlRank(d)
  BY DEF DirInv, DirCore, IndexInv, Indexed
<1>2. UrlRank(d) \in Nat /\ UrlRank(d) < Cardinality(dirents)
  BY RankFacts DEF DirInv, DirCore
<1>3. Len(archive.entries) = Cardinality(dirents) /\ Entry(UrlRank(d)) = WrittenDirent(d)
  BY DEF DirInv, DirCore, ArchiveInv
<1>4. WrittenDirent(d).ns = pool[d].ns /\ WrittenDirent(d).title = Title(d)
  BY DEF WrittenDirent
<1> QED
  BY <1>1, <1>2, <1>3, <1>4

LEMMA TitleTypes ==
  ASSUME DirType, NEW d \in Ids
  PROVE  pool[d].ns \in Nat /\ Title(d) \in Nat
<1>1. PICK b \in DirentType : b = pool[d]
  BY PoolFacts DEF DirType
<1>2. b.ns \in {1, 2, 3, 4} /\ b.path \in Nat /\ b.title \in Nat
  BY DEF DirentType, NsC, NsM, NsW, NsX
<1> QED
  BY <1>1, <1>2 DEF Title

\* The two listings that TitleListingHandler and TitleListingHandlerV1 write
\* are exact whenever no call was refused and no redirect replaced: the first
\* has every entry of the archive once, in the order of the titles, the second
\* only entries that exist, although both were filled when neither the indexes
\* nor the removals were known; and the title index knows every title.
THEOREM ListingIsExact == Spec => []ListingExact
<1>1. ASSUME DirInv, phase = "done", Lost = {} PROVE ListingExact
  <2>1. Remaining = dirents /\ Stopped(ListingV0) /\ Stopped(ListingV1) /\ dirents \subseteq Ids
    BY <1>1, AllStopped DEF DirInv, DirCore, DirType
  <2>2. PICK n \in Nat : n = Cardinality(dirents)
    BY <1>1, <2>1, FiniteFacts DEF DirInv, DirCore
  <2>3. Len(archive.entries) = n
    BY <1>1, <2>2 DEF DirInv, DirCore, ArchiveInv
  <2>4. PICK s \in Seq(Ids) : s = listing.v0
    BY <1>1 DEF DirInv, ListInv, ListType
  <2>5. Len(s) = n /\ Members(s) = dirents /\ InOrder(s)
    BY <1>1, <2>1, <2>2, <2>4 DEF DirInv, ListInv, AllListedInv
  <2>6. \A k \in 1 .. n : s[k] \in dirents
    BY <2>5 DEF Members
  <2>7. archive.v0 = [k \in 1 .. n |-> pool[s[k]].idx]
    BY <1>1, <2>4, <2>5 DEF DirInv, ListInv, WrittenListsInv
  <2>8. Len(archive.v0) = n /\ \A k \in 1 .. n : archive.v0[k] = pool[s[k]].idx
    BY <2>7
  <2>9. {archive.v0[k] : k \in 1 .. n} = 0 .. n - 1
    <3>1. \A k \in 1 .. n : archive.v0[k] \in 0 .. n - 1
      BY <1>1, <2>3, <2>6, <2>8, ListedEntry
    <3>2. ASSUME NEW i \in 0 .. n - 1 PROVE \E k \in 1 .. n : archive.v0[k] = i
      <4>1. PICK d \in dirents : UrlRank(d) = i
        BY <1>1, <2>2, RankOnto DEF DirInv, DirCore
      <4>2. PICK k \in 1 .. n : s[k] = d
        BY <2>5 DEF Members
      <4> QED
        BY <1>1, <2>8, <4>1, <4>2, ListedEntry
    <3> QED
      BY <3>1, <3>2
  <2>10. ASSUME NEW j \in 1 .. n, NEW k \in 1 .. n, j < k
         PROVE  LET d == Entry(archive.v0[j])
                    e == Entry(archive.v0[k])
                IN  d.ns < e.ns \/ (d.ns = e.ns /\ d.title <= e.title)
    <3>1. PICK a \in dirents : a = s[j]
      BY <2>6
    <3>2. PICK b \in dirents : b = s[k]
      BY <2>6
    <3>3. ~TitleLess(b, a)
      BY <2>5, <2>10, <3>1, <3>2 DEF InOrder
    <3>4. /\ pool[a].ns \in Nat /\ Title(a) \in Nat /\ pool[b].ns \in Nat /\ Title(b) \in Nat
      BY <1>1, <2>1, TitleTypes DEF DirInv, DirCore
    <3>5. pool[a].ns < pool[b].ns \/ (pool[a].ns = pool[b].ns /\ Title(a) <= Title(b))
      BY <3>3, <3>4 DEF TitleLess
    <3>6. Entry(archive.v0[j]).ns = pool[a].ns /\ Entry(archive.v0[j]).title = Title(a)
      BY <1>1, <2>8, <3>1, ListedEntry
    <3>7. Entry(archive.v0[k]).ns = pool[b].ns /\ Entry(archive.v0[k]).title = Title(b)
      BY <1>1, <2>8, <3>2, ListedEntry
    <3> QED
      BY <3>5, <3>6, <3>7
  <2>11. \A k \in 1 .. Len(archive.v1) : archive.v1[k] < Len(archive.entries)
    <3>1. PICK t \in Seq(Ids) : t = listing.v1
      BY <1>1 DEF DirInv, ListInv, ListType
    <3>2. PICK m \in Nat : m = Len(t)
      OBVIOUS
    <3>3. \A k \in 1 .. m : t[k] \in dirents
      BY <1>1, <2>1, <3>1, <3>2 DEF DirInv, ListInv, FrontListedInv, Members
    <3>4. archive.v1 = [k \in 1 .. m |-> pool[t[k]].idx]
      BY <1>1, <3>1, <3>2 DEF DirInv, ListInv, WrittenListsInv
    <3>5. Len(archive.v1) = m /\ \A k \in 1 .. m : archive.v1[k] = pool[t[k]].idx
      BY <3>4
    <3> QED
      BY <1>1, <3>3, <3>5, ListedEntry
  <2>12. \A d \in dirents : pool[d].ns = NsC /\ pool[d].title # Empty /\ WithTitleIndex =>
           [path |-> pool[d].path, title |-> pool[d].title] \in titleDocs
    BY <1>1, <2>1 DEF DirInv, ListInv, TitleDocsInv
  <2> QED
    BY <2>3, <2>8, <2>9, <2>10, <2>11, <2>12 DEF ListingExact
<1>2. DirInv => ListingExact
  BY <1>1 DEF ListingExact
<1> QED
  BY <1>2, DirectoryInvariance, PTL
=============================================================================
