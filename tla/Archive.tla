------------------------------- MODULE Archive -------------------------------
(***************************************************************************)
(* zim::Archive, Entry and the parts of FileImpl behind them: the queries  *)
(* that threads make to an open archive.  Finding a dirent by its key is   *)
(* what DirentLookup is shown to do, the index of the first dirent that is *)
(* not smaller; the queries themselves are modelled here, with the list by *)
(* clusters, which the first thread that needs it makes for all, and the   *)
(* redirects, which are followed entry by entry.                           *)
(*                                                                         *)
(* Strings are sequences of characters; namespaces are characters.  The    *)
(* names of well-known entries are cut down to one character.              *)
(***************************************************************************)
EXTENDS DirentKeys, SequencesExt

CONSTANTS
  Archives,   \* [newScheme, dirents, v0, v1, compressed, mainPage]
  Paths,      \* what may be asked for
  Titles,
  Threads,
  Watchdog,   \* 50
  MaxCalls    \* bound on the number of calls

Slash == 47   Dash == 45
NsA == 65   NsC == 67   NsI == 73   NsJ == 74   NsM == 77   NsW == 87   NsX == 88
mainPage == <<112>>
favicon == <<102>>
faviconPng == <<102, 112>>
listingV1 == <<118>>
NoMainPage == -1

\* The writer leaves the dirents in the order of their keys, and none of its
\* namespaces is a slash.
DirentSet == [ns : Nat \ {Slash}, url : Seq(Nat), title : Seq(Nat), cluster : Nat, target : Int]
ArchiveSet == [newScheme : BOOLEAN, dirents : Seq(DirentSet), v0 : Seq(Nat), v1 : Seq(Nat),
               compressed : SUBSET Nat, mainPage : Int]
KeyOf(d) == <<d.ns>> \o d.url
ASSUME ArchivesAssumption ==
  /\ Archives \subseteq ArchiveSet
  /\ \A a \in Archives : \A i, j \in 1 .. Len(a.dirents) :
       i < j => StringLess(KeyOf(a.dirents[i]), KeyOf(a.dirents[j]))

\* No string in UTF-8 has the byte 0xFF, whose successor is 0.
CharMax == 255
ASSUME QueriesAssumption == Paths \subseteq Seq(0 .. CharMax - 1) /\ Titles \subseteq Seq(0 .. CharMax - 1)
ASSUME WatchdogAssumption == Watchdog \in Nat \ {0}
ASSUME ThreadsAssumption == "free" \notin Threads /\ "set" \notin Threads

VARIABLES
  arch,                 \* the archive; never changes
  orderOnceFlag,        \* "free", the thread inside call_once, or "set"
  articleListByCluster, \* pairs <<cluster, index>>
  act,                  \* what each thread is doing, and the answer it got
  calls                 \* the number of calls made

vars == <<arch, orderOnceFlag, articleListByCluster, act, calls>>

Idle == [op |-> "idle", arg |-> <<>>, n |-> 0, found |-> FALSE, begin |-> 0, end |-> 0]

Least(a, b) == IF a < b THEN a ELSE b

Count == Len(arch.dirents)
Dirent(i) == arch.dirents[i + 1]
Key(i) == KeyOf(Dirent(i))
isRedirect(i) == Dirent(i).target >= 0

-----------------------------------------------------------------------------
(* FileImpl *)

\* findx(ns, url)
findx(ns, url) ==
  LET k == <<ns>> \o url
      n == Cardinality({i \in 0 .. Count - 1 : StringLess(Key(i), k)})
  IN  [found |-> n < Count /\ Key(n) = k, index |-> n]

\* getNamespaceBeginOffset(ch)
NamespaceBegin(ch) == Cardinality({i \in 0 .. Count - 1 : Dirent(i).ns < ch})

\* readMimeTypes ends with the range of the user's entries.
StartUserEntry == IF arch.newScheme THEN NamespaceBegin(NsC) ELSE 0
EndUserEntry == IF arch.newScheme THEN NamespaceBegin(NsC + 1) ELSE Count
UserEntries == StartUserEntry .. EndUserEntry - 1

\* getTitleAccessor(path): there is none where the listing is compressed.
HasListingV1 ==
  LET r == findx(NsX, listingV1)
  IN  r.found /\ Dirent(r.index).cluster \notin arch.compressed

\* The constructor prefers the listing of the front articles to that of all entries.
TitleListing == IF HasListingV1 THEN arch.v1 ELSE arch.v0
TitleCount == Len(TitleListing)
getDirectIndex(i) == TitleListing[i + 1]

\* direntCompareTitle
TitleKey(i) == LET d == Dirent(getDirectIndex(i)) IN <<d.ns>> \o d.title

\* The bisection of findxByTitle in l .. u - 1: any dirent with the title will do.
BisectTitle(k) ==
  LET bisect[r \in (0 .. TitleCount) \X (0 .. TitleCount)] ==
        LET l == r[1]  u == r[2]  p == l + (u - l) \div 2
        IN  CASE u - l > 1 /\ StringLess(k, TitleKey(p)) -> bisect[<<l, p>>]
              [] u - l > 1 /\ StringLess(TitleKey(p), k) -> bisect[<<p, u>>]
              [] OTHER -> [found |-> k = TitleKey(p),
                           index |-> IF StringLess(TitleKey(p), k) THEN u ELSE p]
  IN  bisect[<<0, TitleCount>>]

findxByTitle(ns, title) ==
  IF TitleCount = 0 THEN [found |-> FALSE, index |-> 0] ELSE BisectTitle(<<ns>> \o title)

\* checkDirentOrder
CheckDirentOrder == \A i \in 1 .. Count - 1 : StringLess(Key(i - 1), Key(i))

\* checkTitleListing
CheckTitleListing(listing) ==
  LET PseudoTitle(j) == LET d == Dirent(listing[j]) IN <<d.ns>> \o d.title
  IN  \A j \in 1 .. Len(listing) :
        /\ listing[j] < Count
        /\ j > 1 => ~ StringLess(PseudoTitle(j), PseudoTitle(j - 1))

\* Mutant: only the listing that the header names is checked.
CheckTitleTable == CheckTitleListing(arch.v0)

\* checkTitleIndex
CheckTitleIndex == CheckTitleListing(arch.v0) /\ (HasListingV1 => CheckTitleListing(arch.v1))

-----------------------------------------------------------------------------
(* Paths *)

\* zim::parseLongPath: NS/url, with or without a slash in front.
First(p) == IF p # <<>> /\ p[1] = Slash THEN 1 ELSE 0
Parses(p) ==
  LET i == First(p)
  IN  /\ i + 1 <= Len(p) /\ p[i + 1] # Slash
      /\ i + 1 < Len(p) => p[i + 2] = Slash
LongNs(p) == p[First(p) + 1]
ShortPath(p) == SubSeq(p, Least(First(p) + 2, Len(p)) + 1, Len(p))

\* path.back()++ of a char
Incremented(c) == (c + 1) % (CharMax + 1)
Successor(p) == [p EXCEPT ![Len(p)] = Incremented(@)]

\* Entry::getPath
getPath(i) == IF arch.newScheme THEN Dirent(i).url ELSE <<Dirent(i).ns, Slash>> \o Dirent(i).url

NotFound == [found |-> FALSE, index |-> 0]

\* The first of several lookups that finds something
FirstFound(results) ==
  IF \E j \in 1 .. Len(results) : results[j].found
  THEN results[CHOOSE j \in 1 .. Len(results) : results[j].found /\ \A h \in 1 .. j - 1 : ~ results[h].found]
  ELSE NotFound

\* Mutant: the namespace is taken off first.
StrippedFirst(p) ==
  IF arch.newScheme
  THEN FirstFound(<<IF Parses(p) THEN findx(NsC, ShortPath(p)) ELSE NotFound, findx(NsC, p)>>)
  ELSE FirstFound(<<IF Parses(p) THEN findx(LongNs(p), ShortPath(p)) ELSE NotFound,
                    findx(NsA, p), findx(NsI, p), findx(NsJ, p), findx(Dash, p)>>)

\* getEntryByPath(path): paths of archives of the other scheme are tried too.
EntryByPath(p) ==
  IF arch.newScheme
  THEN FirstFound(<<findx(NsC, p), IF Parses(p) THEN findx(NsC, ShortPath(p)) ELSE NotFound>>)
  ELSE FirstFound(<<IF Parses(p) THEN findx(LongNs(p), ShortPath(p)) ELSE NotFound,
                    findx(NsA, p), findx(NsI, p), findx(NsJ, p), findx(Dash, p)>>)

\* getEntryByTitle(title)
EntryByTitle(title) ==
  LET r == FirstFound([j \in 1 .. 5 |-> findxByTitle(<<NsC, NsA, NsI, NsJ, Dash>>[j], title)])
  IN  IF r.found THEN [r EXCEPT !.index = getDirectIndex(@)] ELSE r

\* getMainEntry: the header may name no entry, or one that is not there.
MainEntry ==
  LET r == findx(NsW, mainPage)
  IN  IF r.found THEN r
      ELSE IF arch.mainPage = NoMainPage \/ arch.mainPage >= Count THEN NotFound
      ELSE [found |-> TRUE, index |-> arch.mainPage]

\* getFaviconEntry
FaviconEntry == FirstFound(<<findx(NsW, favicon), findx(NsW, faviconPng), findx(Dash, favicon),
                             findx(Dash, faviconPng), findx(NsI, favicon), findx(NsI, faviconPng)>>)

EntryRange(b, e) == [begin |-> b, end |-> e]

\* Mutant: the end of the range is where the path itself would be.
RangeToPath(p) ==
  IF p = <<>> \/ p = <<Slash>> THEN EntryRange(StartUserEntry, EndUserEntry)
  ELSE IF arch.newScheme THEN EntryRange(findx(NsC, p).index, findx(NsC, Append(p, 0)).index)
  ELSE IF ~ Parses(p) THEN EntryRange(0, 0)
  ELSE EntryRange(findx(LongNs(p), ShortPath(p)).index, findx(LongNs(p), Append(ShortPath(p), 0)).index)

\* findByPath(path)
RangeByPath(p) ==
  IF p = <<>> \/ p = <<Slash>> THEN EntryRange(StartUserEntry, EndUserEntry)
  ELSE IF arch.newScheme THEN EntryRange(findx(NsC, p).index, findx(NsC, Successor(p)).index)
  ELSE IF ~ Parses(p) THEN EntryRange(0, 0)
  ELSE EntryRange(findx(LongNs(p), ShortPath(p)).index,
             IF ShortPath(p) = <<>> THEN findx(Incremented(LongNs(p)), <<>>).index
                                    ELSE findx(LongNs(p), Successor(ShortPath(p))).index)

\* findByTitle(title), for a title that is not empty
RangeByTitle(title) ==
  LET ns == IF arch.newScheme THEN NsC ELSE NsA
  IN  EntryRange(findxByTitle(ns, title).index, findxByTitle(ns, Successor(title)).index)

-----------------------------------------------------------------------------
(* Queries that one step answers *)

Begins(t) ==
  /\ act[t].op = "idle" /\ calls < MaxCalls
  /\ calls' = calls + 1
  /\ UNCHANGED <<arch, orderOnceFlag, articleListByCluster>>

AnswerEntry(t, op, arg, r) ==
  /\ Begins(t)
  /\ act' = [act EXCEPT ![t] = [Idle EXCEPT !.op = op, !.arg = arg, !.found = r.found, !.n = r.index]]

AnswerRange(t, op, arg, r) ==
  /\ Begins(t)
  /\ act' = [act EXCEPT ![t] = [Idle EXCEPT !.op = op, !.arg = arg, !.begin = r.begin, !.end = r.end]]

GetEntryByPath(t, p) == AnswerEntry(t, "byPath", p, EntryByPath(p))
GetEntryByTitle(t, title) == AnswerEntry(t, "byTitle", title, EntryByTitle(title))
GetMainEntry(t) == AnswerEntry(t, "main", <<>>, MainEntry)
GetFaviconEntry(t) == AnswerEntry(t, "favicon", <<>>, FaviconEntry)
CheckIntegrity(t) ==
  AnswerEntry(t, "check", <<>>, [found |-> CheckDirentOrder /\ CheckTitleIndex, index |-> 0])
GetMetadataKeys(t) == AnswerRange(t, "keys", <<>>, EntryRange(NamespaceBegin(NsM), NamespaceBegin(NsM + 1)))
FindByPath(t, p) == AnswerRange(t, "pathRange", p, RangeByPath(p))
FindByTitle(t, title) == title # <<>> /\ AnswerRange(t, "titleRange", title, RangeByTitle(title))
IterByPath(t) == AnswerRange(t, "iterPath", <<>>, EntryRange(StartUserEntry, EndUserEntry))
IterByTitle(t) == AnswerRange(t, "iterTitle", <<>>, EntryRange(StartUserEntry, EndUserEntry))

-----------------------------------------------------------------------------
(* Entry::getItem: begin is the entry asked, n the entry reached, end the watchdog. *)

ItemOf(t, i) ==
  /\ Begins(t)
  /\ act' = [act EXCEPT ![t] =
       IF isRedirect(i)
       THEN [Idle EXCEPT !.op = "follow", !.begin = i, !.n = Dirent(i).target, !.end = Watchdog]
       ELSE [Idle EXCEPT !.op = "item", !.begin = i, !.n = i, !.found = TRUE]]

GetItem(t, i) == i \in 0 .. Count - 1 /\ ItemOf(t, i)

\* getItem(false) of a redirect throws.
GetItemItself(t, i) ==
  /\ i \in 0 .. Count - 1
  /\ AnswerEntry(t, "itself", <<>>, [found |-> ~ isRedirect(i), index |-> i])

\* getMetadata(name)
GetMetadata(t, name) ==
  LET r == findx(NsM, name)
  IN  IF r.found THEN ItemOf(t, r.index) ELSE AnswerEntry(t, "metadata", name, r)

\* Mutant: the watchdog is looked at before it is decremented.
WatchedLate(w) == w > 0

\* --watchdog is not 0
Watched(w) == w > 1

\* One turn of the loop of getRedirect; then the item, if that is what was reached.
Follow(t) ==
  LET a == act[t]
  IN  /\ a.op = "follow"
      /\ act' = [act EXCEPT ![t] =
           IF isRedirect(a.n) /\ Watched(a.end)
           THEN [a EXCEPT !.n = Dirent(a.n).target, !.end = @ - 1]
           ELSE [a EXCEPT !.op = "item", !.found = ~ isRedirect(a.n)]]
      /\ UNCHANGED <<arch, orderOnceFlag, articleListByCluster, calls>>

-----------------------------------------------------------------------------
(* FileImpl::getIndexByClusterOrder *)

GetEntryByClusterOrder(t, n) ==
  /\ n \in 0 .. Count
  /\ Begins(t)
  /\ act' = [act EXCEPT ![t] = [Idle EXCEPT !.op = "order", !.begin = n]]

\* Mutant: a list with something in it is a list that has been made.
OrderStarted == articleListByCluster # <<>>

\* Where std::call_once lets a thread through at once
OrderSet == orderOnceFlag = "set"

StartOrder(t) ==
  /\ act[t].op = "order" /\ orderOnceFlag = "free"
  /\ orderOnceFlag' = t
  /\ act' = [act EXCEPT ![t].op = "list", ![t].n = StartUserEntry]
  /\ UNCHANGED <<arch, articleListByCluster, calls>>

\* The type and the cluster are read from the file for each entry.
ListEntry(t) ==
  LET i == act[t].n
  IN  /\ act[t].op = "list" /\ i < EndUserEntry
      /\ articleListByCluster' =
           Append(articleListByCluster, <<IF isRedirect(i) THEN 0 ELSE Dirent(i).cluster, i>>)
      /\ act' = [act EXCEPT ![t].n = i + 1]
      /\ UNCHANGED <<arch, orderOnceFlag, calls>>

PairLess(a, b) == a[1] < b[1] \/ (a[1] = b[1] /\ a[2] < b[2])

\* std::sort; no two of the pairs are equal.
SortedList(list) ==
  [k \in 1 .. Len(list) |->
     CHOOSE p \in ToSet(list) : Cardinality({q \in ToSet(list) : PairLess(q, p)}) = k - 1]

SortList(t) ==
  /\ act[t].op = "list" /\ act[t].n >= EndUserEntry
  /\ articleListByCluster' = SortedList(articleListByCluster)
  /\ orderOnceFlag' = "set"
  /\ act' = [act EXCEPT ![t].op = "order"]
  /\ UNCHANGED <<arch, calls>>

IndexByClusterOrder(t) ==
  LET n == act[t].begin
      inside == n < Len(articleListByCluster)
  IN  /\ act[t].op = "order" /\ OrderSet
      /\ act' = [act EXCEPT ![t].op = "ordered", ![t].found = inside,
                            ![t].n = IF inside THEN articleListByCluster[n + 1][2] ELSE 0]
      /\ UNCHANGED <<arch, orderOnceFlag, articleListByCluster, calls>>

-----------------------------------------------------------------------------
Busy == {"idle", "follow", "order", "list"}

Answered(t) ==
  /\ act[t].op \notin Busy
  /\ act' = [act EXCEPT ![t] = Idle]
  /\ UNCHANGED <<arch, orderOnceFlag, articleListByCluster, calls>>

Calls(t) ==
  \/ \E p \in Paths : GetEntryByPath(t, p) \/ FindByPath(t, p) \/ GetMetadata(t, p)
  \/ \E title \in Titles : GetEntryByTitle(t, title) \/ FindByTitle(t, title)
  \/ GetMainEntry(t) \/ GetFaviconEntry(t) \/ GetMetadataKeys(t) \/ CheckIntegrity(t)
  \/ IterByPath(t) \/ IterByTitle(t)
  \/ \E i \in 0 .. Count : GetItem(t, i) \/ GetItemItself(t, i) \/ GetEntryByClusterOrder(t, i)

Steps(t) == Follow(t) \/ StartOrder(t) \/ ListEntry(t) \/ SortList(t) \/ IndexByClusterOrder(t) \/ Answered(t)

Finished == calls = MaxCalls /\ (\A t \in Threads : act[t].op = "idle") /\ UNCHANGED vars

Init ==
  /\ arch \in Archives
  /\ orderOnceFlag = "free" /\ articleListByCluster = <<>>
  /\ act = [t \in Threads |-> Idle] /\ calls = 0

Next == (\E t \in Threads : Calls(t) \/ Steps(t)) \/ Finished

Spec == Init /\ [][Next]_vars
FairSpec == Spec /\ \A t \in Threads : WF_vars(Steps(t))

-----------------------------------------------------------------------------
(* Properties *)

Has(t, op) == act[t].op = op
Between(a) == a.begin .. a.end - 1

\* The entry of a path that Entry::getPath returned is the entry itself, though
\* getEntryByPath also tries the path as one of the other scheme.
PathRoundTrip ==
  \A t \in Threads, i \in UserEntries :
    Has(t, "byPath") /\ act[t].arg = getPath(i) => act[t].found /\ act[t].n = i

\* A namespace alone stands for all of it, and a slash may precede it.
LongPrefix(p) == <<LongNs(p), Slash>> \o ShortPath(p)
HasPrefix(i, p) ==
  \/ p = <<>> \/ p = <<Slash>>
  \/ arch.newScheme /\ IsPrefix(p, getPath(i))
  \/ ~ arch.newScheme /\ Parses(p) /\ IsPrefix(LongPrefix(p), getPath(i))

\* findByPath returns the user's entries whose path has the prefix, all of them
\* and no other, though only the two ends of the range are looked up.
PathRangeExact ==
  \A t \in Threads :
    Has(t, "pathRange") => Between(act[t]) = {i \in UserEntries : HasPrefix(i, act[t].arg)}

TitleNamespaces == IF arch.newScheme THEN {NsC} ELSE {NsA}
Listed == {getDirectIndex(j) : j \in 0 .. TitleCount - 1}
Titled(j, title) ==
  LET d == Dirent(getDirectIndex(j)) IN d.ns \in TitleNamespaces /\ IsPrefix(title, d.title)

\* The bisection stops at any of several equal titles: a range may begin or end among them.
AmongTwins(j, title) ==
  /\ Dirent(getDirectIndex(j)).title \in {title, Successor(title)}
  /\ \E h \in 0 .. TitleCount - 1 : h # j /\ TitleKey(h) = TitleKey(j)

\* Of the entries that the title accessor lists (the front articles only, where
\* there is a listing of them; no other entry is found by its title) getEntryByTitle
\* finds one with the title if there is one, and findByTitle returns those whose
\* titles have the prefix, all of them and no other, except among several entries
\* that have the very title asked for, or the very title that ends the range; in
\* archives that pass checkTitleIndex.
ListedTitlesExact ==
  CheckTitleIndex => \A t \in Threads :
    /\ Has(t, "byTitle") =>
         LET named == {i \in Listed : Dirent(i).title = act[t].arg
                                      /\ Dirent(i).ns \in {NsC, NsA, NsI, NsJ, Dash}}
         IN  /\ act[t].found <=> named # {}
             /\ act[t].found => act[t].n \in named
    /\ Has(t, "titleRange") =>
         /\ Between(act[t]) \subseteq 0 .. TitleCount - 1
         /\ \A j \in 0 .. TitleCount - 1 :
              ~ AmongTwins(j, act[t].arg) => (j \in Between(act[t]) <=> Titled(j, act[t].arg))

\* The n-th entry by clusters is the one that n entries of the user precede,
\* whichever thread made the list, and there is one for each entry of the user.
ClusterOf(i) == IF isRedirect(i) THEN 0 ELSE Dirent(i).cluster
EachEntryOnce ==
  \A t \in Threads :
    Has(t, "ordered") =>
      LET a == act[t]
          Before(i) == {j \in UserEntries : PairLess(<<ClusterOf(j), j>>, <<ClusterOf(i), i>>)}
      IN  /\ a.found <=> a.begin < Cardinality(UserEntries)
          /\ a.found => a.n \in UserEntries /\ Cardinality(Before(a.n)) = a.begin

\* Following redirects ends, also when they lead in a circle, and leads to the
\* item at the end of the chain when that is at most Watchdog redirects away.
EndOfChain(i) ==
  LET hop[k \in 0 .. Watchdog] ==
        IF k = 0 THEN i
        ELSE IF isRedirect(hop[k - 1]) THEN Dirent(hop[k - 1]).target ELSE hop[k - 1]
  IN  hop[Watchdog]
ItemExact(t) ==
  Has(t, "item") => LET e == EndOfChain(act[t].begin)
                    IN  /\ act[t].found <=> ~ isRedirect(e)
                        /\ act[t].found => act[t].n = e
RedirectsEnd ==
  /\ [](\A t \in Threads : ItemExact(t))
  /\ \A t \in Threads : Has(t, "follow") ~> Has(t, "item")

\* iterByTitle promises "A range on all the entries, in title order.": each index
\* of the range is one that the title accessor has.
TitleIterationReadable ==
  \A t \in Threads : Has(t, "iterTitle") => Between(act[t]) \subseteq 0 .. TitleCount - 1
=============================================================================
