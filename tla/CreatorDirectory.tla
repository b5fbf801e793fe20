-------------------------- MODULE CreatorDirectory --------------------------
(***************************************************************************)
(* The directory of the archive that zim::writer::Creator builds: which    *)
(* entries there are, where redirects lead, the MIME types, the title      *)
(* listings and the header fields that depend on them.                     *)
(*                                                                         *)
(* Everything here happens on the thread that calls the API; where the     *)
(* content goes is the business of CreatorPipeline, of which only the      *)
(* number of clusters is kept.  Names (paths, titles, MIME types) are      *)
(* natural numbers, so that the orders of compareUrl, compareTitle and     *)
(* std::sort are those of numbers; the empty string is 0.                  *)
(***************************************************************************)
EXTENDS Integers, Sequences, FiniteSets

CONSTANTS
  ItemCalls,      \* arguments of addItem:        [path, title, mime, hint, front]
  RedirectCalls,  \* arguments of addRedirection: [path, title, target, front]
  MetadataCalls,  \* arguments of addMetadata:    [path, mime]
  MainPaths,      \* arguments of setMainPath
  FaviconPaths,   \* arguments of setFaviconPath
  MaxCalls,       \* bound on the number of add* calls
  Handlers,       \* paths, in namespace X, of the DirentHandlers in their order
  MaxMimeIdx,     \* numeric_limits<uint16_t>::max(), scaled down
  Compressible,   \* the MIME types that isCompressibleMimetype knows
  ClosesCluster   \* which answers the test of addItemData may give

-----------------------------------------------------------------------------
(* Names *)

Empty == 0

\* The namespaces, in their order.
NsC == 1
NsM == 2
NsW == 3
NsX == 4

\* Paths in namespace W.
Favicon == 1
MainPage == 2

\* Paths in namespace X: fulltext/xapian, the two listings, title/xapian.
FulltextIndex == 1
ListingV0 == 2
ListingV1 == 3
TitleIndex == 4

\* application/octet-stream, and the same with +xapian and +zimlisting.
OctetStream == 1
XapianMime == 2
ListingMime == 3

\* Dirent::redirectMimeType
RedirectMime == MaxMimeIdx

\* hint is the COMPRESS hint, front the FRONT_ARTICLE one.
ItemCallType == [path : Nat, title : Nat, mime : Nat,
                 hint : {"none", "comp", "uncomp"}, front : BOOLEAN]
RedirectCallType == [path : Nat, title : Nat, target : Nat, front : BOOLEAN]
MetadataCallType == [path : Nat, mime : Nat]

ASSUME DirectoryAssumption ==
  /\ ItemCalls \subseteq ItemCallType
  /\ RedirectCalls \subseteq RedirectCallType
  /\ MetadataCalls \subseteq MetadataCallType
  /\ MainPaths \subseteq Nat
  /\ FaviconPaths \subseteq Nat
  /\ MaxCalls \in Nat
  /\ Handlers \in Seq({FulltextIndex, ListingV0, ListingV1, TitleIndex}) /\ Len(Handlers) > 0
  /\ MaxMimeIdx \in Nat
  /\ ClosesCluster \subseteq BOOLEAN

\* The two listings are made in every build.
ASSUME ListingsAssumption ==
  \A h \in {ListingV0, ListingV1} : \E k \in 1 .. Len(Handlers) : Handlers[k] = h

VARIABLES
  phase,        \* how far the API thread is; see Phases
  calls,        \* add* calls made so far
  pool,         \* DirentPool: every Dirent ever created
  dirents,      \* CreatorData::dirents, as a set of positions in pool
  unresolved,   \* CreatorData::unresolvedRedirectDirents
  mimeTypes,    \* rmimeTypesMap: MIME types in the order of their index
  mimeList,     \* mimeTypesList
  listing,      \* m_dirents of the two listing handlers: [v0, v1]
  titleDocs,    \* documents in the title index
  mainPath,     \* m_mainPath
  faviconPath,  \* m_faviconPath
  mainPageDirent,
  next,         \* position in m_direntHandlers of finishZimCreation's loops
  resolving,    \* redirects resolveRedirectIndexes has still to look at
  cluster,      \* [closed, comp, uncomp]: clusters closed, and whether the
                \* two open ones have a blob
  archive       \* what Creator::write has written

dirVars == <<pool, dirents, unresolved, mimeTypes>>
vars == <<phase, calls, pool, dirents, unresolved, mimeTypes, mimeList, listing,
          titleDocs, mainPath, faviconPath, mainPageDirent, next, resolving,
          cluster, archive>>

-----------------------------------------------------------------------------
(* Dirents *)

\* Dirent::Dirent
NewDirent(ns, p, t) ==
  [ns |-> ns, path |-> p, title |-> t, mime |-> 0, target |-> Empty, to |-> 0,
   idx |-> 0, removed |-> FALSE]

IsRedirect(d) == pool[d].mime = RedirectMime

\* Dirent::getTitle
Title(d) == IF pool[d].title = Empty THEN pool[d].path ELSE pool[d].title

\* compareUrl
UrlLess(d, e) == \/ pool[d].ns < pool[e].ns
                 \/ pool[d].ns = pool[e].ns /\ pool[d].path < pool[e].path

\* compareTitle
TitleLess(d, e) == \/ pool[d].ns < pool[e].ns
                   \/ pool[d].ns = pool[e].ns /\ Title(d) < Title(e)

\* dirents.find
WithUrl(ns, p) == {d \in dirents : pool[d].ns = ns /\ pool[d].path = p}

\* Mutant: a redirect takes the place of an item.
NewcomerWins(same, r) == same

\* What gives way to r in addDirent: a redirect, when r is an item.
GivesWay(same, r) == {d \in same : IsRedirect(d) /\ r.mime # RedirectMime}

\* CreatorData::addDirent
AddDirent(r) ==
  LET n     == Len(pool) + 1
      same  == WithUrl(r.ns, r.path)
      gone  == GivesWay(same, r)
      added == IF r.mime = RedirectMime THEN {n} ELSE {}
  IN  /\ pool' = Append(pool, r)
      /\ \/ /\ same = gone
            /\ dirents' = (dirents \ gone) \cup {n}
            /\ unresolved' = (unresolved \ gone) \cup added
         \/ /\ same # gone
            /\ UNCHANGED <<dirents, unresolved>>

\* Mutant: the last index is given away.
MimeTypesFullPlus(m) ==
  /\ \A k \in 1 .. Len(mimeTypes) : mimeTypes[k] # m
  /\ Len(mimeTypes) > MaxMimeIdx

\* getMimeTypeIdx throws: no index left, the last one means redirect.
MimeTypesFull(m) ==
  /\ \A k \in 1 .. Len(mimeTypes) : mimeTypes[k] # m
  /\ Len(mimeTypes) >= MaxMimeIdx

\* CreatorData::getMimeTypeIdx
MimeTypesWith(m) == IF \E k \in 1 .. Len(mimeTypes) : mimeTypes[k] = m
                    THEN mimeTypes ELSE Append(mimeTypes, m)

MimeIdx(m) == (CHOOSE k \in 1 .. Len(MimeTypesWith(m)) : MimeTypesWith(m)[k] = m) - 1

\* CreatorData::createDirent
CreateDirent(ns, p, m, t) ==
  /\ ~MimeTypesFull(m)
  /\ mimeTypes' = MimeTypesWith(m)
  /\ AddDirent([NewDirent(ns, p, t) EXCEPT !.mime = MimeIdx(m)])

\* CreatorData::createRedirectDirent; targets are always in namespace C.
CreateRedirectDirent(ns, p, t, target) ==
  /\ AddDirent([NewDirent(ns, p, t) EXCEPT !.mime = RedirectMime,
                                           !.target = target])
  /\ UNCHANGED mimeTypes

\* TitleListingHandler::handle and TitleListingHandlerV1::handle
Listed(n, front) == [v0 |-> Append(listing.v0, n),
                     v1 |-> IF front THEN Append(listing.v1, n) ELSE listing.v1]

\* The handlers of the title index are there in builds with Xapian.
WithTitleIndex == \E k \in 1 .. Len(Handlers) : Handlers[k] = TitleIndex

\* TitleXapianHandler::handle_dirent
TitleDocsWith(r) == IF WithTitleIndex /\ r.ns = NsC /\ r.title # Empty
                    THEN titleDocs \cup {[path |-> r.path, title |-> r.title]}
                    ELSE titleDocs

\* Mutant: a cluster without a blob may be closed too.
AddItemDataAnyCount(kind) ==
  \E closes \in ClosesCluster :
    cluster' = [cluster EXCEPT ![kind] = TRUE, !.closed = IF closes THEN @ + 1 ELSE @]

\* CreatorData::addItemData, as far as the number of clusters goes: a cluster
\* that has a blob may be closed first.
AddItemData(kind) ==
  \E closes \in ClosesCluster :
    cluster' = [cluster EXCEPT ![kind] = TRUE,
                               !.closed = IF cluster[kind] /\ closes THEN @ + 1 ELSE @]

\* isCompressibleMimetype
ClusterKind(m) == IF m \in Compressible THEN "comp" ELSE "uncomp"

-----------------------------------------------------------------------------
(* The API *)

\* CreatorData::createItemDirent
ItemMime(c) == IF c.mime = Empty THEN OctetStream ELSE c.mime

\* compressContent: the hint, or else what the MIME type suggests.
ItemKind(c) == IF c.hint = "none" THEN ClusterKind(c.mime) ELSE c.hint

\* Creator::addItem.  The dirent is handled, and its data stored, even when
\* addDirent refused it.
AddItem(c) ==
  /\ phase = "api"
  /\ calls < MaxCalls
  /\ calls' = calls + 1
  /\ CreateDirent(NsC, c.path, ItemMime(c), c.title)
  /\ AddItemData(ItemKind(c))
  /\ titleDocs' = TitleDocsWith(pool'[Len(pool')])
  /\ listing' = Listed(Len(pool'), c.front)
  /\ UNCHANGED <<phase, mimeList, mainPath, faviconPath, mainPageDirent, next,
                 resolving, archive>>

\* Creator::addMetadata
AddMetadata(c) ==
  /\ phase = "api"
  /\ calls < MaxCalls
  /\ calls' = calls + 1
  /\ CreateDirent(NsM, c.path, c.mime, Empty)
  /\ AddItemData(ClusterKind(c.mime))
  /\ listing' = Listed(Len(pool'), FALSE)
  /\ UNCHANGED <<phase, mimeList, titleDocs, mainPath, faviconPath,
                 mainPageDirent, next, resolving, archive>>

\* addItem or addMetadata, when getMimeTypeIdx throws: nothing else happens.
AddThrows(m) ==
  /\ phase = "api"
  /\ calls < MaxCalls
  /\ MimeTypesFull(m)
  /\ calls' = calls + 1
  /\ UNCHANGED <<phase, dirVars, mimeList, listing, titleDocs, mainPath,
                 faviconPath, mainPageDirent, next, resolving, cluster, archive>>

\* Creator::addRedirection
AddRedirection(c) ==
  /\ phase = "api"
  /\ calls < MaxCalls
  /\ calls' = calls + 1
  /\ CreateRedirectDirent(NsC, c.path, c.title, c.target)
  /\ titleDocs' = TitleDocsWith(pool'[Len(pool')])
  /\ listing' = Listed(Len(pool'), c.front)
  /\ UNCHANGED <<phase, mimeList, mainPath, faviconPath, mainPageDirent, next,
                 resolving, cluster, archive>>

SetMainPath(p) ==
  /\ phase = "api"
  /\ mainPath' = p
  /\ UNCHANGED <<phase, calls, dirVars, mimeList, listing, titleDocs, faviconPath,
                 mainPageDirent, next, resolving, cluster, archive>>

SetFaviconPath(p) ==
  /\ phase = "api"
  /\ faviconPath' = p
  /\ UNCHANGED <<phase, calls, dirVars, mimeList, listing, titleDocs, mainPath,
                 mainPageDirent, next, resolving, cluster, archive>>

-----------------------------------------------------------------------------
(* Creator::finishZimCreation *)

FinishZimCreation ==
  /\ phase = "api"
  /\ phase' = "favicon"
  /\ UNCHANGED <<calls, dirVars, mimeList, listing, titleDocs, mainPath,
                 faviconPath, mainPageDirent, next, resolving, cluster, archive>>

CreateFavicon ==
  /\ phase = "favicon"
  /\ phase' = "mainPage"
  /\ \/ /\ faviconPath # Empty
        /\ CreateRedirectDirent(NsW, Favicon, Empty, faviconPath)
        /\ listing' = Listed(Len(pool'), FALSE)
     \/ /\ faviconPath = Empty
        /\ UNCHANGED <<dirVars, listing>>
  /\ UNCHANGED <<calls, mimeList, titleDocs, mainPath, faviconPath,
                 mainPageDirent, next, resolving, cluster, archive>>

CreateMainPage ==
  /\ phase = "mainPage"
  /\ phase' = "handlers"
  /\ next' = 1
  /\ \/ /\ mainPath # Empty
        /\ CreateRedirectDirent(NsW, MainPage, Empty, mainPath)
        /\ mainPageDirent' = Len(pool')
        /\ listing' = Listed(Len(pool'), FALSE)
     \/ /\ mainPath = Empty
        /\ UNCHANGED <<dirVars, listing, mainPageDirent>>
  /\ UNCHANGED <<calls, mimeList, titleDocs, mainPath, faviconPath, resolving,
                 cluster, archive>>

HandlerMime(h) == IF h \in {ListingV0, ListingV1} THEN ListingMime ELSE XapianMime

\* handler->getDirent() creates the entry of each handler; only the listing of
\* all entries is told.
CreateHandlerDirent ==
  /\ phase = "handlers"
  /\ next <= Len(Handlers)
  /\ CreateDirent(NsX, Handlers[next], HandlerMime(Handlers[next]), Empty)
  /\ listing' = Listed(Len(pool'), FALSE)
  /\ next' = next + 1
  /\ UNCHANGED <<phase, calls, mimeList, titleDocs, mainPath, faviconPath,
                 mainPageDirent, resolving, cluster, archive>>

\* getMimeTypeIdx throws out of finishZimCreation: there will be no archive.
FinishThrows ==
  /\ phase = "handlers"
  /\ next <= Len(Handlers)
  /\ MimeTypesFull(HandlerMime(Handlers[next]))
  /\ phase' = "threw"
  /\ UNCHANGED <<calls, dirVars, mimeList, listing, titleDocs, mainPath,
                 faviconPath, mainPageDirent, next, resolving, cluster, archive>>

StartResolving ==
  /\ phase = "handlers"
  /\ next > Len(Handlers)
  /\ phase' = "resolve"
  /\ resolving' = unresolved
  /\ UNCHANGED <<calls, dirVars, mimeList, listing, titleDocs, mainPath,
                 faviconPath, mainPageDirent, next, cluster, archive>>

\* Mutant: the main page is not forgotten.
KeepMainPage(d) == mainPageDirent

MainPageWithout(d) == IF d = mainPageDirent THEN 0 ELSE mainPageDirent

\* One turn of resolveRedirectIndexes, in the order of the URLs.
ResolveRedirect ==
  /\ phase = "resolve"
  /\ \E d \in resolving :
       LET found == WithUrl(NsC, pool[d].target)
       IN  /\ \A e \in resolving : ~UrlLess(e, d)
           /\ resolving' = resolving \ {d}
           /\ \/ /\ found = {}
                 /\ dirents' = dirents \ {d}
                 /\ pool' = [pool EXCEPT ![d].removed = TRUE]
                 /\ mainPageDirent' = MainPageWithout(d)
              \/ /\ found # {}
                 /\ pool' = [pool EXCEPT ![d].to = CHOOSE e \in found : TRUE]
                 /\ UNCHANGED <<dirents, mainPageDirent>>
  /\ UNCHANGED <<phase, calls, unresolved, mimeTypes, mimeList, listing,
                 titleDocs, mainPath, faviconPath, next, cluster, archive>>

\* The position of a dirent in an iteration over dirents.
UrlRank(d) == Cardinality({e \in dirents : UrlLess(e, d)})

\* Mutant: the indexes count the redirects that have been removed.
IndexAmongAll(d) == Cardinality({e \in 1 .. Len(pool) : UrlLess(e, d)})

\* The counter of setEntryIndexes when it comes to d.
EntryIndex(d) == UrlRank(d)

\* CreatorData::setEntryIndexes
SetEntryIndexes ==
  /\ phase = "resolve"
  /\ resolving = {}
  /\ pool' = [d \in 1 .. Len(pool) |->
                IF d \in dirents THEN [pool[d] EXCEPT !.idx = EntryIndex(d)]
                                 ELSE pool[d]]
  /\ phase' = "mimes"
  /\ UNCHANGED <<calls, dirents, unresolved, mimeTypes, mimeList, listing,
                 titleDocs, mainPath, faviconPath, mainPageDirent, next,
                 resolving, cluster, archive>>

\* Mutant: the inverse of the mapping.
OldMimeIdx(i) == LET less == {k \in 1 .. Len(mimeTypes) :
                               Cardinality({j \in 1 .. Len(mimeTypes) :
                                   mimeTypes[j] < mimeTypes[k]}) = i}
                 IN  (CHOOSE k \in less : TRUE) - 1

\* mapping: the position in the sorted list of the type with index i.
NewMimeIdx(i) == Cardinality({k \in 1 .. Len(mimeTypes) :
                                mimeTypes[k] < mimeTypes[i + 1]})

\* CreatorData::resolveMimeTypes
ResolveMimeTypes ==
  /\ phase = "mimes"
  /\ mimeList' = [k \in 1 .. Len(mimeTypes) |->
                    CHOOSE m \in {mimeTypes[j] : j \in 1 .. Len(mimeTypes)} :
                      Cardinality({j \in 1 .. Len(mimeTypes) : mimeTypes[j] < m}) = k - 1]
  /\ pool' = [d \in 1 .. Len(pool) |->
                IF d \in dirents /\ ~IsRedirect(d)
                THEN [pool[d] EXCEPT !.mime = NewMimeIdx(@)] ELSE pool[d]]
  /\ phase' = "stop"
  /\ next' = 1
  /\ UNCHANGED <<calls, dirents, unresolved, mimeTypes, listing, titleDocs,
                 mainPath, faviconPath, mainPageDirent, resolving, cluster,
                 archive>>

\* What may follow s when S is sorted: entries with the same namespace and
\* title come in any order.
Follows(S, s) ==
  LET left == S \ {s[k] : k \in 1 .. Len(s)}
  IN  {d \in left : \A e \in left : ~TitleLess(e, d)}

\* The orders in which std::sort may leave a set of dirents.
SortedByTitle(S) ==
  LET sorted[n \in 0 .. Cardinality(S)] ==
        IF n = 0 THEN {<<>>}
        ELSE UNION {{Append(s, d) : d \in Follows(S, s)} : s \in sorted[n - 1]}
  IN  sorted[Cardinality(S)]

\* Mutant: the redirects that have been removed stay listed.
AllListed(s) == {s[k] : k \in 1 .. Len(s)}

\* TitleListingHandler::stop, the dirents that stay.
NotRemoved(s) == {d \in {s[k] : k \in 1 .. Len(s)} : ~pool[d].removed}

\* handler->stop(), and the content of the handler goes to a cluster.
StopHandler ==
  /\ phase = "stop"
  /\ next <= Len(Handlers)
  /\ \/ /\ Handlers[next] = ListingV0
        /\ \E s \in SortedByTitle(NotRemoved(listing.v0)) :
             listing' = [listing EXCEPT !.v0 = s]
     \/ /\ Handlers[next] = ListingV1
        /\ \E s \in SortedByTitle(NotRemoved(listing.v1)) :
             listing' = [listing EXCEPT !.v1 = s]
     \/ /\ Handlers[next] \notin {ListingV0, ListingV1}
        /\ UNCHANGED listing
  /\ AddItemData("uncomp")
  /\ next' = next + 1
  /\ UNCHANGED <<phase, calls, dirVars, mimeList, titleDocs, mainPath,
                 faviconPath, mainPageDirent, resolving, archive>>

\* Dirent::write
WrittenDirent(d) ==
  [ns |-> pool[d].ns, path |-> pool[d].path, title |-> Title(d),
   mime |-> pool[d].mime,
   redirect |-> IF IsRedirect(d) THEN pool[pool[d].to].idx ELSE 0]

\* getClusterNumber and getBlobNumber are left to CreatorPipeline.
ClusterCount == cluster.closed + Cardinality({k \in {"comp", "uncomp"} : cluster[k]})

\* The last closeCluster calls, Creator::fillHeader and Creator::write: the
\* directory is written in the order of the URLs.
Write ==
  /\ phase = "stop"
  /\ next > Len(Handlers)
  /\ archive' =
       [entries  |-> [k \in 1 .. Cardinality(dirents) |->
                        WrittenDirent(CHOOSE d \in dirents : UrlRank(d) = k - 1)],
        v0       |-> [k \in 1 .. Len(listing.v0) |-> pool[listing.v0[k]].idx],
        v1       |-> [k \in 1 .. Len(listing.v1) |-> pool[listing.v1[k]].idx],
        mimes    |-> mimeList,
        mainPage |-> IF mainPageDirent = 0 THEN -1 ELSE pool[mainPageDirent].idx,
        clusterCount |-> ClusterCount]
  /\ phase' = "done"
  /\ UNCHANGED <<calls, dirVars, mimeList, listing, titleDocs, mainPath,
                 faviconPath, mainPageDirent, next, resolving, cluster>>

-----------------------------------------------------------------------------
NoArchive == [entries |-> <<>>, v0 |-> <<>>, v1 |-> <<>>, mimes |-> <<>>,
              mainPage |-> -1, clusterCount |-> 0]

\* CreatorData::CreatorData
Init ==
  /\ phase = "api"
  /\ calls = 0
  /\ pool = <<>>
  /\ dirents = {}
  /\ unresolved = {}
  /\ mimeTypes = <<>>
  /\ mimeList = <<>>
  /\ listing = [v0 |-> <<>>, v1 |-> <<>>]
  /\ titleDocs = {}
  /\ mainPath = Empty
  /\ faviconPath = Empty
  /\ mainPageDirent = 0
  /\ next = 0
  /\ resolving = {}
  /\ cluster = [closed |-> 0, comp |-> FALSE, uncomp |-> FALSE]
  /\ archive = NoArchive

Terminated == phase \in {"done", "threw"} /\ UNCHANGED vars

Next ==
  \/ \E c \in ItemCalls : AddItem(c)
  \/ \E c \in MetadataCalls : AddMetadata(c)
  \/ \E c \in RedirectCalls : AddRedirection(c)
  \/ \E c \in ItemCalls : AddThrows(ItemMime(c))
  \/ \E c \in MetadataCalls : AddThrows(c.mime)
  \/ \E p \in MainPaths : SetMainPath(p)
  \/ \E p \in FaviconPaths : SetFaviconPath(p)
  \/ FinishZimCreation \/ CreateFavicon \/ CreateMainPage
  \/ CreateHandlerDirent \/ FinishThrows \/ StartResolving
  \/ ResolveRedirect \/ SetEntryIndexes \/ ResolveMimeTypes
  \/ StopHandler \/ Write
  \/ Terminated

Spec == Init /\ [][Next]_vars

-----------------------------------------------------------------------------
(* Properties *)

Ids == 1 .. Len(pool)

\* An item accepted by addDirent stays in the directory until it is written,
\* whatever is added later under its path, and stays an item.
ItemsStay ==
  [][\A d \in dirents : ~IsRedirect(d) => d \in dirents' /\ ~IsRedirect(d)']_<<pool, dirents>>

Entry(i) == archive.entries[i + 1]

\* The dirents that addDirent refused or replaced.
Lost == {d \in Ids : d \notin dirents /\ ~pool[d].removed}

\* No two entries have the same URL; the redirects still to be resolved are in
\* the directory, so what resolveRedirectIndexes erases was there; and nothing
\* created as an item is taken for a redirect, however many MIME types exist.
DirectoryConsistent ==
  /\ \A d, e \in dirents : UrlLess(d, e) \/ UrlLess(e, d) \/ d = e
  /\ \A d \in resolving : d \in dirents /\ IsRedirect(d)
  /\ \A d \in Ids : pool[d].ns \in {NsM, NsX} => ~IsRedirect(d)
  /\ phase \in {"api", "favicon", "mainPage", "handlers"} =>
       unresolved = {d \in dirents : IsRedirect(d)}

\* A redirect that is in the archive, and whose target is, leads to the entry
\* with the path the caller gave - although the target is looked up before the
\* indexes are known, and entries disappear in between.
RedirectsExact ==
  phase = "done" => \A d \in dirents : IsRedirect(d) =>
    /\ pool[d].to # 0
    /\ pool[d].to \in dirents =>
         LET e == Entry(Entry(UrlRank(d)).redirect)
         IN  e.ns = NsC /\ e.path = pool[d].target

\* The main page of the header is the entry W/mainPage, which leads to the path
\* given to setMainPath; if an item has that path there is a main page.
MainPageExact ==
  phase = "done" =>
    /\ archive.mainPage # -1 =>
         /\ Entry(archive.mainPage).ns = NsW
         /\ Entry(archive.mainPage).path = MainPage
         /\ LET e == Entry(Entry(archive.mainPage).redirect)
            IN  e.ns = NsC /\ e.path = mainPath
    /\ archive.mainPage = -1 =>
         mainPath = Empty \/ \A d \in WithUrl(NsC, mainPath) : IsRedirect(d)

\* If no call was refused and no redirect replaced, the listing of all entries
\* has each of them once, ordered by title, and the one of front articles only
\* entries that exist; the title index has all titles, besides those of removed
\* redirects.
ListingExact ==
  phase = "done" /\ Lost = {} =>
    /\ Len(archive.v0) = Len(archive.entries)
    /\ {archive.v0[k] : k \in 1 .. Len(archive.v0)} = 0 .. Len(archive.entries) - 1
    /\ \A j, k \in 1 .. Len(archive.v0) : j < k =>
         LET d == Entry(archive.v0[j])
             e == Entry(archive.v0[k])
         IN  d.ns < e.ns \/ (d.ns = e.ns /\ d.title <= e.title)
    /\ \A k \in 1 .. Len(archive.v1) : archive.v1[k] < Len(archive.entries)
    /\ \A d \in dirents : pool[d].ns = NsC /\ pool[d].title # Empty /\ WithTitleIndex =>
         [path |-> pool[d].path, title |-> pool[d].title] \in titleDocs

\* The loop of FileImpl::readMimeTypes: the list ends at an empty type.
MimesRead(list) == {k \in 1 .. Len(list) : \A j \in 1 .. k : list[j] # Empty}

\* The MIME type a reader finds for an entry is the one given to createDirent,
\* which stored an index that resolveMimeTypes replaced.
MimeTypesExact ==
  [][phase = "mimes" => \A d \in dirents : ~IsRedirect(d) =>
       LET i == pool'[d].mime + 1
       IN  /\ i \in MimesRead(mimeList')
           /\ mimeList'[i] = mimeTypes[pool[d].mime + 1]]_phase

\* Fileheader::sanity_check, which every reader of the archive starts with.
SanityCheck == /\ archive.entries # <<>> <=> archive.clusterCount # 0
               /\ archive.clusterCount <= Len(archive.entries)

\* If no item was refused, readers accept the counts of the header.
SaneUnlessRefused ==
  phase = "done" /\ (\A d \in Lost : IsRedirect(d)) => SanityCheck

-----------------------------------------------------------------------------
(* What tests, assertions and comments of the repository say *)

\* test/creator.cpp on a redirect to a path that does not exist: "Invalid
\* redirection, must be removed by creator".  No redirect of the archive leads
\* to an entry that is not there.
InvalidRedirectionsRemoved ==
  phase = "done" => \A d \in dirents : IsRedirect(d) => pool[d].to \in dirents
=============================================================================
