---------------------- MODULE CreatorDirectoryInvariant ----------------------
(***************************************************************************)
(* An inductive invariant of CreatorDirectory, in named parts: what is in  *)
(* the directory, how far the redirects have been resolved, which indexes  *)
(* are valid, how many clusters there can be, and what is listed.          *)
(***************************************************************************)
EXTENDS CreatorDirectory

\* The add* calls and the first part of finishZimCreation: dirents are created.
Early == {"api", "favicon", "mainPage", "handlers", "threw"}

\* The indexes of the entries are known.
Indexed == {"mimes", "stop", "done"}

DirentType == [ns : {NsC, NsM, NsW, NsX}, path : Nat, title : Nat, mime : Nat, target : Nat,
               to : Nat, idx : Nat, removed : BOOLEAN]

DirType ==
  /\ phase \in Early \cup {"resolve"} \cup Indexed
  /\ pool \in Seq(DirentType)
  /\ dirents \subseteq Ids
  /\ mimeTypes \in Seq(Nat)
  /\ mainPath \in Nat /\ faviconPath \in Nat
  /\ next \in Nat
  /\ phase \in {"handlers", "stop"} => next >= 1

\* An index that has been given to a MIME type is not the one of redirects,
\* and nothing but redirects is ever removed.
MimeInv ==
  /\ Len(mimeTypes) <= MaxMimeIdx
  /\ \A j, k \in 1 .. Len(mimeTypes) : mimeTypes[j] = mimeTypes[k] => j = k
  /\ \A d \in Ids : IsRedirect(d) \/ pool[d].mime < Len(mimeTypes)
  /\ \A d \in Ids : pool[d].ns \in {NsM, NsX} => ~IsRedirect(d)
  /\ \A d \in Ids : pool[d].removed => IsRedirect(d)

\* No two entries have the same URL.
UrlInv == \A d, e \in dirents : pool[d].ns = pool[e].ns /\ pool[d].path = pool[e].path => d = e

\* The redirects still to be resolved are those of the directory.
PendingInv ==
  /\ phase \in Early => unresolved = {d \in dirents : IsRedirect(d)}
  /\ phase # "resolve" => resolving = {}
  /\ \A d \in resolving : d \in dirents /\ IsRedirect(d)

\* A redirect that has been resolved leads to an entry with its target's path.
\* Those of namespace W come last, when no redirect to them can be removed.
TargetInv ==
  phase \notin Early =>
    \A d \in dirents \ resolving : IsRedirect(d) =>
      LET e == pool[d].to
      IN  /\ e \in Ids
          /\ pool[e].ns = NsC /\ pool[e].path = pool[d].target
          /\ pool[d].ns = NsW => e \in dirents \ resolving

IndexInv == phase \in Indexed => \A d \in dirents : pool[d].idx = UrlRank(d)

\* The main page is created once and is in the directory unless its target is not.
MainInv ==
  /\ phase \in {"api", "favicon"} => \A d \in Ids : pool[d].ns # NsW
  /\ phase = "mainPage" => \A d \in Ids : pool[d].ns = NsW => pool[d].path = Favicon
  /\ phase \in {"api", "favicon", "mainPage"} => mainPageDirent = 0
  /\ mainPageDirent # 0 =>
       /\ mainPageDirent \in dirents /\ IsRedirect(mainPageDirent)
       /\ pool[mainPageDirent].ns = NsW /\ pool[mainPageDirent].path = MainPage
       /\ pool[mainPageDirent].target = mainPath
  /\ mainPageDirent = 0 =>
       \/ phase \in {"api", "favicon", "mainPage"}
       \/ mainPath = Empty
       \/ phase \notin Early /\ WithUrl(NsC, mainPath) = {}

\* Each cluster has the data of an item, a metadata or a handler.
Stored == {d \in Ids : pool[d].ns # NsX /\ ~IsRedirect(d)}
HandlerDirents == {d \in Ids : pool[d].ns = NsX}

CountInv ==
  /\ cluster \in [closed : Nat, comp : BOOLEAN, uncomp : BOOLEAN]
  /\ ClusterCount <= Cardinality(Stored) + (IF phase = "stop" THEN next - 1
                                            ELSE IF phase = "done" THEN Len(Handlers) ELSE 0)
  /\ phase \in {"api", "favicon", "mainPage"} => HandlerDirents = {}
  /\ phase = "handlers" => Cardinality(HandlerDirents) = next - 1 /\ next <= Len(Handlers) + 1
  /\ phase \notin Early => Cardinality(HandlerDirents) = Len(Handlers)
  /\ phase = "stop" => next <= Len(Handlers) + 1 /\ (next > 1 => cluster.uncomp)
  /\ phase = "done" => cluster.uncomp

\* Each dirent of the directory is in the archive, at its place.
ArchiveInv ==
  phase = "done" =>
    /\ Len(archive.entries) = Cardinality(dirents)
    /\ \A d \in dirents : Entry(UrlRank(d)) = WrittenDirent(d)
    /\ archive.mainPage = IF mainPageDirent = 0 THEN -1 ELSE pool[mainPageDirent].idx
    /\ archive.clusterCount = ClusterCount

DirCore == /\ DirType
           /\ MimeInv
           /\ UrlInv
           /\ PendingInv
           /\ TargetInv
           /\ IndexInv
           /\ MainInv
           /\ CountInv
           /\ ArchiveInv

\* The handler of listing h has been stopped.
Stopped(h) == phase \in {"stop", "done"} /\ \E k \in 1 .. next - 1 : Handlers[k] = h

Members(s) == {s[k] : k \in 1 .. Len(s)}
Remaining == {d \in Ids : ~pool[d].removed}

InOrder(s) == \A j, k \in 1 .. Len(s) : j < k => ~TitleLess(s[k], s[j])

\* What resolveRedirectIndexes removes has left the directory.
RemovedInv == \A d \in Ids : pool[d].removed => d \notin dirents

ListType == listing \in [v0 : Seq(Ids), v1 : Seq(Ids)]

\* Every dirent is listed when it is created; when its handler has been
\* stopped, the listing of all entries has each that remains once, in order.
AllListedInv ==
  /\ ~Stopped(ListingV0) => Members(listing.v0) = Ids
  /\ Stopped(ListingV0) => /\ Members(listing.v0) = Remaining
                           /\ Len(listing.v0) = Cardinality(Remaining)
                           /\ InOrder(listing.v0)

FrontListedInv == Stopped(ListingV1) => Members(listing.v1) \subseteq Remaining

\* The title index has the title of every dirent, accepted or not.
TitleDocsInv ==
  \A d \in Ids : WithTitleIndex /\ pool[d].ns = NsC /\ pool[d].title # Empty =>
    [path |-> pool[d].path, title |-> pool[d].title] \in titleDocs

\* The listings of the archive are those of the handlers.
WrittenListsInv ==
  phase = "done" =>
    /\ next > Len(Handlers)
    /\ archive.v0 = [k \in 1 .. Len(listing.v0) |-> pool[listing.v0[k]].idx]
    /\ archive.v1 = [k \in 1 .. Len(listing.v1) |-> pool[listing.v1[k]].idx]

ListInv == /\ RemovedInv
           /\ ListType
           /\ AllListedInv
           /\ FrontListedInv
           /\ TitleDocsInv
           /\ WrittenListsInv

DirInv == DirCore /\ ListInv
=============================================================================
