# TLA+ specifications of libzim

libzim writes and reads ZIM archives: one file with a header, a list of MIME
types, a sorted directory of entries, and the content of the entries packed
into (compressed) clusters. `zim::writer::Creator` builds an archive with a
pool of threads; `zim::Archive` reads it, from several threads at once.

This directory specifies the parts where the order of steps matters, checks
the specifications with TLC on small instances and proves the main safety
properties with TLAPS for every instance. `PROJECT.json` lists the parts of
the library, the runs, which lines of the source each definition stands for,
the hazards, the findings and the theorems.

## 1. Inventory

### Writer

| Part | State | Operations | Interacts with |
|---|---|---|---|
| Creator threads (`creator.cpp`, `cluster.cpp`, `queue.h`, `workers.cpp`, `clusterWorker.*`, `xapianWorker.*`) | two open clusters, the list of closed ones, two bounded queues, the counts of live tasks, the file | `addItem`, `addMetadata`, `finishZimCreation` on the caller's thread; `taskRunner` on each worker; `clusterWriter` on one thread | the workers compress and close clusters that the caller filled and the writer thread writes; tasks index items into the Xapian database |
| Directory (`creator.cpp`, `_dirent.h`, `dirent.cpp`, `titleListingHandler.cpp`, `xapianHandler.cpp`) | the set of dirents, the redirects still to be resolved, MIME types, what each `DirentHandler` collected, main page and favicon | `addItem`, `addMetadata`, `addRedirection`, `setMainPath`, `setFaviconPath`, and `resolveRedirectIndexes`, `setEntryIndexes`, `resolveMimeTypes`, `stop` of the handlers, `write` | one thread; handlers are told of each dirent when it is added and asked for their content at the end |
| Items and content providers | supplied by the caller | `getSize`, `feed` | read once, by the worker or by the writer thread |

Hard here: a cluster goes through three threads by pointer and without a lock
(only `closed` says whose it is); the workers finish in any order while the
numbers of the clusters are given out on the caller's thread; two waits of
`finishZimCreation` poll static counters; offsets are put together from values
noted at different moments; redirects are resolved to dirents that may be
removed afterwards; the same dirent index means different things before and
after `resolveMimeTypes`. Correct means: the archive appears under its name
only when complete, each entry reads back as its own content, redirects, main
page, listings and MIME types lead where the caller said, and every call
returns.

### Reader

| Part | State | Operations | Hard |
|---|---|---|---|
| Cluster cache (`concurrent_cache.h`, `lrucache.h`) | LRU list and map of shared futures | `getOrPut` from any thread | eviction while the value is computed; a loader that throws |
| Dirent accessor (`dirent_accessor.*`, `direntreader.h`, `dirent.cpp`) | LRU cache of dirents, buffer of the reader | `getDirent` | the cache is locked twice, the read happens in between; parsing with a guessed length |
| Entry lookup (`dirent_lookup.h`, `narrowdown.h`) | a table of sampled keys, the boundaries of namespaces found so far | `find`, `getNamespaceRangeBegin` | shortened keys, borders of the range, first and last entry |
| File implementation (`fileimpl.cpp`, `fileheader.cpp`) | offsets, MIME types, accessors | opening, `getCluster`, lookups, `verify`, integrity checks | offsets of a corrupt file; old and new title listings |
| Archive, entries, iterators (`archive.cpp`, `entry.cpp`, `item.cpp`) | | `getEntryByPath`, `findByTitle`, redirects, iteration orders | chains of redirects, archives with the old namespaces |
| Clusters and streams (`cluster.cpp`, `decoderstreamreader.h`, ...) | offsets, blob readers made so far | `getBlob` | lazy sequential decompression, shared under a mutex |
| Split files (`file_compound.*`, `file_part.h`, `file_reader.*`) | ranges of the parts | `read`, `get_buffer`, `sub_reader`, `getDirectAccessInformation` | a range over several parts; the last byte of a part |
| Search (`search.cpp`, `search_iterator.cpp`) | opened Xapian databases, iterators | `search`, `suggest`, iteration | lazily filled state; archives without an index |
| Compression (`compression.*`) | encoder and decoder streams | `feed`, `close` | loops that end only if the codec makes progress |
| Template parser (`template.*`) | parser state | `parse` | |

File system wrappers, checksums, identifiers, byte order and the third-party
HTML parser have no control of their own and stay outside.

## 2. Modules

| Module | What it is |
|---|---|
| `ArchiveWriter` | the promise of `Creator` to its caller, without threads |
| `CreatorPipeline` | the threads of `Creator`: clusters, queues, workers, writer thread, `finishZimCreation`; implements `ArchiveWriter` |
| `CreatorPipelineInvariant` | its inductive invariants, in named parts: `IInv` of the threads, `AInv` of what they leave in the file |
| `CreatorPipelineProofs` | the theorems that rest on `IInv` |
| `CreatorArchiveProofs` | the theorems that rest on `AInv`, and the refinement of `ArchiveWriter` |
| `CreatorDirectory` | the directory: dirents, redirects, MIME types, listings, main page |
| `CreatorDirectoryInvariant`, `CreatorDirectoryProofs` | its inductive invariant and the theorems about it |
| `ConcurrentCache` | `ConcurrentCache` over `lru_cache` |
| `ConcurrentCacheProofs` | the theorems about it |
| `FileCompound` | one file or a row of parts, and the readers on top of them |
| `FileCompoundProofs` | the theorems about it |
| `DirentAccessor` | dirents read on demand through a cache and a shared buffer |
| `DirentKeys` | keys as strings: their order, and the shortest string between two |
| `DirentLookup` | `NarrowDown`, `find` and namespace boundaries, on top of `DirentAccessor` |
| `DirentLookupInvariant`, `DirentLookupProofs` | the inductive invariant of both, and the theorems about them |
| `Compressor` | the content of a cluster on its way through `Compressor` to the file |
| `ClusterReader` | streams and `zim::Cluster`, on the file that `Compressor` wrote |
| `ClusterReaderProofs` | the inductive invariants of both, and the theorems about them |
| `Archive` | `zim::Archive`, `Entry` and the lookups of `FileImpl` behind them |
| `ArchiveProofs` | its inductive invariant and the theorems about it |
| `MC...` | instances for TLC |

`DirentLookup` extends `DirentAccessor`, `ClusterReader` extends `Compressor`:
these runs check the composition. `Archive` uses of the lookup what
`DirentLookup` is shown to promise (`FindExact`, `BoundariesExact`).

### CreatorPipeline

`mainPc` is where the caller's thread is, `call` the `addItemData`,
`closeCluster` and `pushToQueue` it is in, `handler` the position in the loop
over the handlers (0 until `finishZimCreation` is called). `clusters` is the heap of
`writer::Cluster` objects and a pointer is a position in it; `place` holds what
`Dirent::setCluster` stored. Steps are cut where another thread can see the
difference: at each take of a queue's lock, at the write of `closed`, at
construction and destruction of the tasks that `waiting_task` counts. The two
looks of `pushToQueue` at the queue (`TaskWait`/`TaskPush`,
`ClusterWait`/`ClusterPush`) are therefore separate actions, as are
`getHead`, `isClosed` and `popFromQueue` of the writer thread (`GetHead`,
`IsClosed`, `PopCluster`). Polling loops are waits: an iteration that finds
nothing changes nothing. Content is the sequence of the blobs' names; a
compressed cluster is its blobs with the length `ZipLen`. Sizes and offsets
are kept, with `UINT32_MAX` scaled down, because the title pointer of the
header and the extended format depend on them.

The writes of `Creator::write` are `WriteTables` and `WriteHeader`. A crash
can happen in every state: since the file has its temporary name until
`Rename`, an invariant that starts with `zimName =>` says what a crash
leaves.

### CreatorDirectory

One thread; names are numbers because only their order matters, and the empty
string is 0. `pool` is `DirentPool`, `dirents` the `std::set` of them, whose
iteration order is `UrlRank`. `finishZimCreation` is one action per step, and
one per turn of the loops over the handlers and over the redirects.
`std::sort` is not stable, so `SortedByTitle` is the set of all orders it may
leave: each next element is one of those that nothing left precedes (`Follows`).
Of the content only the number of clusters is kept; whether the next
item closes the open cluster is a free choice (`ClosesCluster`), as sizes are.
`MimesRead` and `SanityCheck` are the first things a reader does with the
result. The constructor of `CreatorData` pushes the handlers of the two listings whatever
the configuration: there is always a handler (`DirectoryAssumption`), and both
listings are made (`ListingsAssumption`).

### ConcurrentCache

`promises` is the sequence of all promises ever made; a future is a position in
it. `Hit` and `Miss` are the part under the lock, `Load` and `LoadFails` are
`f()`, `Get` is the wait for the future. `lastUse` is a history variable.

### FileCompound

A byte is the pair of its file and its offset in the file, so a read tells
where it took each byte from. `parts` is the `std::map` from ranges to parts
with its comparison `less`; `LowerBound` and `UpperBound` are the two halves of
`equal_range`. `Read`, `ReadPart` and `ReadEnds` are the loop of
`MultiPartFileReader::read`; the readers of a single file and those that use
mmap are one step, with the alignment to pages. Reads of the system succeed:
readers stay within `fsize`, which is the size of the files when they were
opened. Empty parts are excluded by `DiskAssumption` (`emplace` takes the range
of an empty part for that of its successor and drops the latter). `FileReader`
does not test that the segment which the caller of `Archive(fd, offset, size)`
names lies in the file; `MakeReader` has segments that do. A blob asked for
direct access may be empty or in a compressed cluster (`GetDirectAccess`).

### DirentAccessor and DirentLookup

A dirent is its index, its content its key and its size. `acc[t]` is what
thread t does in `getDirent`: the look into the cache and the store are under
the lock of the cache, the read and the parse in between under that of the
buffer, which all threads use. `m_buffer` holds whose bytes were read last and
how many. `ReadBuffer` is not enabled beyond the end of the file, because
`FD::readAt` does not return there. `DirentLookup` adds the construction of the
grid: the thread that opens the archive (`Opener`) reads the keys it needs for
the next entry through `getDirent` as any other thread (`GetDirentKey`,
`DirentKeyRead`; `got` is what it has of them), adds the entry (`AddEntry`) and
at the end the last one (`Close`), and throws on a table that it sees to be out of
order. When all this is done come the calls: `Find` and `Compare` are `find`, the actions named
`Boundary...` are `getNamespaceRangeBegin` with its cache. Strings, their order
and `shortestStringInBetween` are parameters with the assumptions the search
needs (`KeyAssumption`, `BetweenAssumption`); the run gives them the
definitions of `DirentKeys`, and TLC evaluates the assumptions.

### Compressor and ClusterReader

Data is counted in units that carry where they come from. `given` is where
`write_content` is: which offset is next, and how much of which blob is given
away. `WriteOffset`, `WriteBlob` and `NextProvider` are the turns of its loops,
each of which hands one piece to the writer it was called with: an offset, cast
to its width, or what a provider delivers at a time (`FeedSize`). `Writer` is
that of `Cluster::write` or that of `_compress`. `Run` is one round of the loop in `feed`; how
much the library takes and delivers is free as far as its interface leaves it
free (`MayDeliver`), the status is computed as `stream_run_encode` of either
class does. `OpenCluster`, `FirstOffset` and `OtherOffsets` are the loader of
the cluster cache, `GetBlob` to `GetBuffer` the calls of threads, each round
of the decoder a step. The reader does not know where the cluster ends, so the
file goes on behind it (`Trailer`). Sizes of buffers, pieces, chunks and offsets
are any positive numbers (`SizesAssumption`, `ReadersAssumption`), and clusters any
lists of blob sizes (`ClustersAssumption`). An offset is cast to the type that
`addContent` chose (`OffsetType`), whether it fits or not. The reader compares
each offset with the one before it; where it is smaller the assertion throws and
the cluster is not opened (`rpc = "threw"`), and so when the first offset is too
small for any table. That is the build that `meson.build` gives, which does not
define `NDEBUG`; without assertions the reader would go on with a blob of negative
size, which is not modelled.

### Archive

The directory of an open archive is a constant record; a query is one step,
except for those with a loop that other threads or a circle of redirects can
get at: the list by clusters (`StartOrder`, `ListEntry`, `SortList` inside
`call_once`) and following redirects (`Follow`). `findx` is the index of the
first dirent that is not smaller; `findxByTitle` is the bisection of the code,
as titles may be equal and listings unsorted. Paths are sequences of
characters because `parseLongPath` and the end of a range look at single
characters, and characters are bytes: `path.back()++` wraps (`Incremented`).
The dirents are any sequence in the order of keys, as the writer leaves it and
`DirentLookup` needs it, and no namespace is a slash (`ArchivesAssumption`); the
title listings may be any. Paths and titles that are asked for do not have the
byte 0xFF, which no UTF-8 has and whose successor is 0 (`QueriesAssumption`). The
watchdog is positive, and threads are not called as the states of the once
flag (`WatchdogAssumption`, `ThreadsAssumption`). `"mainPage"`, `"favicon"`, `"favicon.png"` and the path of the
listing are cut down to one or two characters.

## 3. Runs

Names refer to `PROJECT.json`, which also names the cfg of each.

| Run | Instance | Shows |
|---|---|---|
| `pipeline_index` | 3 items (one metadata, one without index data), 2 workers, queue bound 1, indexing, compression | `QueueBound`, `WrittenWhereDirentsSay`, `OneOwnerPerCluster`, `IndexCompleteWhenClosed`, `ArchiveComplete`, `TitlePointerExact`, `ExtendedAnnounced` and the inductive invariants `IInv` and `AInv` (together `PipelineInv`; `TypeOK` is a part of it) |
| `pipeline_live` | 2 items, fair threads | `AppendOnly`, `CallsReturn`, `ClustersGetWritten`, and `ImplementsArchiveWriter` with its liveness |
| `directory` | up to 4 add calls among 3 items, 4 redirects and 2 metadata; 3 indexes for 6 MIME types; 2 main pages, a favicon, 4 handlers; every item closes the cluster | `RedirectsExact`, `MainPageExact`, `ListingExact`, `SaneUnlessRefused`, `DirectoryConsistent`, `MimeTypesExact`, `ItemsStay` and the inductive invariant `DirInv` |
| `cache` | 3 threads, 3 keys, room for 2, 4 calls, one key whose loader may throw | `MapMatchesList`, `LeastRecentlyUsedLast`, `PendingHasLoader`, `ReturnsWhatWasAsked` and `CallsReturn` |
| `parts` | one file of 1 to 4 bytes, or up to 3 parts of 1 to 3 bytes, pages of 2 bytes; every range and every chain of sub-readers | `ReadExact`, `DirectAccessExact` |
| `lookup` | 2 threads, 2 calls, 10 keys, 5 tables (empty, one dirent, duplicates, out of order), a grid of every second key, a cache for 1 | `FindExact`, `BoundariesExact`, `FindsReturn` (the archive is opened and calls return) and the inductive invariant `LookupInv` |
| `stream` | a cluster of 3 blobs (one empty), an extended one, two with a truncated offset and one with too many blobs, 3 codecs, 2 threads, 3 calls | `OutputComplete`, `BlobExact`, `FeedsReturn`, `CallsReturn` |
| `archive` | 2 archives of each scheme and one with a compressed listing, 2 threads, 2 calls, 16 paths, 4 titles, a watchdog of 3 | `PathRoundTrip`, `PathRangeExact`, `ListedTitlesExact`, `EachEntryOnce`, `RedirectsEnd` |

Why the bounds are enough. Pipeline: two compressible items that fill more than a
cluster, an empty one and the blobs of the handlers give several clusters of both
kinds, so that clusters overtake each other among two workers, both queues
fill up, an extended cluster follows and precedes ordinary ones, and the
caller waits on each queue. A third worker or a longer queue adds no new
relation between two clusters, and the theorems do not depend on either.
Directory: four calls give a chain of two redirects with a missing end,
an item that replaces a redirect that another one leads to, and duplicates of
each kind in each order; with paths 1, 2 and the missing 3 all orders of
source and target occur. Every item that finds a blob in its cluster closes it,
which gives the most clusters: the only property of their number bounds it from
above, and the theorem leaves the choice free. Cache: with room for two and three keys an element
is evicted while it is loaded and its key is put again by another thread;
the fourth call is that second load. Parts: three parts have a first, a last and
a middle one that a range may cover whole; with pages of two bytes offsets are
aligned and not. Lookup: the fourth table has a key before, between, at and
behind every element of the grid, in two namespaces; with room for one dirent
each thread evicts what the other stored, and dirents of up to three bytes need
two rounds of a buffer that grows by two. Stream: an output buffer that begins
with two units is enlarged three times, chunks of three units cut offsets and
blobs, the last offset of the first cluster is the largest that fits, and in the
others it is the first or the second one behind the table that does not.
Archive: the chain of redirects is as long as the watchdog allows, and the circle
longer; the watchdog's 50 is only a number. Workers are symmetric in the first run of
the pipeline; there is no symmetry where liveness is checked.

### Fairness

`pipeline_live` assumes weak fairness of the caller's thread inside a call
(`MainStep`; nobody has to call the API), of each worker and of the writer
thread. Each is a thread of the operating system that polls (with a sleep)
rather than blocks, and all their steps stay enabled until taken, so weak
fairness is what a scheduler that runs every thread gives. `cache`
assumes that `f()` returns or throws and that a thread whose future is ready
runs on. `lookup`, `stream` and `archive` assume that a thread inside a call
goes on, and so do in `lookup` the thread that opens the archive and in `stream`
the worker and the loader. A thread that waits
for a mutex may be overtaken, but only as often as there are calls left, so
weak fairness suffices. The compression libraries make progress in each call
when there is room in the output, as they document.

### Findings

Runs marked `violation` state what a test, an assertion or a comment of the
repository says and show a behaviour of the code that contradicts it:

- `redirect_chain`: a redirect to a redirect that is removed later survives
  and leads to entry 0. `RedirectsExact` says what remains true: a redirect
  whose target is in the archive leads to it.
- `dirent_near_end`: a dirent longer than 256 bytes (or than a multiple of it)
  near the end of the file makes `readDirent` ask for bytes behind the end, and
  `FD::readAt` never returns, with the mutex of the buffer held (where assertions
  are compiled in, that of `FileReader::read` throws instead). In the run it is
  the last dirent, which the constructor of `DirentLookup` reads, so that the
  archive is never opened; one that the grid leaves out would stop the first
  `find` that meets it. Archives that the Creator writes have the pointer lists behind the dirents, which in a small
  archive are shorter than the step.
- `zstd_stuck`: when a piece of input fills the output buffer exactly, `feed`
  waits for a `BUF_ERROR` that zstd does not return. `FeedsReturn` says what
  remains true: with lzma every cluster is compressed in the end.
- `iter_by_title`: the range of `iterByTitle` is in indexes of the path order,
  and the title listing of front articles is shorter.

Other things that were met while modelling and have no run of their own, because
a passing property states what holds instead:

- one blob of 2^32-8 to 2^32-1 bytes does not make its cluster extended, but its
  end does not fit 32 bits (`writer/cluster.cpp:236`, `112`), and so it is with
  several blobs that only together need more. The writer says nothing, and the
  cluster cannot be opened, by the assertion of `cluster.cpp:116`. `stream` has
  such clusters, and `BlobExact` says that they are refused, that no other cluster
  is, and that none is read wrongly;
- where an archive has a listing of front articles, `getEntryByTitle` and
  `findByTitle` see no other entries (`fileimpl.cpp:147`), though `archive.h:182`
  promises an exception only "If no entry has the asked title." and `archive.h:322`
  a range of the entries that start with the title: the cause is that of
  `iter_by_title`. In `mcNew` the entry with the title `aa` is not found.
  `ListedTitlesExact` is about the listed entries, and says so;
- of several listed entries with the title asked for, `findByTitle` begins at any,
  where the bisection meets one first, and if several have the very title that
  ends the range, some of them may be in it (`archive.cpp:319`). `mcTwins` has both
  cases. `ListedTitlesExact` says that the range is exact but for those entries;
- a dirent that `addDirent` refused or replaced is listed all the same, so the
  listing is longer than the directory (`creator.cpp:174`), and the data of
  refused items is stored, so that an archive may have more clusters than
  entries, which `Fileheader::sanity_check` refuses (`creator.cpp:173`);
  `ListingExact` and `SaneUnlessRefused` are about archives where no call was
  refused;
- an empty MIME type of a metadata ends the list of MIME types for readers
  (`creator.cpp:191`); the metadata of `directory` have other types, and the
  theorem on MIME types has that as its hypothesis;
- the title index keeps the titles of redirects that were removed
  (`xapianHandler.cpp:118`); `ListingExact` says that it lacks none;
- when the loader of a cluster throws, its broken future stays in the cache and
  each call for the key fails until it is evicted (`concurrent_cache.h:69`);
- nothing keeps the list of MIME types within the space reserved for it
  (`creator.cpp:337`); what `creator.h:77` calls the minimum size of a cluster
  is a bound that clusters of several items stay below (`creator.cpp:508`);
- `ZIM_DIRENTLOOKUPCACHE=0` divides by zero (`dirent_lookup.h:81`); `getMTime`
  reads a field that is never set (`file_compound.h:104`); a buffer of an empty
  blob at the beginning of a page throws (`file_reader.cpp:144`), which
  `ReadExact` allows for reads of no bytes only; `hasMainEntry` looks at the
  header only, `getMainEntry` at `W/mainPage` first (`archive.cpp:164`); the copy
  of an iterator that was never dereferenced copies from a null pointer
  (`archive.h:444`).

## 4. Proofs

### The pipeline

`CreatorPipelineProofs` proves, for any items, sizes, number of workers,
queue bound and options allowed by `ConstantsAssumption`:

- `Invariance`: `Spec => []IInv`;
- from it `TypeCorrect`, `WritesWhereDirentsSay`, `IndexComplete`,
  `OneOwner`, `QueuesBounded` and the action property `OnlyAppends`.

None of these properties is inductive. That the k-th chunk of the file holds
the blobs of cluster k-1 depends on what was compressed, that on the task
having found the cluster as the caller left it, that on no second task for it,
and that on the queue of the writer being exactly the part of `clustersList`
that is not in the file. `IInv` says it for each station: `MainInv` and
`ClosingInv` which call the caller's thread is in, `OpenInv` that open
clusters are nobody else's, `TaskInv` and `TaskClusterInv` that each task
exists once and finds its cluster unprocessed, `QueueInv` the equation between
`clustersList`, `clusterToWrite` and the file, `WriterInv` what the writer
thread holds, `ContentInv` that every blob is where its dirent says at
every station, `IndexInv` that each item to be indexed is either in the
database or counted, `OffsetInv` the order of the offsets. There is one lemma
per action, with a step per part the action can disturb.

### What the pipeline leaves in the file

`CreatorArchiveProofs` builds on `IInv`, under the same assumptions:

- `ArchiveInvariance`: `Spec => []AInv`, and with it `PipelineInvariance`;
- from both `CompleteWhenNamed` (`ArchiveComplete`), `TitlePointerIsExact` and
  `ExtendedIsAnnounced`;
- `ImplementsArchiveWriterSafely`: `Spec => Archive!SafeSpec`, that is, initial
  states map to initial states of `ArchiveWriter` and every step to a step of
  it or to none.

`IInv` says of each blob that is somewhere that it is where its dirent says;
that nothing is missing at the end is a different matter. `PlacedInv` says which
blobs have been stored, `EmptyInv` that an open cluster is left behind only
without blobs, `NamesInv` that nothing is in a cluster or in the file twice (so
that reading back finds one blob and not two), `TableInv` that the offsets of an
uncompressed cluster reach the file as they were made, `TitleInv` that the offset
main noted for the title listing is the one in that table, `ExtendedInv` that
`isExtended` knows all closed clusters, `EndInv` in which order the threads end,
and `TablesInv` that nothing changes under the tables once they are written. The
refinement then needs one fact per step: only `FinishZimCreation`, the first
step of each add call and `Rename` change what the caller sees, and `Rename`
makes the archive appear with all of it, by `CompleteWhenNamed` and
`IndexComplete`.

### The directory

`CreatorDirectoryProofs` proves `DirectoryInvariance: Spec => []DirInv` for any
sets of calls, any handlers, any number of MIME indexes (0 too) and any number
of calls, as long as both listings are among the handlers, and from it

- `DirectoryIsConsistent`, `RedirectsAreExact`, `MainPageIsExact`,
  `CountsAreSane` and `ListingIsExact`;
- the action properties `ItemsAreKept` and `MimeTypesAreExact`, the latter under
  the hypothesis that no metadata has an empty MIME type.

`RedirectsExact` speaks of the end only, so everything is in what holds on the
way. `MimeInv`: no index of a type is that of redirects, so an item is never
taken for one and nothing but redirects is removed. `UrlInv`: URLs are unique,
which makes `UrlRank` injective, so an index names an entry. `PendingInv`: which
redirects are still to be resolved. `TargetInv`: a resolved redirect points at a
dirent with the right path - in the directory or removed, which is the case of
the finding `redirect_chain` - and one of namespace W at one that is there to
stay, because the redirects of C come before those of W in the order of URLs and
have all been looked at by then; this is what makes the main page exact although
other redirects are not. `IndexInv`: after `setEntryIndexes` the index of a dirent
is its rank. `MainInv`: W/mainPage is created once and is there unless its target
is not. `CountInv`: each cluster has the data of a dirent, the handlers' included.
`ArchiveInv`: each dirent is written at its rank. `MimeTypesExact` needs that the
positions in the sorted list are a bijection, which comes from the cardinalities
(`MimeRankFacts`, `MimeRankOnto`).

These parts are `DirCore`; `DirInv` adds `ListInv`, on the listings. A handler
notes each dirent when it is created and drops the removed ones when it is
stopped, many steps later, so `AllListedInv` says two things: until the handler of
the listing has been stopped it has every dirent of the pool, and from then on
every one that remains, once and in order. `RemovedInv` and the absence of refused
dirents (the hypothesis of `ListingExact`) make what remains the directory, and
the ranks being a bijection (`RankOnto`) makes what is listed the numbers of all
entries. `SortFacts` says what `std::sort` leaves: `SortedByTitle` is a recursive
function on the number of elements taken, and `Iterates` gives what such a
recursion does from its steps, by the least number principle for sets of
numbers (`Smallest`, from `WFMin`). Each step keeps `Begins`: the elements taken so
far are different and none that is left precedes them. After as many steps as
there are elements, that is a bijection, again by cardinalities.

### Lookup

`DirentLookupProofs` proves `LookupInvariance: Spec => []LookupInv` for any keys
with a total order that respects namespaces (`KeyAssumption`), any function that
gives a key between two (`BetweenAssumption`), any tables, grid and size of the
cache and any number of threads, and from it `FindIsExact` and
`BoundariesAreExact`. `ConstructInv` says that what the constructor has read are
keys of the table and that nobody else reads meanwhile. `LookupInv` says that the cache holds under each index the
dirent with that index, that the buffer belongs to the holder of its mutex and
holds the bytes that thread has asked for, that the keys of the grid lie
between their neighbours in the table and their positions ascend, and that the
answer stays between the bounds of each search, across the steps of
other threads. All this is for tables that are sorted: in others nothing is said
of the answers. That the grid encloses the key at the start of a search needs
the first key of the grid behind it, which `NatMin` (the least number principle
for a set of numbers, from `WFMin`) provides. TLC evaluates both assumptions
on the strings of `DirentKeys`.

### The cache

`ConcurrentCacheProofs` proves `CacheInvariance: Spec => []CInv` for any
non-empty set of keys, any threads, any `MaxEntries` (0 too) and any number of
calls (`CInv` is the four invariants of the run, `TypeOK` and `ThreadInv`), and from
it `CacheMapMatchesList`, `CacheEvictsOldest`,
`CacheNoLostWaiter` and `CacheReturnsWhatWasAsked`. The strengthening is
`ThreadInv`: a thread in `f()` holds a pending promise that no other thread in
`f()` holds. Without it `PendingHasLoader` is not preserved when another thread
sets its own promise. `CallKeepsTypes` and `CallKeepsOwners` are shared by hit
and miss; `ToFrontIs` and `PushFront` say what splice and push_front do to the
list, element by element.

### Split files

`FileCompoundProofs` proves `FileCompoundInv: Spec => []FInv` for any files and
parts that are not empty, any number of them and any page size, and from it
`ReadsAreExact` and `DirectAccessIsExact`. `ReadExact` alone is not inductive:
`MapInv` says that the map holds the parts opened so far, in order and without
a gap, `RangeInv` that a reader lies in the archive and a request in its reader,
and `LoopInv` what holds between two rounds of the loop of `read`: the bytes
delivered are the beginning of the range, and the current part is where the
rest begins. The step from one round to the next needs that `equal_range` of a
range finds exactly the parts that share a byte with it; the lemmas on
`LowerBound` and `UpperBound` say that, from `less` and the ranges without gaps.
That the loop ends exactly when nothing is left (the assertion after it) is part
of `LoopInv`.

### Clusters and streams

`ClusterReaderProofs` proves `StreamInv` (`WriterInv`, and `ReaderInv` and `VerdictInv`
for clusters with `TableFits`) invariant for any clusters, sizes and number of threads and calls, and whatever the libraries
take and deliver in a call, and from it

- `WriterComplete`: `Spec => []OutputComplete`;
- `ReadBack`: `Spec => []BlobExact`.

What is in a stream at any time is described by position and not by a fold:
`PartOf(s, c, a)` says that s is what stream c holds from place a on, and lemmas say
how it behaves under appending and cutting. `WriterInv`: what has been
given away is the beginning of the content (`GivenOk`); the output
buffer (`BufferOk`) and what the library holds (`StepOk`, and `FinishOk` once
`get_data` was called) are two adjacent parts of the encoded stream that end where
the input that is left begins. Neither alone is preserved, because each call
moves units from one to the other and a `BUF_ERROR` copies the first part to a
larger buffer. `FinishOk` also keeps the one case where zstd adds an empty frame: a
frame that ends in the call that fills the buffer. `ReaderInv`: the next unit of
the stream is the one where the next blob without a reader begins (`StreamAt`), or
what is in the caller's buffer is the beginning of that blob (`ReadingAt`), where
for a decoder the chunk, what it holds and the position in the file must fit
together (`DecoderAt`); the offsets are those of the writer (`OffsetTable`), and
only the holder of the mutex reads.

`BlobExact` has one hypothesis, `TableFits`: the table of offsets alone is shorter
than 2^32 bytes, that is, fewer than 2^30 blobs. `addContent` does not test that
either, but the Creator closes a cluster when its size, in which the table counts,
reaches the configured one (`creator.cpp:508`). For all such clusters `VerdictInv`
says which are opened: those whose offsets fit (`OffsetsFit`) and no others. Why the
reader never takes a truncated table for a right one: up to the first offset
that does not fit they are stored as they are, and the blob before that one is no
larger than the largest offset, or the cluster would be extended; so what is
left of it after the cast is smaller than the offset before it, and the assertion
sees that (`TruncatedDescends`).

`BlobOffset` and `FlattenSeq` are recursive
functions; `RecursionExists` and induction over sets of numbers (`FromOneOn`)
give what is used of them: the sum of the sizes grows with the blobs, and a unit
of the content is the one of the offset or blob that covers its place.

### Archive

`ArchiveProofs` proves an invariant `ArchiveInv` for any archives with sorted
dirents, in either scheme, any queries and any number of threads, and from it
`RoundTrip` (`PathRoundTrip`), `PathRange` (`PathRangeExact`), `TitleLookup`
(`ListedTitlesExact`, which speaks of the listed entries, and of all of them but
equal titles at the ends of a range), `ClusterOrder` (`EachEntryOnce`) and `ItemsOfChains`, the safety
half of `RedirectsEnd`: `getItem` returns the end of the chain of redirects if that
is at most `Watchdog` away, and throws otherwise.

The order of strings is shown to be total, and the strings that begin with a prefix
to be those from the prefix up to its successor (`PrefixRange`); with a
table in that order the two lookups of `findByPath` enclose the entries with
the prefix, also when the path is cut at the namespace. That an entry's own path
finds it although `getEntryByPath` tries several readings of a path is `OwnPath`.
The bisection by titles is a recursive function on ranges whose equations are
shown to have a solution (`BisectExists`); its answer is right in listings that
`checkTitleIndex` accepts, which compares neighbours only (`AdjacentSorted`). The
list by clusters is the one `SortList` makes: ranks are a bijection, so
each pair has one place. `ArchiveInv` says of each thread that what it holds
answers its call (`AnswersInv`), that one following redirects is on the chain of
the entry it asked, and that the list by clusters is complete up to the entry its
maker has reached, and sorted once the flag is set (`ListInv`).

### Model-checked only

Liveness: `CallsReturn`, `ClustersGetWritten`, `FindsReturn`, `FeedsReturn`,
`RedirectsEnd`, and the fairness condition of `ArchiveWriter`. The prover does
not do fairness and `ENABLED`. Every invariant and every action property that a
passing run checks is also proved. `StreamInv`, which quantifies over all streams,
and `ArchiveInv` are stated with the proofs and are not part of a run; the
properties that follow from them are in the runs `stream` and `archive`.

## 5. Not modelled

I/O errors and exceptions thrown by content providers, two Creators in one process
(they share the static counters), a Creator with no workers, damaged archives
(beyond unsorted tables and listings), the inside of Xapian, the codecs and the
file system. Of the reader: search, whose state is Xapian's; the iterator object
of `archive.h`, whose range is in `Archive`; getters of single fields; the
integrity checks of pointers, MIME indexes and the checksum, which look at one
number after the other. The template parser and the HTML parser hold no state
of an archive. Most of the repository's lines are vendored libraries under
`subprojects/`, tests and data, which are no part of the library's own logic.

## 6. Plan

1. Writer: I/O failures, exceptions in the middle of `finishZimCreation`, two
   Creators at once.
2. Reader: opening a damaged archive in `FileImpl`, and a compressed cluster whose
   stream is cut short.
