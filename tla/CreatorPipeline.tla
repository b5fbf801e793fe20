--------------------------- MODULE CreatorPipeline ---------------------------
(***************************************************************************)
(* The threads of zim::writer::Creator.                                    *)
(*                                                                         *)
(* The thread that calls the API (the "main" thread) puts the content of   *)
(* every entry into one of two open clusters.  A full cluster gets its     *)
(* number, goes to the worker threads through taskList (they compress it)  *)
(* and to the single writer thread through clusterToWrite (it appends it   *)
(* to the file once a worker has closed it).  The workers also run the     *)
(* full text indexing tasks.  finishZimCreation drains and stops all of    *)
(* them, then writes the tables of the archive and renames the file.       *)
(*                                                                         *)
(* Pointers to clusters are positions in the sequence clusters (the heap). *)
(* An item is added at most once; what the directory does with two items   *)
(* of the same path is not the business of this module.                    *)
(***************************************************************************)
EXTENDS Integers, Sequences, FiniteSets

CONSTANTS
  Items,          \* what the caller may add, one call each
  Metadata,       \* the items added by addMetadata (never indexed)
  Compressible,   \* the items that go to the compressed cluster
  HasIndexData,   \* the items whose IndexData says hasIndexData()
  ItemSize,       \* size of the content of each item and of each handler
  Workers,        \* the m_nbWorkers threads that run taskRunner
  WithIndex,      \* configIndexing: is there a FullTextXapianHandler?
  Compression,    \* is the archive's compression one that compresses?
  MinChunk,       \* minChunkSize * 1024
  MaxQueueSize,   \* MAX_QUEUE_SIZE
  Uint32Max,      \* UINT32_MAX, scaled down
  ZipLen          \* length of a compressed cluster; only its sign matters

\* The DirentHandlers, each of which contributes one blob, in their order.
Handlers == IF WithIndex
            THEN <<"titleIndex", "fulltextIndex", "listingV0", "listingV1">>
            ELSE <<"titleIndex", "listingV0", "listingV1">>

HandlerNames == {"titleIndex", "fulltextIndex", "listingV0", "listingV1"}

Blobs == Items \cup HandlerNames

ASSUME ConstantsAssumption ==
  /\ Metadata \subseteq Items
  /\ Compressible \subseteq Items
  /\ HasIndexData \subseteq Items
  /\ Items \cap HandlerNames = {}
  /\ ItemSize \in [Blobs -> Nat]
  /\ WithIndex \in BOOLEAN
  /\ Compression \in BOOLEAN
  /\ MinChunk \in Nat
  /\ MaxQueueSize \in Nat
  /\ Uint32Max \in Nat
  /\ ZipLen \in Nat \ {0}
  /\ IsFiniteSet(Workers)

VARIABLES
  mainPc,        \* where the main thread is
  call,          \* the addItemData / pushToQueue it is in, see Calls
  handler,       \* position in m_direntHandlers of finishZimCreation's loop
  poisons,       \* null tasks pushed so far
  added,         \* items added by the caller
  clusters,      \* the heap of writer::Cluster objects
  compCluster, uncompCluster,   \* the two open clusters
  clustersList,  \* closed clusters, by cluster number
  place,         \* Dirent::cluster and Dirent::info.d.blobNumber of each blob
  isExtended,    \* CreatorData::isExtended
  titleListBlobOffset,  \* CreatorData::m_titleListBlobOffset
  taskList,      \* Queue<Task*>
  clusterToWrite,\* Queue<Cluster*>
  liveIndex,     \* IndexTask objects alive; IndexTask::waiting_task counts them
  liveCluster,   \* ClusterTask objects alive; ClusterTask::waiting_task
  workerPc, workerTask,         \* the worker threads
  writerPc, writerCluster,      \* the writer thread
  db,            \* the full text Xapian database
  chunks,        \* clusters in the file (still under its temporary name)
  fileEnd,       \* the position at which the next one goes
  tables,        \* directory entries and cluster pointers in the file
  header,        \* the Fileheader object of Creator::write
  checksum,      \* are the header and the checksum in the file?
  zimName        \* does the file exist under its final name?

mainVars   == <<mainPc, call, handler, poisons, added>>
dataVars   == <<compCluster, uncompCluster, clustersList, place, isExtended,
                titleListBlobOffset>>
workerVars == <<workerPc, workerTask>>
writerVars == <<writerPc, writerCluster>>
queueVars  == <<taskList, clusterToWrite>>
liveVars   == <<liveIndex, liveCluster>>
threadVars == <<workerVars, writerVars>>
fileVars   == <<chunks, fileEnd, tables, header, checksum>>
outVars    == <<db, fileVars, zimName>>

\* What a step of main that only moves its program counter leaves alone.
mainOnly == <<call, handler, poisons, added, clusters, dataVars, queueVars,
              liveVars, threadVars, outVars>>

vars == <<mainPc, call, handler, poisons, added, clusters, compCluster,
          uncompCluster, clustersList, place, isExtended, titleListBlobOffset,
          taskList, clusterToWrite, liveIndex, liveCluster, workerPc,
          workerTask, writerPc, writerCluster, db, chunks, fileEnd,
          tables, header, checksum, zimName>>

-----------------------------------------------------------------------------
(* Objects *)

NullPtr == 0

\* Cluster::Cluster
NewCluster(c) ==
  [compressed  |-> c,          \* getCompression() is neither None nor Default
   content     |-> <<>>,       \* m_providers, one element per blob
   blobOffsets |-> <<0>>,
   size        |-> 0,          \* _size
   count       |-> 0,          \* m_count
   extended    |-> FALSE,
   zip         |-> <<>>,       \* compressed_data
   closed      |-> FALSE,
   index       |-> 0,
   offset      |-> 0]

ClusterType ==
  [compressed : BOOLEAN, content : Seq(Blobs), blobOffsets : Seq(Nat),
   size : Nat, count : Nat, extended : BOOLEAN, zip : Seq(Blobs),
   closed : BOOLEAN, index : Nat, offset : Nat]

ClusterTask(p) == [kind |-> "cluster", of |-> p]
IndexTask(i)   == [kind |-> "index", of |-> i]
NullTask       == [kind |-> "null", of |-> NullPtr]

TaskType == [kind : {"cluster"}, of : Nat] \cup [kind : {"index"}, of : Items]
            \cup {NullTask}

\* Width of one offset in the table at the head of a cluster.
OffsetWidth(ext) == IF ext THEN 8 ELSE 4

\* Cluster::size
ClusterSize(c) == Len(c.blobOffsets) * OffsetWidth(c.extended) + c.size

\* Cluster::addContent
AddContent(c, b) ==
  LET s == ItemSize[b]
  IN  [c EXCEPT !.content     = Append(@, b),
                !.size        = @ + s,
                !.blobOffsets = Append(@, c.size + s),
                !.count       = @ + 1,
                !.extended    = @ \/ s > Uint32Max]

\* Cluster::close up to the store to `closed`: compress and clear_raw_data.
Compressed(c) == IF c.compressed
                 THEN [c EXCEPT !.zip = c.content, !.content = <<>>,
                                !.blobOffsets = <<>>]
                 ELSE c

\* Mutant: the byte of the compression flag is forgotten.
DataOffsetNoFlag(c) == (c.count + 1) * OffsetWidth(c.extended)

\* Cluster::getDataOffset
DataOffset(c) == 1 + (c.count + 1) * OffsetWidth(c.extended)

\* Cluster::write: what ends up in the file, and how long it is.
ClusterChunk(c) ==
  [at       |-> fileEnd,
   extended |-> c.extended,
   zipped   |-> c.compressed,
   offsets  |-> IF c.compressed THEN <<>> ELSE c.blobOffsets,
   blobs    |-> IF c.compressed THEN c.zip ELSE c.content]

ClusterLength(c) ==
  1 + IF c.compressed THEN ZipLen
      ELSE Len(c.blobOffsets) * OffsetWidth(c.extended) + c.size

\* Cluster::clear_data
Cleared(c) == [c EXCEPT !.content = <<>>, !.blobOffsets = <<>>, !.zip = <<>>]

ChunkType == [at : Nat, extended : BOOLEAN, zipped : BOOLEAN,
              offsets : Seq(Nat), blobs : Seq(Blobs)]

NoHeader == [titleIdxPos |-> 0, clusterCount |-> 0, extended |-> FALSE]

ClusterBaseOffset == 1024

-----------------------------------------------------------------------------
(* The main thread *)

OpenCluster(c) == IF c THEN compCluster ELSE uncompCluster

\* What the main thread is in the middle of:
\*   blob, comp   arguments of addItemData
\*   closing      the cluster closeCluster is working on, else NullPtr
\*   push         the element pushToQueue was given
\*   ret          where main goes once closeCluster returns
NoCall == [blob |-> "listingV0", comp |-> FALSE, closing |-> NullPtr,
           push |-> NullTask, ret |-> "api"]

\* Creator::addItem / addMetadata, called when no other call is under way.
AddItem(i) ==
  /\ mainPc = "api"
  /\ i \in Items \ added
  /\ added' = added \cup {i}
  /\ call' = [NoCall EXCEPT !.blob = i, !.comp = i \in Compressible]
  /\ mainPc' = "addItemData"
  /\ UNCHANGED <<handler, poisons, clusters, dataVars, queueVars, liveVars,
                 threadVars, outVars>>

\* CreatorData::closeCluster up to the push: the cluster gets its number, the
\* task is constructed (and counted) before it is visible to the workers.
CloseCluster(c, ret) ==
  LET p == OpenCluster(c)
  IN  /\ clusters' = [clusters EXCEPT ![p].index = Len(clustersList)]
      /\ clustersList' = Append(clustersList, p)
      /\ liveCluster' = liveCluster \cup {p}
      /\ call' = [call EXCEPT !.closing = p, !.push = ClusterTask(p),
                              !.comp = c, !.ret = ret]
      /\ mainPc' = "taskWait"

\* The test of addItemData: would this blob make the cluster too large?
TooLarge(p, b) ==
  /\ clusters[p].count > 0
  /\ ClusterSize(clusters[p]) + ItemSize[b] >= MinChunk

\* CreatorData::addItemData, first half.
AddItemData ==
  /\ mainPc = "addItemData"
  /\ \/ /\ TooLarge(OpenCluster(call.comp), call.blob)
        /\ CloseCluster(call.comp, "addContent")
     \/ /\ ~TooLarge(OpenCluster(call.comp), call.blob)
        /\ mainPc' = "addContent"
        /\ UNCHANGED <<call, clusters, clustersList, liveCluster>>
  /\ UNCHANGED <<handler, poisons, added, compCluster, uncompCluster, place,
                 isExtended, titleListBlobOffset, queueVars, liveIndex,
                 threadVars, outVars>>

\* Mutant: addContent before setCluster.
BlobNumberAfter(p) == clusters[p].count + 1

\* Dirent::setCluster: the blob number is the count before addContent.
BlobNumber(p) == clusters[p].count

\* CreatorData::addItemData, second half, and what its callers do next:
\* addItem passes the item to the handlers, the loop of finishZimCreation
\* notes where the title listing starts and goes to the next handler.
AddItemContent ==
  LET p == OpenCluster(call.comp)
      c == AddContent(clusters[p], call.blob)
      b == call.blob
  IN  /\ mainPc = "addContent"
      /\ place' = [place EXCEPT ![b] = [cluster |-> p, blob |-> BlobNumber(p)]]
      /\ clusters' = [clusters EXCEPT ![p] = c]
      /\ IF b \in Items
         THEN /\ mainPc' = IF WithIndex /\ b \notin Metadata THEN "handle" ELSE "api"
              /\ UNCHANGED <<handler, titleListBlobOffset>>
         ELSE /\ mainPc' = "stopHandlers"
              /\ handler' = handler + 1
              /\ titleListBlobOffset' =
                   IF b = "listingV0" THEN c.blobOffsets[place'[b].blob + 1]
                                      ELSE titleListBlobOffset
      /\ UNCHANGED <<call, poisons, added, compCluster, uncompCluster,
                     clustersList, isExtended, queueVars, liveVars,
                     threadVars, outVars>>

\* FullTextXapianHandler::handle: construct the task, then push it.
HandleItem ==
  /\ mainPc = "handle"
  /\ liveIndex' = liveIndex \cup {call.blob}
  /\ call' = [call EXCEPT !.push = IndexTask(call.blob)]
  /\ mainPc' = "taskWait"
  /\ UNCHANGED <<handler, poisons, added, clusters, dataVars, queueVars,
                 liveCluster, threadVars, outVars>>

\* Mutant: one element too many.
HasRoomForTwo(q) == Len(q) <= MaxQueueSize + 1

\* The test of Queue::pushToQueue, made with the lock held ...
HasRoom(q) == Len(q) <= MaxQueueSize

\* ... by the polling loop, on taskList ...
TaskWait ==
  /\ mainPc = "taskWait"
  /\ HasRoom(taskList)
  /\ mainPc' = "taskPush"
  /\ UNCHANGED mainOnly

\* ... and, with the lock taken again, the push.
TaskPush ==
  /\ mainPc = "taskPush"
  /\ taskList' = Append(taskList, call.push)
  /\ \/ /\ call.push.kind = "cluster"
        /\ mainPc' = "clusterWait"
        /\ UNCHANGED poisons
     \/ /\ call.push.kind = "index"
        /\ mainPc' = "api"
        /\ UNCHANGED poisons
     \/ /\ call.push.kind = "null"
        /\ poisons' = poisons + 1
        /\ mainPc' = "quitWorkers"
  /\ UNCHANGED <<call, handler, added, clusters, dataVars, clusterToWrite,
                 liveVars, threadVars, outVars>>

\* The same two steps on clusterToWrite.
ClusterWait ==
  /\ mainPc = "clusterWait"
  /\ HasRoom(clusterToWrite)
  /\ mainPc' = "clusterPush"
  /\ UNCHANGED mainOnly

ClusterPush ==
  /\ mainPc = "clusterPush"
  /\ clusterToWrite' = Append(clusterToWrite, call.closing)
  /\ mainPc' = IF call.closing = NullPtr THEN "joinWriter" ELSE "reopen"
  /\ UNCHANGED <<call, handler, poisons, added, clusters, dataVars, taskList,
                 liveVars, threadVars, outVars>>

\* new Cluster of the same kind as the closed one.
FreshCluster(c) == Append(clusters, NewCluster(c /\ Compression))

\* Mutant: only the last closed cluster counts.
ExtendedIsLast(p) == clusters[p].extended

\* isExtended |= cluster->is_extended()
ExtendedSoFar(p) == isExtended \/ clusters[p].extended

\* The end of closeCluster: a fresh cluster replaces the closed one.
Reopen ==
  /\ mainPc = "reopen"
  /\ isExtended' = ExtendedSoFar(call.closing)
  /\ clusters' = FreshCluster(call.comp)
  /\ \/ /\ call.comp
        /\ compCluster' = Len(clusters) + 1
        /\ UNCHANGED uncompCluster
     \/ /\ ~call.comp
        /\ uncompCluster' = Len(clusters) + 1
        /\ UNCHANGED compCluster
  /\ mainPc' = call.ret
  /\ call' = [call EXCEPT !.closing = NullPtr, !.push = NullTask]
  /\ UNCHANGED <<handler, poisons, added, clustersList, place,
                 titleListBlobOffset, queueVars, liveVars, threadVars,
                 outVars>>

-----------------------------------------------------------------------------
(* Creator::finishZimCreation *)

FinishZimCreation ==
  /\ mainPc = "api"
  /\ mainPc' = "stopHandlers"
  /\ handler' = 1
  /\ UNCHANGED <<call, poisons, added, clusters, dataVars, queueVars,
                 liveVars, threadVars, outVars>>

\* Mutant: the queue is looked at, not the tasks.
NoIndexTaskQueued == \A k \in 1 .. Len(taskList) : taskList[k].kind # "index"

\* IndexTask::waiting_task is 0
IndexingDone == liveIndex = {}

\* handler->stop(); the full text one waits for the indexing tasks, then
\* closes its database, which its content provider reads back.
StopHandler ==
  /\ mainPc = "stopHandlers"
  /\ handler <= Len(Handlers)
  /\ \/ /\ Handlers[handler] = "fulltextIndex"
        /\ IndexingDone
        /\ db' = [db EXCEPT !.open = FALSE]
     \/ /\ Handlers[handler] # "fulltextIndex"
        /\ UNCHANGED db
  /\ call' = [NoCall EXCEPT !.blob = Handlers[handler]]
  /\ mainPc' = "addItemData"
  /\ UNCHANGED <<handler, poisons, added, clusters, dataVars, queueVars,
                 liveVars, threadVars, fileVars, zimName>>

\* The two `if (cluster->count()) closeCluster` after the loop.
CloseLastCluster(c, pc, next) ==
  /\ mainPc = pc
  /\ \/ /\ clusters[OpenCluster(c)].count > 0
        /\ CloseCluster(c, next)
     \/ /\ clusters[OpenCluster(c)].count = 0
        /\ mainPc' = next
        /\ UNCHANGED <<call, clusters, clustersList, liveCluster>>
  /\ UNCHANGED <<handler, poisons, added, compCluster, uncompCluster, place,
                 isExtended, titleListBlobOffset, queueVars, liveIndex,
                 threadVars, outVars>>

HandlersStopped ==
  /\ mainPc = "stopHandlers"
  /\ handler > Len(Handlers)
  /\ mainPc' = "closeComp"
  /\ UNCHANGED mainOnly

CloseLastComp   == CloseLastCluster(TRUE, "closeComp", "closeUncomp")
CloseLastUncomp == CloseLastCluster(FALSE, "closeUncomp", "waitTasks")

\* Poll ClusterTask::waiting_task.
WaitClusterTasks ==
  /\ mainPc = "waitTasks"
  /\ liveCluster = {}
  /\ mainPc' = "quitWorkers"
  /\ UNCHANGED mainOnly

\* m_nbWorkers
NbWorkers == Cardinality(Workers)

\* One null task per worker.
QuitWorkers ==
  /\ mainPc = "quitWorkers"
  /\ IF poisons < NbWorkers
     THEN /\ call' = [call EXCEPT !.push = NullTask]
          /\ mainPc' = "taskWait"
     ELSE /\ mainPc' = "joinWorkers"
          /\ UNCHANGED call
  /\ UNCHANGED <<handler, poisons, added, clusters, dataVars, queueVars,
                 liveVars, threadVars, outVars>>

JoinWorkers ==
  /\ mainPc = "joinWorkers"
  /\ \A w \in Workers : workerPc[w] = "exited"
  /\ mainPc' = "clusterWait"
  /\ UNCHANGED mainOnly

\* Mutant: the writer thread is not joined.
DoNotJoinWriter ==
  /\ mainPc = "joinWriter"
  /\ mainPc' = "write"
  /\ UNCHANGED mainOnly

JoinWriter ==
  /\ mainPc = "joinWriter"
  /\ writerPc = "exited"
  /\ mainPc' = "write"
  /\ UNCHANGED mainOnly

\* Mutant: the entries of the handlers are left out.
EntriesOfCaller == added

\* Blobs that have a directory entry.
Entries == added \cup {Handlers[h] : h \in 1 .. Len(Handlers)}

\* Creator::fillHeader
FillHeader ==
  LET t == clusters[place["listingV0"].cluster]
  IN  [titleIdxPos  |-> t.offset + DataOffset(t) + titleListBlobOffset,
       clusterCount |-> Len(clustersList),
       extended     |-> isExtended]

\* Creator::write up to the cluster pointer list.  Dirent::write stores the
\* number the cluster got when it was closed.
WrittenTables ==
  [dirents    |-> [b \in Entries |-> [cluster |-> clusters[place[b].cluster].index,
                                     blob |-> place[b].blob]],
   clusterPtr |-> [k \in 1 .. Len(clustersList) |-> clusters[clustersList[k]].offset]]

\* fillHeader comes first.
WriteTables ==
  /\ mainPc = "write"
  /\ header' = FillHeader
  /\ tables' = WrittenTables
  /\ mainPc' = "header"
  /\ UNCHANGED <<call, handler, poisons, added, clusters, dataVars, queueVars,
                 liveVars, threadVars, db, chunks, fileEnd, checksum, zimName>>

\* The rest of Creator::write: the header and the checksum of the whole file.
WriteHeader ==
  /\ mainPc = "header"
  /\ checksum' = TRUE
  /\ mainPc' = "rename"
  /\ UNCHANGED <<call, handler, poisons, added, clusters, dataVars, queueVars,
                 liveVars, threadVars, db, chunks, fileEnd, tables, header,
                 zimName>>

Rename ==
  /\ mainPc = "rename"
  /\ zimName' = TRUE
  /\ mainPc' = "done"
  /\ UNCHANGED <<call, handler, poisons, added, clusters, dataVars, queueVars,
                 liveVars, threadVars, db, fileVars>>

Main ==
  \/ \E i \in Items : AddItem(i)
  \/ FinishZimCreation
  \/ AddItemData \/ AddItemContent \/ HandleItem
  \/ TaskWait \/ TaskPush \/ ClusterWait \/ ClusterPush \/ Reopen
  \/ StopHandler \/ HandlersStopped \/ CloseLastComp \/ CloseLastUncomp
  \/ WaitClusterTasks \/ QuitWorkers \/ JoinWorkers \/ JoinWriter
  \/ WriteTables \/ WriteHeader \/ Rename

-----------------------------------------------------------------------------
(* taskRunner, the worker threads *)

workerUnchanged == <<mainVars, dataVars, clusterToWrite, writerVars, fileVars,
                     zimName>>

\* Mutant: the task stays in the queue.
PeekTask(w) ==
  /\ workerPc[w] = "pop"
  /\ taskList # <<>>
  /\ workerTask' = [workerTask EXCEPT ![w] = Head(taskList)]
  /\ workerPc' = [workerPc EXCEPT
                    ![w] = IF Head(taskList) = NullTask THEN "exited" ELSE "run"]
  /\ UNCHANGED <<workerUnchanged, taskList, clusters, liveVars, db>>

\* popFromQueue; a null task ends the thread.
PopTask(w) ==
  /\ workerPc[w] = "pop"
  /\ taskList # <<>>
  /\ taskList' = Tail(taskList)
  /\ workerTask' = [workerTask EXCEPT ![w] = Head(taskList)]
  /\ workerPc' = [workerPc EXCEPT
                    ![w] = IF Head(taskList) = NullTask THEN "exited" ELSE "run"]
  /\ UNCHANGED <<workerUnchanged, clusters, liveVars, db>>

\* ClusterTask::run -> Cluster::close, before the store to `closed`.
RunClusterTask(w) ==
  /\ workerPc[w] = "run"
  /\ workerTask[w].kind = "cluster"
  /\ clusters' = [clusters EXCEPT ![workerTask[w].of] = Compressed(@)]
  /\ workerPc' = [workerPc EXCEPT ![w] = "setClosed"]
  /\ UNCHANGED <<workerUnchanged, workerTask, taskList, liveVars, db>>

\* Mutant: a cluster that is not compressed is not marked.
SetClosedIfCompressed(w) ==
  /\ workerPc[w] = "setClosed"
  /\ LET p == workerTask[w].of
     IN  clusters' = [clusters EXCEPT ![p].closed = clusters[p].compressed]
  /\ workerPc' = [workerPc EXCEPT ![w] = "delete"]
  /\ UNCHANGED <<workerUnchanged, workerTask, taskList, liveVars, db>>

\* closed = true, which the writer thread polls.
SetClosed(w) ==
  /\ workerPc[w] = "setClosed"
  /\ clusters' = [clusters EXCEPT ![workerTask[w].of].closed = TRUE]
  /\ workerPc' = [workerPc EXCEPT ![w] = "delete"]
  /\ UNCHANGED <<workerUnchanged, workerTask, taskList, liveVars, db>>

\* IndexTask::run: an item without index data is left out, any other becomes
\* a document, added to the database under s_dbaccessLock.
RunIndexTask(w) ==
  /\ workerPc[w] = "run"
  /\ workerTask[w].kind = "index"
  /\ workerPc' = [workerPc EXCEPT ![w] = IF workerTask[w].of \in HasIndexData
                                         THEN "addDocument" ELSE "delete"]
  /\ UNCHANGED <<workerUnchanged, workerTask, clusters, taskList, liveVars,
                 db>>

AddDocument(w) ==
  /\ workerPc[w] = "addDocument"
  /\ db' = [db EXCEPT !.documents = @ \cup {workerTask[w].of}]
  /\ workerPc' = [workerPc EXCEPT ![w] = "delete"]
  /\ UNCHANGED <<workerUnchanged, workerTask, clusters, taskList, liveVars>>

\* delete task: the destructor decrements waiting_task.
DeleteTask(w) ==
  /\ workerPc[w] = "delete"
  /\ LET t == workerTask[w]
     IN  /\ liveCluster' = IF t.kind = "cluster" THEN liveCluster \ {t.of}
                                                 ELSE liveCluster
         /\ liveIndex' = IF t.kind = "index" THEN liveIndex \ {t.of}
                                             ELSE liveIndex
  /\ workerPc' = [workerPc EXCEPT ![w] = "pop"]
  /\ UNCHANGED <<workerUnchanged, workerTask, clusters, taskList, db>>

taskRunner(w) == \/ PopTask(w) \/ RunClusterTask(w) \/ SetClosed(w)
                 \/ RunIndexTask(w) \/ AddDocument(w) \/ DeleteTask(w)

-----------------------------------------------------------------------------
(* clusterWriter, the writer thread *)

writerUnchanged == <<mainVars, dataVars, taskList, liveVars,
                     workerVars, db, zimName>>

\* getHead leaves the element in the queue; null ends the thread.
GetHead ==
  /\ writerPc = "getHead"
  /\ clusterToWrite # <<>>
  /\ writerCluster' = Head(clusterToWrite)
  /\ writerPc' = IF Head(clusterToWrite) = NullPtr THEN "exited" ELSE "isClosed"
  /\ UNCHANGED <<writerUnchanged, clusters, clusterToWrite, fileVars>>

\* Mutant: `closed` is not looked at.
AssumeClosed ==
  /\ writerPc = "isClosed"
  /\ writerPc' = "popCluster"
  /\ UNCHANGED <<writerUnchanged, writerCluster, clusters, clusterToWrite,
                 fileVars>>

IsClosed ==
  /\ writerPc = "isClosed"
  /\ writerPc' = IF clusters[writerCluster].closed THEN "popCluster" ELSE "getHead"
  /\ UNCHANGED <<writerUnchanged, writerCluster, clusters, clusterToWrite,
                 fileVars>>

\* popFromQueue overwrites the local pointer.
PopCluster ==
  /\ writerPc = "popCluster"
  /\ writerCluster' = Head(clusterToWrite)
  /\ clusterToWrite' = Tail(clusterToWrite)
  /\ writerPc' = "writeCluster"
  /\ UNCHANGED <<writerUnchanged, clusters, fileVars>>

\* setOffset with the current position of the file, then Cluster::write.
WriteCluster ==
  LET c == clusters[writerCluster]
  IN  /\ writerPc = "writeCluster"
      /\ clusters' = [clusters EXCEPT ![writerCluster].offset = fileEnd]
      /\ chunks' = Append(chunks, ClusterChunk(c))
      /\ fileEnd' = fileEnd + ClusterLength(c)
      /\ writerPc' = "clearData"
      /\ UNCHANGED <<writerUnchanged, writerCluster, clusterToWrite, tables,
                     header, checksum>>

ClearData ==
  /\ writerPc = "clearData"
  /\ clusters' = [clusters EXCEPT ![writerCluster] = Cleared(@)]
  /\ writerPc' = "getHead"
  /\ UNCHANGED <<writerUnchanged, writerCluster, clusterToWrite, fileVars>>

clusterWriter == GetHead \/ IsClosed \/ PopCluster \/ WriteCluster \/ ClearData

-----------------------------------------------------------------------------
(* Creator::startZimCreation has just returned. *)
Init ==
  /\ mainPc = "api"
  /\ call = NoCall
  /\ handler = 0
  /\ poisons = 0
  /\ added = {}
  /\ clusters = <<NewCluster(Compression), NewCluster(FALSE)>>
  /\ compCluster = 1
  /\ uncompCluster = 2
  /\ clustersList = <<>>
  /\ place = [b \in Blobs |-> [cluster |-> NullPtr, blob |-> 0]]
  /\ isExtended = FALSE
  /\ titleListBlobOffset = 0
  /\ taskList = <<>>
  /\ clusterToWrite = <<>>
  /\ liveIndex = {}
  /\ liveCluster = {}
  /\ workerPc = [w \in Workers |-> "pop"]
  /\ workerTask = [w \in Workers |-> NullTask]
  /\ writerPc = "getHead"
  /\ writerCluster = NullPtr
  /\ db = [open |-> TRUE, documents |-> {}]
  /\ chunks = <<>>
  /\ fileEnd = ClusterBaseOffset
  /\ tables = [dirents |-> <<>>, clusterPtr |-> <<>>]
  /\ header = NoHeader
  /\ checksum = FALSE
  /\ zimName = FALSE

\* Every thread has ended: nothing is left to happen.
Terminated == mainPc = "done" /\ UNCHANGED vars

Next == Main \/ (\E w \in Workers : taskRunner(w)) \/ clusterWriter
        \/ Terminated

\* The caller may stop calling; everything else is a thread that the
\* operating system keeps scheduling.
MainStep == Main /\ mainPc # "api"

Spec == Init /\ [][Next]_vars

FairSpec == /\ Spec
            /\ WF_vars(MainStep)
            /\ \A w \in Workers : WF_vars(taskRunner(w))
            /\ WF_vars(clusterWriter)

-----------------------------------------------------------------------------
(* Properties *)

MainPcs == {"api", "addItemData", "addContent", "handle", "taskWait",
            "taskPush", "clusterWait", "clusterPush", "reopen",
            "stopHandlers", "closeComp", "closeUncomp", "waitTasks",
            "quitWorkers", "joinWorkers", "joinWriter", "write", "header",
            "rename", "done"}

CallType == [blob : Blobs, comp : BOOLEAN, closing : Nat, push : TaskType,
             ret : {"api", "addContent", "closeUncomp", "waitTasks"}]

\* Every variable of the three kinds of threads keeps its type.
TypeOK ==
  /\ mainPc \in MainPcs
  /\ call \in CallType
  /\ handler \in Nat
  /\ poisons \in Nat
  /\ added \subseteq Items
  /\ clusters \in Seq(ClusterType)
  /\ compCluster \in 1 .. Len(clusters)
  /\ uncompCluster \in 1 .. Len(clusters)
  /\ clustersList \in Seq(1 .. Len(clusters))
  /\ place \in [Blobs -> [cluster : 0 .. Len(clusters), blob : Nat]]
  /\ isExtended \in BOOLEAN
  /\ titleListBlobOffset \in Nat
  /\ taskList \in Seq(TaskType)
  /\ clusterToWrite \in Seq(0 .. Len(clusters))
  /\ liveIndex \subseteq Items
  /\ liveCluster \subseteq Nat
  /\ workerPc \in [Workers -> {"pop", "run", "setClosed", "addDocument",
                               "delete", "exited"}]
  /\ workerTask \in [Workers -> TaskType]
  /\ writerPc \in {"getHead", "isClosed", "popCluster", "writeCluster",
                   "clearData", "exited"}
  /\ writerCluster \in 0 .. Len(clusters)
  /\ db \in [open : BOOLEAN, documents : SUBSET Items]
  /\ fileEnd \in Nat
  /\ chunks \in Seq(ChunkType)
  /\ checksum \in BOOLEAN
  /\ zimName \in BOOLEAN

\* Queue::pushToQueue tests the size and pushes under two different holds of
\* the lock; since main is the only producer a queue still never holds more
\* than one element over the size at which it starts to wait.
QueueBound == /\ Len(taskList) <= MaxQueueSize + 1
              /\ Len(clusterToWrite) <= MaxQueueSize + 1

\* The k-th cluster in the file is the one numbered k-1 by closeCluster, its
\* offset is the one the cluster pointer list will hold, and it contains each
\* blob at the position its dirent was given when main added it - whatever
\* the order in which the workers finished compressing.
WrittenWhereDirentsSay ==
  /\ Len(chunks) <= Len(clustersList)
  /\ \A k \in 1 .. Len(chunks) :
       /\ clusters[clustersList[k]].offset = chunks[k].at
       /\ clusters[clustersList[k]].index = k - 1
       /\ \A b \in Blobs : place[b].cluster = clustersList[k] =>
            /\ place[b].blob < Len(chunks[k].blobs)
            /\ chunks[k].blobs[place[b].blob + 1] = b

\* The cluster a worker compresses, and the one the writer thread has.
WorkingOn(w) == IF workerPc[w] \in {"run", "setClosed"} /\ workerTask[w].kind = "cluster"
                THEN {workerTask[w].of} ELSE {}

WriterOn == IF writerPc \in {"popCluster", "writeCluster", "clearData"}
            THEN {writerCluster} ELSE {}

\* Only one thread at a time works on a cluster: while main still adds to it
\* no task for it exists, and while a worker compresses it the writer thread
\* neither writes nor clears it.
OneOwnerPerCluster ==
  /\ \A w \in Workers :
       /\ WorkingOn(w) \cap WriterOn = {}
       /\ \A v \in Workers \ {w} : WorkingOn(w) \cap WorkingOn(v) = {}
  /\ mainPc = "addContent" =>
       /\ OpenCluster(call.comp) \notin WriterOn
       /\ \A w \in Workers : OpenCluster(call.comp) \notin WorkingOn(w)

\* FullTextXapianHandler::stop closes the Xapian database only when every item
\* passed to it has been indexed, and no worker adds a document afterwards.
IndexCompleteWhenClosed ==
  ~db.open =>
    /\ db.documents = (added \ Metadata) \cap HasIndexData
    /\ \A w \in Workers : workerPc[w] # "addDocument"

\* What a reader finds: the directory entry of b leads to a cluster number,
\* the cluster pointer list to an offset, the chunk at that offset to a blob.
ReadBlob(b) ==
  LET d  == tables.dirents[b]
      at == tables.clusterPtr[d.cluster + 1]
  IN  {chunks[k].blobs[d.blob + 1] :
         k \in {k \in 1 .. Len(chunks) : /\ chunks[k].at = at
                                       /\ d.blob < Len(chunks[k].blobs)}}

\* The file gets its final name only when it is complete: each entry reads
\* back as its own content, the header counts every cluster and the checksum
\* is there.  A crash at any point leaves either no file or a good one.
ArchiveComplete ==
  zimName =>
    /\ checksum
    /\ header.clusterCount = Len(chunks)
    /\ Entries \subseteq DOMAIN tables.dirents
    /\ \A b \in Entries : ReadBlob(b) = {b}

\* Position in the file of the first byte of a blob of an uncompressed chunk.
BytePos(b) ==
  LET k == CHOOSE k \in 1 .. Len(chunks) :
             \E n \in 1 .. Len(chunks[k].blobs) : chunks[k].blobs[n] = b
      n == CHOOSE n \in 1 .. Len(chunks[k].blobs) : chunks[k].blobs[n] = b
      c == chunks[k]
  IN  c.at + 1 + Len(c.offsets) * OffsetWidth(c.extended) + c.offsets[n]

\* fillHeader's titleIdxPos, put together from an offset main noted before the
\* cluster was closed and one the writer thread noted when it wrote it, is the
\* first byte of the title listing.
TitlePointerExact ==
  checksum => header.titleIdxPos = BytePos("listingV0")

\* The header announces the extended format iff some cluster uses it.
ExtendedAnnounced ==
  checksum =>
    (header.extended <=> \E k \in 1 .. Len(chunks) : chunks[k].extended)

\* Clusters are only ever appended to the file, and never after the tables
\* and the checksum have been written.
AppendOnly ==
  [][ /\ Len(chunks') >= Len(chunks)
      /\ \A k \in 1 .. Len(chunks) : chunks'[k] = chunks[k]
      /\ mainPc \in {"header", "rename", "done"} => chunks' = chunks
    ]_<<mainPc, chunks>>

\* Every call of the API returns: addItem is not stuck behind a full queue,
\* finishZimCreation gets all its threads to end.
CallsReturn == mainPc # "api" ~> mainPc \in {"api", "done"}

\* A cluster that has been numbered gets written even if no call follows.
ClustersGetWritten ==
  \A k \in 1 .. Cardinality(Blobs) :
    Len(clustersList) >= k ~> Len(chunks) >= k

-----------------------------------------------------------------------------
(* The abstract specification this module implements *)

publishedArchive == IF zimName THEN [b \in DOMAIN tables.dirents |-> ReadBlob(b)]
                               ELSE <<>>
publishedIndex == IF zimName /\ WithIndex THEN db.documents ELSE {}
creatorPhase == IF zimName THEN "published"
                ELSE IF handler = 0 THEN "open" ELSE "finishing"

Archive == INSTANCE ArchiveWriter
             WITH Extra    <- {Handlers[h] : h \in 1 .. Len(Handlers)},
                  Indexed  <- IF WithIndex THEN HasIndexData \ Metadata ELSE {},
                  accepted <- added,
                  phase    <- creatorPhase,
                  archive  <- publishedArchive,
                  index    <- publishedIndex

\* The pool of threads implements the sequential promise: the archive is
\* published in one step, complete, and once finishZimCreation is called it
\* is published eventually.
ImplementsArchiveWriter == Archive!Spec
=============================================================================
