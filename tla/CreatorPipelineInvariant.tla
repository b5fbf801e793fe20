---------------------- MODULE CreatorPipelineInvariant ----------------------
(***************************************************************************)
(* An inductive invariant of CreatorPipeline, in named parts.  It says     *)
(* where each cluster and each task is at any moment: a cluster is open,   *)
(* numbered and waiting for its task, compressed, closed or written; the   *)
(* writer's queue is the part of clustersList that is not yet in the file. *)
(***************************************************************************)
EXTENDS CreatorPipeline

Numbered == {clustersList[k] : k \in 1 .. Len(clustersList)}

\* States of main after which there is no more producer of tasks.
Draining == {"quitWorkers", "joinWorkers", "joinWriter", "write", "header",
             "rename", "done"}

\* States of main in which clusterToWrite ends with the null pointer.
Drained == {"joinWriter", "write", "header", "rename", "done"}

\* States of finishZimCreation outside addItemData and closeCluster.
FinishPcs == {"stopHandlers", "closeComp", "closeUncomp", "waitTasks"} \cup Draining

\* Which call of the API main is in: handler is 0 until finishZimCreation.
MainInv ==
  /\ mainPc \in {"api", "handle"} => handler = 0
  /\ mainPc \in FinishPcs => handler > 0
  /\ mainPc \in {"addItemData", "addContent"} => (call.blob \in Items <=> handler = 0)
  /\ mainPc = "handle" => call.blob \in added \ Metadata /\ WithIndex
  /\ mainPc \in {"taskWait", "taskPush"} =>
       /\ call.push.kind = "index" => handler = 0
       /\ call.push.kind = "null" => handler > 0
  /\ call.blob \in Items => call.blob \in added
  /\ mainPc \in {"clusterWait", "clusterPush"} /\ call.closing = NullPtr => handler > 0
  /\ call.closing # NullPtr =>
       \/ call.ret = "addContent" /\ (call.blob \in Items <=> handler = 0)
       \/ call.ret \in {"closeUncomp", "waitTasks"} /\ handler > 0

\* closeCluster is under way on call.closing, which is the open cluster of its
\* kind until Reopen replaces it, and the last one numbered.
ClosingInv ==
  /\ call.closing # NullPtr =>
       /\ mainPc \in {"taskWait", "taskPush", "clusterWait", "clusterPush", "reopen"}
       /\ mainPc \in {"taskWait", "taskPush"} => call.push = ClusterTask(call.closing)
       /\ call.closing = OpenCluster(call.comp)
       /\ Len(clustersList) > 0
       /\ call.closing = clustersList[Len(clustersList)]
  /\ call.closing = NullPtr =>
       /\ mainPc # "reopen"
       /\ mainPc \in {"taskWait", "taskPush"} => call.push.kind # "cluster"

\* The open clusters are not numbered, so nobody else has them.
OpenInv ==
  /\ compCluster # uncompCluster
  /\ compCluster \in Numbered => call.closing = compCluster
  /\ uncompCluster \in Numbered => call.closing = uncompCluster
  /\ \A j, k \in 1 .. Len(clustersList) :
       clustersList[j] = clustersList[k] => j = k
  /\ \A k \in 1 .. Len(clustersList) : clusters[clustersList[k]].index = k - 1

\* The task objects in the queue, in main's hands and in the workers' are all
\* different, so each one is run and deleted once.
Holding(w) == workerPc[w] \in {"run", "setClosed", "addDocument", "delete"}

TaskInv ==
  /\ \A j, k \in 1 .. Len(taskList) :
       taskList[j] = taskList[k] /\ taskList[j] # NullTask => j = k
  /\ \A w \in Workers : Holding(w) =>
       /\ workerTask[w] # NullTask
       /\ \A k \in 1 .. Len(taskList) : taskList[k] # workerTask[w]
       /\ \A v \in Workers : Holding(v) /\ workerTask[v] = workerTask[w] => v = w
  /\ mainPc \in {"taskWait", "taskPush"} /\ call.push # NullTask =>
       /\ \A k \in 1 .. Len(taskList) : taskList[k] # call.push
       /\ \A w \in Workers : Holding(w) => workerTask[w] # call.push
  /\ \A w \in Workers : workerPc[w] = "setClosed" => workerTask[w].kind = "cluster"
  /\ \A w \in Workers : workerPc[w] = "addDocument" => workerTask[w].kind = "index"

\* A task that waits to be run finds its cluster as main left it.
Unprocessed(p) == ~clusters[p].closed /\ clusters[p].zip = <<>>

TaskClusterInv ==
  /\ \A k \in 1 .. Len(taskList) : taskList[k].kind = "cluster" =>
       taskList[k].of \in Numbered /\ Unprocessed(taskList[k].of)
  /\ \A w \in Workers : workerTask[w].kind = "cluster" =>
       /\ workerTask[w].of \in Numbered
       /\ workerPc[w] = "run" => Unprocessed(workerTask[w].of)
       /\ workerPc[w] = "setClosed" => ~clusters[workerTask[w].of].closed
  /\ mainPc \in {"taskWait", "taskPush"} /\ call.push.kind = "cluster" =>
       call.push.of \in Numbered /\ Unprocessed(call.push.of)

\* clusterToWrite is the part of clustersList from the first cluster that is
\* not in the file, and not in the writer's hands, to the last one pushed.
InFlight == IF writerPc = "writeCluster" THEN 1 ELSE 0
ToPush == IF call.closing # NullPtr /\ mainPc # "reopen" THEN 1 ELSE 0
NullAtEnd == IF mainPc \in Drained THEN 1 ELSE 0

QueueInv ==
  /\ Len(chunks) + InFlight + Len(clusterToWrite) + ToPush
       = Len(clustersList) + NullAtEnd
  /\ \A k \in 1 .. Len(clusterToWrite) :
       \/ /\ clusterToWrite[k] # NullPtr
          /\ Len(chunks) + InFlight + k <= Len(clustersList)
          /\ clusterToWrite[k] = clustersList[Len(chunks) + InFlight + k]
       \/ /\ clusterToWrite[k] = NullPtr
          /\ k = Len(clusterToWrite)
          /\ mainPc \in Drained
  /\ mainPc \in Drained =>
       Len(clusterToWrite) > 0 /\ clusterToWrite[Len(clusterToWrite)] = NullPtr

\* What the writer thread holds is what its program counter says.
WriterInv ==
  /\ writerPc \in {"isClosed", "popCluster"} =>
       /\ Len(clusterToWrite) > 0
       /\ writerCluster = clusterToWrite[1]
  /\ writerPc \in {"isClosed", "popCluster", "writeCluster", "clearData"} =>
       writerCluster # NullPtr
  /\ writerPc \in {"popCluster", "writeCluster", "clearData"} =>
       clusters[writerCluster].closed
  /\ writerPc = "writeCluster" =>
       /\ Len(chunks) < Len(clustersList)
       /\ writerCluster = clustersList[Len(chunks) + 1]
  /\ writerPc = "clearData" =>
       /\ Len(chunks) > 0
       /\ writerCluster = clustersList[Len(chunks)]
  /\ writerPc = "exited" => Len(clusterToWrite) = 1 /\ clusterToWrite[1] = NullPtr
  /\ mainPc \in {"write", "header", "rename", "done"} => writerPc = "exited"

\* s holds every blob of cluster p where its dirent says.
Holds(s, p) ==
  \A b \in Blobs : place[b].cluster = p =>
    place[b].blob < Len(s) /\ s[place[b].blob + 1] = b

Payload(c) == IF c.compressed THEN c.zip ELSE c.content

InSetClosed(p) == \E w \in Workers : workerPc[w] = "setClosed" /\ workerTask[w].of = p

\* An open cluster has one offset more than it has blobs, all of them raw.
OpenContentInv ==
  \A p \in {compCluster, uncompCluster} : p \notin Numbered =>
    /\ ~clusters[p].closed
    /\ clusters[p].zip = <<>>
    /\ Len(clusters[p].content) = clusters[p].count
    /\ Len(clusters[p].blobOffsets) = clusters[p].count + 1

\* Dirents point to clusters that are open or numbered.
PlaceInv ==
  \A b \in Blobs : place[b].cluster # NullPtr =>
    place[b].cluster \in Numbered \cup {compCluster, uncompCluster}

\* The content of a cluster is raw until its task has run, then compressed.
HeldInv ==
  \A p \in Numbered \cup {compCluster, uncompCluster} :
    /\ ~clusters[p].closed /\ ~InSetClosed(p) => Holds(clusters[p].content, p)
    /\ InSetClosed(p) => Holds(Payload(clusters[p]), p)

\* A closed cluster is ready to be written until it is written.
ReadyInv ==
  \A k \in 1 .. Len(clustersList) :
    k > Len(chunks) /\ clusters[clustersList[k]].closed
      => Holds(Payload(clusters[clustersList[k]]), clustersList[k])

\* The clusters in the file.
WrittenInv ==
  \A k \in 1 .. Len(chunks) :
    /\ Holds(chunks[k].blobs, clustersList[k])
    /\ clusters[clustersList[k]].offset = chunks[k].at
    /\ clusters[clustersList[k]].closed

\* Where the content of each cluster is.
ContentInv == /\ OpenContentInv
              /\ PlaceInv
              /\ HeldInv
              /\ ReadyInv
              /\ WrittenInv

\* addItem has accepted call.blob but not yet constructed its IndexTask.
BeforeIndexTask == /\ handler = 0
                   /\ \/ mainPc \in {"addItemData", "addContent", "handle"}
                      \/ call.closing # NullPtr

\* Every item that is to be indexed is indexed or has a task that is counted.
IndexInv ==
  /\ db.documents \subseteq (added \ Metadata) \cap HasIndexData
  /\ WithIndex => \A i \in (added \ Metadata) \cap HasIndexData :
       i \in db.documents \/ i \in liveIndex \/ (i = call.blob /\ BeforeIndexTask)
  /\ BeforeIndexTask => call.blob \notin liveIndex
  /\ liveIndex \subseteq added \ Metadata
  /\ \A k \in 1 .. Len(taskList) : taskList[k].kind = "index" =>
       taskList[k].of \in liveIndex
  /\ \A w \in Workers : workerTask[w].kind = "index" /\ Holding(w) =>
       /\ workerTask[w].of \in liveIndex
       /\ workerPc[w] = "addDocument" => workerTask[w].of \in HasIndexData
       /\ workerPc[w] = "delete" /\ workerTask[w].of \in HasIndexData =>
            workerTask[w].of \in db.documents
  /\ mainPc \in {"taskWait", "taskPush"} /\ call.push.kind = "index" =>
       call.push.of \in liveIndex
  /\ ~db.open => handler > 0 /\ liveIndex = {} /\ WithIndex

\* Offsets in the file grow with the cluster number.
OffsetInv ==
  /\ \A k \in 1 .. Len(chunks) : chunks[k].at < fileEnd
  /\ \A j, k \in 1 .. Len(chunks) : j < k => chunks[j].at < chunks[k].at

\* Between the wait and the push of pushToQueue nobody else pushes.
RoomInv ==
  /\ QueueBound
  /\ mainPc = "taskPush" => Len(taskList) <= MaxQueueSize
  /\ mainPc = "clusterPush" => Len(clusterToWrite) <= MaxQueueSize

\* TypeOK and the parts above: what each step preserves.
IInv == /\ TypeOK
        /\ MainInv
        /\ ClosingInv
        /\ OpenInv
        /\ TaskInv
        /\ TaskClusterInv
        /\ QueueInv
        /\ WriterInv
        /\ ContentInv
        /\ IndexInv
        /\ OffsetInv

-----------------------------------------------------------------------------
(* A second invariant, on top of IInv: what the finished archive is made of. *)

\* The blob that addItemData was given is not in its cluster yet.
Storing == \/ mainPc \in {"addItemData", "addContent"}
           \/ call.closing # NullPtr /\ call.ret = "addContent"

\* How far finishZimCreation is: it stops the threads; it has closed the open
\* clusters, both or the compressed one; it has stored the blobs of the handlers.
Quitting == \/ mainPc \in {"taskWait", "taskPush"} /\ call.push.kind = "null"
            \/ mainPc \in {"clusterWait", "clusterPush"} /\ call.closing = NullPtr
PastUncomp == mainPc = "waitTasks" \/ mainPc \in Draining \/ Quitting
PastComp == \/ mainPc = "closeUncomp" \/ PastUncomp
            \/ call.closing # NullPtr /\ call.ret = "waitTasks"
PastHandlers == \/ mainPc = "closeComp" \/ PastComp
                \/ call.closing # NullPtr /\ call.ret = "closeUncomp"

\* Each entry is stored once, by the call that adds it.
PlacedInv ==
  /\ \A i \in added : place[i].cluster # NullPtr \/ (Storing /\ i = call.blob)
  /\ \A i \in Items \ added : place[i].cluster = NullPtr
  /\ \A h \in 1 .. Len(Handlers) :
       place[Handlers[h]].cluster # NullPtr <=> h < handler
  /\ Storing => place[call.blob].cluster = NullPtr
  /\ Storing /\ handler > 0 =>
       handler <= Len(Handlers) /\ call.blob = Handlers[handler] /\ ~call.comp
  /\ PastHandlers => handler > Len(Handlers)

\* No blob is left behind in an open cluster.
EmptyInv ==
  /\ PastComp => clusters[compCluster].count = 0
  /\ PastUncomp => clusters[uncompCluster].count = 0
  /\ call.closing # NullPtr => /\ call.ret = "closeUncomp" => call.comp
                               /\ call.ret = "waitTasks" => ~call.comp

\* Nothing in a cluster, or in the file, is there twice.
Names(s, p) == \A n \in 1 .. Len(s) : place[s[n]].cluster = p /\ place[s[n]].blob = n - 1

NamesInv ==
  /\ \A p \in 1 .. Len(clusters) : Names(clusters[p].content, p) /\ Names(clusters[p].zip, p)
  /\ \A k \in 1 .. Len(chunks) : Names(chunks[k].blobs, clustersList[k])

InFile(p) == \E k \in 1 .. Len(chunks) : clustersList[k] = p

\* The table of offsets of a cluster that is not compressed goes to the file as
\* it is, and has one element more than there are blobs.
TableInv ==
  /\ ~clusters[uncompCluster].compressed
  /\ \A p \in 1 .. Len(clusters) : ~clusters[p].compressed /\ ~InFile(p) =>
       Len(clusters[p].blobOffsets) = clusters[p].count + 1
  /\ \A k \in 1 .. Len(chunks) :
       /\ chunks[k].extended = clusters[clustersList[k]].extended
       /\ ~clusters[clustersList[k]].compressed =>
            Len(chunks[k].offsets) = clusters[clustersList[k]].count + 1

\* The offset that main noted for the title listing is the one in the table.
TitleInv ==
  LET p == place["listingV0"].cluster
      n == place["listingV0"].blob + 1
  IN  p # NullPtr =>
        /\ ~clusters[p].compressed
        /\ n <= clusters[p].count
        /\ ~InFile(p) => clusters[p].blobOffsets[n] = titleListBlobOffset
        /\ \A k \in 1 .. Len(chunks) :
             clustersList[k] = p => chunks[k].offsets[n] = titleListBlobOffset

\* isExtended knows all closed clusters but the one being closed.
ExtendedInv ==
  isExtended <=> \E k \in 1 .. Len(clustersList) :
                   clustersList[k] # call.closing /\ clusters[clustersList[k]].extended

\* The workers have ended when the null pointer goes to the writer thread, and
\* the index is closed when its handler has been stopped.
EndInv ==
  /\ mainPc \in Drained \/ (mainPc \in {"clusterWait", "clusterPush"} /\ call.closing = NullPtr)
       => \A w \in Workers : workerPc[w] = "exited"
  /\ WithIndex /\ (handler > 2 \/ (handler = 2 /\ call.blob = "fulltextIndex")) => ~db.open
  /\ checksum <=> mainPc \in {"rename", "done"}
  /\ zimName <=> mainPc = "done"

\* What has been written of the directory stays true.
TablesInv ==
  mainPc \in {"header", "rename", "done"} => header = FillHeader /\ tables = WrittenTables

\* The parts above: with IInv, what each step preserves.
AInv == /\ PlacedInv
        /\ EmptyInv
        /\ NamesInv
        /\ TableInv
        /\ TitleInv
        /\ ExtendedInv
        /\ EndInv
        /\ TablesInv

\* Whose each cluster and each task is at every moment, and that nothing the
\* caller handed over is missing, twice or elsewhere: from addItem to Rename.
PipelineInv == IInv /\ AInv
=============================================================================
