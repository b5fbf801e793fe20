------------------------- MODULE CreatorArchiveProofs -------------------------
(***************************************************************************)
(* Proofs about the archive that CreatorPipeline leaves when it is done:   *)
(* AInv is an invariant, given that IInv is; each entry reads back as its  *)
(* own content, the header is right about the title listing and the format *)
(* of the clusters, and each step is one of ArchiveWriter or none of its   *)
(* business.  One lemma per part of AInv.                                  *)
(***************************************************************************)
EXTENDS CreatorPipelineProofs

\* The DirentHandlers are different, and the listing of all entries is one.
LEMMA HandlersFacts ==
  /\ Len(Handlers) \in Nat /\ Len(Handlers) >= 3
  /\ \A g, h \in 1 .. Len(Handlers) : Handlers[g] = Handlers[h] => g = h
  /\ \E h \in 1 .. Len(Handlers) : Handlers[h] = "listingV0"
  /\ WithIndex => Len(Handlers) = 4 /\ Handlers[2] = "fulltextIndex"
  /\ \A h \in 1 .. Len(Handlers) : Handlers[h] = "fulltextIndex" => h = 2 /\ WithIndex
  /\ \A h \in 1 .. Len(Handlers) : Handlers[h] \in Blobs /\ Handlers[h] \notin Items
<1>1. CASE WithIndex
  <2>1. Handlers = <<"titleIndex", "fulltextIndex", "listingV0", "listingV1">>
    BY <1>1 DEF Handlers
  <2> QED
    BY <1>1, <2>1, ConstantsAssumption DEF Blobs, HandlerNames
<1>2. CASE ~WithIndex
  <2>1. Handlers = <<"titleIndex", "listingV0", "listingV1">>
    BY <1>2 DEF Handlers
  <2> QED
    BY <1>2, <2>1, ConstantsAssumption DEF Blobs, HandlerNames
<1> QED
  BY <1>1, <1>2

\* The worker threads and the writer thread leave the state of main alone.
LEMMA OtherThreads ==
  ASSUME (\E w \in Workers : taskRunner(w)) \/ clusterWriter
  PROVE  UNCHANGED <<mainVars, dataVars, tables, header, checksum, zimName>>
BY DEF taskRunner, PopTask, RunClusterTask, SetClosed, RunIndexTask, AddDocument, DeleteTask,
       clusterWriter, GetHead, IsClosed, PopCluster, WriteCluster, ClearData,
       workerUnchanged, writerUnchanged, mainVars, dataVars, fileVars, writerVars, workerVars

-----------------------------------------------------------------------------
(* PlacedInv *)

\* A step of main that does not store a blob leaves each entry where it is, if it
\* goes on with the blob it has or has none.
LEMMA PlacedFrame ==
  ASSUME IInv, PlacedInv, UNCHANGED <<handler, added, place>>,
         Storing' => Storing /\ call'.blob = call.blob /\ (call'.comp = call.comp \/ handler = 0),
         Storing => Storing',
         PastHandlers' => PastHandlers \/ handler > Len(Handlers)
  PROVE  PlacedInv'
BY DEF PlacedInv

\* Every step keeps PlacedInv: addItem starts to store an item that it accepts,
\* StopHandler the blob of the next handler, AddItemContent ends it.
LEMMA PlacedStep == ASSUME IInv, PlacedInv, [Next]_vars PROVE PlacedInv'
<1> USE DEF mainVars, dataVars, workerVars, writerVars, queueVars, liveVars, threadVars,
           fileVars, outVars, mainOnly, NullPtr
<1>t. /\ call \in CallType /\ handler \in Nat /\ added \subseteq Items
      /\ place \in [Blobs -> [cluster : 0 .. Len(clusters), blob : Nat]]
      /\ Items \subseteq Blobs
      /\ Len(clusters) \in Nat /\ compCluster \in 1 .. Len(clusters) /\ uncompCluster \in 1 .. Len(clusters)
  BY DEF IInv, TypeOK, Blobs
<1>1. ASSUME NEW i \in Items, AddItem(i) PROVE PlacedInv'
  <2>1. /\ mainPc = "api" /\ handler = 0 /\ call.closing = 0
    BY <1>1 DEF AddItem, IInv, MainInv, ClosingInv
  <2>2. /\ call'.blob = i /\ call'.closing = 0 /\ added' = added \cup {i} /\ i \notin added
        /\ mainPc' = "addItemData" /\ UNCHANGED <<handler, place>>
    BY <1>1 DEF AddItem, NoCall
  <2>3. Storing' /\ ~PastHandlers' /\ ~Storing
    BY <2>1, <2>2 DEF Storing, PastHandlers, PastComp, PastUncomp, Quitting, Draining
  <2> QED
    BY <2>1, <2>2, <2>3 DEF PlacedInv
<1>2. CASE FinishZimCreation
  <2>1. mainPc = "api" /\ handler = 0 /\ call.closing = 0 /\ mainPc' = "stopHandlers" /\ handler' = 1
        /\ UNCHANGED <<call, added, place>>
    BY <1>2 DEF FinishZimCreation, IInv, MainInv, ClosingInv
  <2>2. ~Storing' /\ ~PastHandlers' /\ ~Storing
    BY <2>1 DEF Storing, PastHandlers, PastComp, PastUncomp, Quitting, Draining
  <2> QED
    BY <2>1, <2>2, HandlersFacts DEF PlacedInv
<1>3. CASE AddItemContent
  <2>1. /\ mainPc = "addContent" /\ Storing /\ UNCHANGED <<call, added>> /\ call.closing = 0
        /\ call.blob \in Blobs
    BY <1>3, <1>t DEF AddItemContent, Storing, IInv, ClosingInv, CallType
  <2>2. PICK p, n : /\ p \in 1 .. Len(clusters)
                    /\ place' = [place EXCEPT ![call.blob] = [cluster |-> p, blob |-> n]]
    BY <1>3, <1>t DEF AddItemContent, OpenCluster
  <2>3. /\ place'[call.blob].cluster # 0
        /\ \A b \in Blobs : b # call.blob => place'[b] = place[b]
    BY <2>1, <2>2, <1>t
  <2>4. ~Storing' /\ ~PastHandlers'
    BY <1>3, <2>1 DEF AddItemContent, Storing, PastHandlers, PastComp, PastUncomp, Quitting, Draining
  <2>5. call.blob \in Items <=> handler = 0
    BY <2>1 DEF IInv, MainInv
  <2>6. CASE handler = 0
    <3>1. handler' = 0 /\ call.blob \in added
      BY <1>3, <2>5, <2>6 DEF AddItemContent, IInv, MainInv
    <3>2. \A h \in 1 .. Len(Handlers) : place'[Handlers[h]] = place[Handlers[h]]
      BY <2>3, <2>5, <2>6, HandlersFacts
    <3> QED
      BY <1>t, <2>1, <2>3, <2>4, <2>6, <3>1, <3>2 DEF PlacedInv
  <2>7. CASE handler > 0
    <3>1. handler' = handler + 1 /\ call.blob \notin Items /\ handler \in 1 .. Len(Handlers)
          /\ call.blob = Handlers[handler]
      BY <1>3, <1>t, <2>1, <2>5, <2>7, HandlersFacts DEF AddItemContent, PlacedInv
    <3>2. \A h \in 1 .. Len(Handlers) : place'[Handlers[h]].cluster # 0 <=> h < handler'
      BY SMTT(30), <1>t, <2>3, <3>1, HandlersFacts DEF PlacedInv
    <3> QED
      BY <1>t, <2>1, <2>3, <2>4, <2>5, <2>7, <3>1, <3>2 DEF PlacedInv
  <2> QED
    BY <1>t, <2>6, <2>7
<1>4. CASE StopHandler
  <2>1. /\ mainPc = "stopHandlers" /\ handler > 0 /\ handler \in 1 .. Len(Handlers) /\ call.closing = 0
        /\ call'.blob = Handlers[handler] /\ ~call'.comp /\ call'.closing = 0 /\ mainPc' = "addItemData"
        /\ UNCHANGED <<handler, added, place>>
    BY <1>4, <1>t, HandlersFacts DEF StopHandler, IInv, MainInv, ClosingInv, FinishPcs, NoCall
  <2>2. Storing' /\ ~PastHandlers' /\ ~Storing
    BY <2>1 DEF Storing, PastHandlers, PastComp, PastUncomp, Quitting, Draining
  <2> QED
    BY <1>t, <2>1, <2>2 DEF PlacedInv
<1>5. CASE HandlersStopped
  <2>1. mainPc = "stopHandlers" /\ mainPc' = "closeComp" /\ handler > Len(Handlers)
        /\ UNCHANGED <<handler, added, place, call>> /\ call.closing = 0
    BY <1>5 DEF HandlersStopped, IInv, ClosingInv
  <2>2. ~Storing /\ ~Storing'
    BY <2>1 DEF Storing
  <2> QED
    BY <2>1, <2>2, PlacedFrame
<1>6. CASE AddItemData
  <2>0. mainPc = "addItemData" /\ call.closing = 0 /\ Storing /\ UNCHANGED <<handler, added, place>>
    BY <1>6 DEF AddItemData, IInv, ClosingInv, Storing
  <2>1. CASE CloseCluster(call.comp, "addContent")
    <3>1. call'.blob = call.blob /\ call'.comp = call.comp /\ call'.closing # 0 /\ call'.ret = "addContent"
          /\ mainPc' = "taskWait" /\ call'.push.kind = "cluster"
      BY <2>1, <1>t DEF CloseCluster, OpenCluster, CallType, ClusterTask
    <3>2. Storing' /\ ~PastHandlers'
      BY <3>1 DEF Storing, PastHandlers, PastComp, PastUncomp, Quitting, Draining
    <3> QED
      BY <2>0, <3>1, <3>2, PlacedFrame
  <2>2. CASE mainPc' = "addContent" /\ call' = call
    <3>1. Storing' /\ ~PastHandlers'
      BY <2>0, <2>2 DEF Storing, PastHandlers, PastComp, PastUncomp, Quitting, Draining
    <3> QED
      BY <2>0, <2>2, <3>1, PlacedFrame
  <2> QED
    BY <1>6, <2>1, <2>2 DEF AddItemData
<1>7. CASE CloseLastComp \/ CloseLastUncomp
  <2>0. mainPc \in {"closeComp", "closeUncomp"} /\ call.closing = 0 /\ UNCHANGED <<handler, added, place>>
        /\ ~Storing /\ PastHandlers
    BY <1>7 DEF CloseLastComp, CloseLastUncomp, CloseLastCluster, IInv, ClosingInv, Storing, PastHandlers, PastComp
  <2>1. ~Storing'
    <3>1. CASE \E c \in BOOLEAN, r \in {"closeUncomp", "waitTasks"} : CloseCluster(c, r)
      BY <3>1, <1>t DEF CloseCluster, CallType, Storing
    <3>2. CASE call' = call /\ mainPc' \in {"closeUncomp", "waitTasks"}
      BY <2>0, <3>2 DEF Storing
    <3> QED
      BY <1>7, <3>1, <3>2 DEF CloseLastComp, CloseLastUncomp, CloseLastCluster
  <2> QED
    BY <2>0, <2>1, PlacedFrame
<1>8. CASE TaskWait \/ ClusterWait \/ WaitClusterTasks \/ JoinWorkers \/ JoinWriter
  <2>1. UNCHANGED <<handler, added, place, call>>
    BY <1>8 DEF TaskWait, ClusterWait, WaitClusterTasks, JoinWorkers, JoinWriter
  <2>2. Storing' <=> Storing
    BY <1>8, <2>1 DEF TaskWait, ClusterWait, WaitClusterTasks, JoinWorkers, JoinWriter, Storing
  <2>3. PastHandlers' => PastHandlers
    BY <1>8, <2>1 DEF TaskWait, ClusterWait, WaitClusterTasks, JoinWorkers, JoinWriter, PastHandlers, PastComp,
       PastUncomp, Quitting, Draining
  <2> QED
    BY <2>1, <2>2, <2>3, PlacedFrame
<1>9. CASE HandleItem \/ QuitWorkers
  <2>1. UNCHANGED <<handler, added, place>> /\ call.closing = 0 /\ call'.closing = 0
        /\ mainPc \in {"handle", "quitWorkers"} /\ mainPc' \in {"taskWait", "joinWorkers"}
        /\ (mainPc = "handle" => call'.push.kind = "index" /\ mainPc' = "taskWait")
    BY <1>9, <1>t DEF HandleItem, QuitWorkers, IInv, ClosingInv, IndexTask, CallType
  <2>2. ~Storing' /\ ~Storing
    BY <2>1 DEF Storing
  <2>3. PastHandlers' => PastHandlers
    BY <2>1 DEF PastHandlers, PastComp, PastUncomp, Quitting, Draining
  <2> QED
    BY <2>1, <2>2, <2>3, PlacedFrame
<1>10. CASE TaskPush \/ ClusterPush
  <2>1. UNCHANGED <<handler, added, place, call>>
    BY <1>10 DEF TaskPush, ClusterPush
  <2>2. mainPc \in {"taskPush", "clusterPush"} /\ mainPc' \in {"clusterWait", "api", "quitWorkers", "joinWriter", "reopen"}
    BY <1>10 DEF TaskPush, ClusterPush
  <2>3. Storing' <=> Storing
    BY <2>1, <2>2 DEF Storing
  <2>4. PastHandlers' => PastHandlers
    BY <1>10, <2>1 DEF TaskPush, ClusterPush, PastHandlers, PastComp, PastUncomp, Quitting, Draining, IInv, ClosingInv
  <2> QED
    BY <2>1, <2>3, <2>4, PlacedFrame
<1>11. CASE Reopen
  <2>1. UNCHANGED <<handler, added, place>> /\ mainPc = "reopen" /\ mainPc' = call.ret /\ call.closing # 0
        /\ call'.closing = 0 /\ call'.blob = call.blob /\ call'.comp = call.comp
        /\ call.ret \in {"addContent", "closeUncomp", "waitTasks"}
    BY <1>11, <1>t DEF Reopen, IInv, ClosingInv, MainInv, CallType
  <2>2. Storing' <=> Storing
    BY <2>1 DEF Storing
  <2>3. PastHandlers' => PastHandlers
    BY <2>1 DEF PastHandlers, PastComp, PastUncomp, Quitting, Draining
  <2> QED
    BY <2>1, <2>2, <2>3, PlacedFrame
<1>12. CASE WriteTables \/ WriteHeader \/ Rename
  <2>1. UNCHANGED <<handler, added, place, call>> /\ mainPc \in Draining /\ mainPc' \in Draining
    BY <1>12 DEF WriteTables, WriteHeader, Rename, Draining
  <2>2. (Storing' <=> Storing) /\ PastHandlers
    BY <2>1 DEF Storing, PastHandlers, PastComp, PastUncomp, Draining
  <2> QED
    BY <2>1, <2>2, PlacedFrame
<1>13. CASE (\E w \in Workers : taskRunner(w)) \/ clusterWriter \/ Terminated \/ UNCHANGED vars
  <2>1. UNCHANGED <<handler, added, place, call, mainPc>>
    BY <1>13, OtherThreads DEF Terminated, vars
  <2>2. (Storing' <=> Storing) /\ (PastHandlers' <=> PastHandlers)
    BY <2>1 DEF Storing, PastHandlers, PastComp, PastUncomp, Quitting
  <2> QED
    BY <2>1, <2>2, PlacedFrame
<1> QED
  BY <1>1, <1>2, <1>3, <1>4, <1>5, <1>6, <1>7, <1>8, <1>9, <1>10, <1>11, <1>12, <1>13 DEF Next, Main

-----------------------------------------------------------------------------
(* What a step does to the clusters, the chunks and the numbers *)

\* Once a blob is in a cluster it stays there until the content is compressed or
\* cleared.
Evolves(c, d) == /\ d.compressed = c.compressed /\ d.count = c.count /\ d.extended = c.extended
                 /\ d.content = c.content \/ d.content = <<>>
                 /\ d.zip = c.zip \/ d.zip = c.content \/ d.zip = <<>>

\* Clearing is the only thing that takes the table of offsets from a cluster that
\* is not compressed.
KeepsTable(c, d) == d.blobOffsets = c.blobOffsets \/ c.compressed

\* The steps that change one cluster, each in its way.
LEMMA ClusterChanges ==
  ASSUME NEW c \in ClusterType, NEW n \in Nat
  PROVE  /\ Evolves(c, c) /\ KeepsTable(c, c)
         /\ Evolves(c, [c EXCEPT !.index = n]) /\ KeepsTable(c, [c EXCEPT !.index = n])
         /\ Evolves(c, [c EXCEPT !.offset = n]) /\ KeepsTable(c, [c EXCEPT !.offset = n])
         /\ Evolves(c, [c EXCEPT !.closed = TRUE]) /\ KeepsTable(c, [c EXCEPT !.closed = TRUE])
         /\ Evolves(c, Compressed(c)) /\ KeepsTable(c, Compressed(c))
         /\ Evolves(c, Cleared(c))
BY DEF Evolves, KeepsTable, Compressed, Cleared, ClusterType

\* A step changes the index, the offset or the state of one cluster, or clears
\* one that is in the file, or appends an empty one, unless it stores a blob.
LEMMA ClusterSteps ==
  ASSUME IInv, [Next]_vars, ~AddItemContent
  PROVE  /\ place' = place /\ titleListBlobOffset' = titleListBlobOffset
         /\ Len(clusters') = Len(clusters) \/ (Reopen /\ Len(clusters') = Len(clusters) + 1)
         /\ \A p \in 1 .. Len(clusters) :
              /\ Evolves(clusters[p], clusters'[p])
              /\ KeepsTable(clusters[p], clusters'[p]) \/ (writerPc = "clearData" /\ p = writerCluster)
         /\ Reopen => clusters'[Len(clusters) + 1] = NewCluster(call.comp /\ Compression)
<1> USE DEF mainVars, dataVars, workerVars, writerVars, queueVars, liveVars, threadVars,
           fileVars, outVars, mainOnly, NullPtr, workerUnchanged, writerUnchanged
<1> DEFINE Goal == /\ Len(clusters') = Len(clusters) \/ (Reopen /\ Len(clusters') = Len(clusters) + 1)
                   /\ \A p \in 1 .. Len(clusters) :
                        /\ Evolves(clusters[p], clusters'[p])
                        /\ KeepsTable(clusters[p], clusters'[p]) \/ (writerPc = "clearData" /\ p = writerCluster)
                   /\ Reopen => clusters'[Len(clusters) + 1] = NewCluster(call.comp /\ Compression)
<1>t. /\ clusters \in Seq(ClusterType) /\ \A p \in 1 .. Len(clusters) : clusters[p] \in ClusterType
      /\ Len(clusters) \in Nat /\ Len(clustersList) \in Nat /\ fileEnd \in Nat
      /\ \A k \in 1 .. Len(clustersList) : clustersList[k] \in 1 .. Len(clusters)
      /\ Numbered \subseteq 1 .. Len(clusters)
      /\ compCluster \in 1 .. Len(clusters) /\ uncompCluster \in 1 .. Len(clusters)
  BY SMTT(30) DEF IInv, TypeOK, Numbered
<1>p. place' = place /\ titleListBlobOffset' = titleListBlobOffset
  <2>1. ASSUME NEW i \in Items, AddItem(i) PROVE UNCHANGED <<place, titleListBlobOffset>>
    BY <2>1 DEF AddItem
  <2> QED
    BY <2>1, OtherThreads DEF Next, Main, vars, FinishZimCreation, AddItemData, HandleItem, TaskWait, TaskPush,
       ClusterWait, ClusterPush, Reopen, StopHandler, HandlersStopped, CloseLastComp, CloseLastUncomp,
       CloseLastCluster, WaitClusterTasks, QuitWorkers, JoinWorkers, JoinWriter, WriteTables, WriteHeader,
       Rename, Terminated
<1> SUFFICES Goal
  BY <1>p
<1>1. ASSUME clusters' = clusters, ~Reopen PROVE Goal
  BY <1>1, <1>t, ClusterChanges
<1>2. ASSUME NEW p \in 1 .. Len(clusters), NEW d, clusters' = [clusters EXCEPT ![p] = d], ~Reopen,
             Evolves(clusters[p], d),
             KeepsTable(clusters[p], d) \/ (writerPc = "clearData" /\ p = writerCluster)
      PROVE  Goal
  <2>1. clusters'[p] = d /\ \A q \in 1 .. Len(clusters) : q # p => clusters'[q] = clusters[q]
    BY <1>2, <1>t
  <2>2. Len(clusters') = Len(clusters)
    BY <1>2, <1>t
  <2> QED
    BY <1>2, <1>t, <2>1, <2>2, ClusterChanges
<1> HIDE DEF Goal
<1>3. ASSUME NEW c \in BOOLEAN, NEW r, CloseCluster(c, r), ~Reopen PROVE Goal
  <2>1. PICK p \in 1 .. Len(clusters) : p = OpenCluster(c)
    BY <1>t DEF OpenCluster
  <2>2. clusters' = [clusters EXCEPT ![p] = [clusters[p] EXCEPT !.index = Len(clustersList)]]
    BY <1>3, <2>1 DEF CloseCluster
  <2> QED
    BY <1>2, <1>3, <1>t, <2>2, ClusterChanges
<1>4. CASE Main /\ ~Reopen
  <2>0. call.comp \in BOOLEAN
    BY DEF IInv, TypeOK, CallType
  <2>1. ASSUME NEW i \in Items, AddItem(i) PROVE clusters' = clusters
    BY <2>1 DEF AddItem
  <2>2. CASE AddItemData \/ CloseLastComp \/ CloseLastUncomp
    BY <1>1, <1>3, <1>4, <2>0, <2>2 DEF AddItemData, CloseLastComp, CloseLastUncomp, CloseLastCluster
  <2>3. CASE ~(AddItemData \/ CloseLastComp \/ CloseLastUncomp)
    <3>1. clusters' = clusters
      BY <1>4, <2>1, <2>3 DEF Main, FinishZimCreation, HandleItem, TaskWait, TaskPush, ClusterWait, ClusterPush,
         StopHandler, HandlersStopped, WaitClusterTasks, QuitWorkers, JoinWorkers, JoinWriter, WriteTables,
         WriteHeader, Rename
    <3> QED
      BY <1>1, <1>4, <3>1
  <2> QED
    BY <2>2, <2>3
<1>5. CASE Reopen
  <2>0. (call.comp /\ Compression) \in BOOLEAN
    OBVIOUS
  <2>1. clusters' = Append(clusters, NewCluster(call.comp /\ Compression))
        /\ NewCluster(call.comp /\ Compression) \in ClusterType
    BY <1>5, <2>0, NewClusterType DEF Reopen, FreshCluster
  <2>2. /\ Len(clusters') = Len(clusters) + 1 /\ clusters'[Len(clusters) + 1] = NewCluster(call.comp /\ Compression)
        /\ \A p \in 1 .. Len(clusters) : clusters'[p] = clusters[p]
    BY <1>t, <2>1, AppendSeq
  <2> QED
    BY <1>5, <1>t, <2>2, ClusterChanges DEF Goal
<1>6. ASSUME NEW w \in Workers, taskRunner(w) PROVE Goal
  <2>0. ~Reopen
    BY <1>6, OtherThreads DEF Reopen, IInv, ClosingInv, MainInv, TypeOK, CallType
  <2>1. CASE RunClusterTask(w)
    <3>1. PICK p \in 1 .. Len(clusters) : p = workerTask[w].of
      BY <1>t, <2>1 DEF RunClusterTask, IInv, TaskClusterInv
    <3>2. clusters' = [clusters EXCEPT ![p] = Compressed(clusters[p])]
      BY <2>1, <3>1 DEF RunClusterTask
    <3> QED
      BY <1>2, <1>t, <2>0, <3>2, ClusterChanges
  <2>2. CASE SetClosed(w)
    <3>1. PICK p \in 1 .. Len(clusters) : p = workerTask[w].of
      BY <1>t, <2>2 DEF SetClosed, IInv, TaskInv, TaskClusterInv
    <3>2. clusters' = [clusters EXCEPT ![p] = [clusters[p] EXCEPT !.closed = TRUE]]
      BY <2>2, <3>1 DEF SetClosed
    <3> QED
      BY <1>2, <1>t, <2>0, <3>2, ClusterChanges
  <2>3. CASE ~RunClusterTask(w) /\ ~SetClosed(w)
    <3>1. clusters' = clusters
      BY <1>6, <2>3 DEF taskRunner, PopTask, RunIndexTask, AddDocument, DeleteTask
    <3> QED
      BY <1>1, <2>0, <3>1
  <2> QED
    BY <2>1, <2>2, <2>3
<1>7. CASE clusterWriter
  <2>0. ~Reopen
    BY <1>7, OtherThreads DEF Reopen, IInv, ClosingInv, MainInv, TypeOK, CallType
  <2>1. CASE WriteCluster \/ ClearData
    <3>1. PICK p \in 1 .. Len(clusters) : p = writerCluster
      BY <1>t, <2>1 DEF WriteCluster, ClearData, IInv, WriterInv, TypeOK
    <3>2. CASE WriteCluster
      <4>1. clusters' = [clusters EXCEPT ![p] = [clusters[p] EXCEPT !.offset = fileEnd]]
        BY <3>1, <3>2 DEF WriteCluster
      <4> QED
        BY <1>2, <1>t, <2>0, <4>1, ClusterChanges
    <3>3. CASE ClearData
      <4>1. clusters' = [clusters EXCEPT ![p] = Cleared(clusters[p])] /\ writerPc = "clearData"
        BY <3>1, <3>3 DEF ClearData
      <4> QED
        BY <1>2, <1>t, <2>0, <3>1, <4>1, ClusterChanges
    <3> QED
      BY <2>1, <3>2, <3>3
  <2>2. CASE ~WriteCluster /\ ~ClearData
    <3>1. clusters' = clusters
      BY <1>7, <2>2 DEF clusterWriter, GetHead, IsClosed, PopCluster
    <3> QED
      BY <1>1, <2>0, <3>1
  <2> QED
    BY <2>1, <2>2
<1>8. CASE Terminated \/ UNCHANGED vars
  <2>1. clusters' = clusters /\ mainPc' = mainPc
    BY <1>8 DEF Terminated, vars
  <2>2. ~Reopen
    BY <2>1 DEF Reopen, IInv, ClosingInv, MainInv, TypeOK, CallType
  <2> QED
    BY <1>1, <2>1, <2>2
<1> QED
  BY <1>4, <1>5, <1>6, <1>7, <1>8 DEF Next

\* clusterWriter appends what it writes, under the next number.
LEMMA ChunkSteps ==
  ASSUME IInv, [Next]_vars
  PROVE  /\ \A k \in 1 .. Len(clustersList) : clustersList'[k] = clustersList[k]
         /\ Len(clustersList') >= Len(clustersList)
         /\ \/ chunks' = chunks
            \/ /\ WriteCluster /\ writerCluster \in 1 .. Len(clusters)
               /\ chunks' = Append(chunks, ClusterChunk(clusters[writerCluster]))
               /\ ClusterChunk(clusters[writerCluster]) \in ChunkType
               /\ Len(chunks) + 1 \in 1 .. Len(clustersList)
               /\ writerCluster = clustersList[Len(chunks) + 1]
<1> USE DEF mainVars, dataVars, workerVars, writerVars, queueVars, liveVars, threadVars,
           fileVars, outVars, mainOnly, NullPtr, workerUnchanged, writerUnchanged
<1>t. /\ clustersList \in Seq(1 .. Len(clusters)) /\ Len(clustersList) \in Nat /\ Len(chunks) \in Nat
      /\ \A p \in 1 .. Len(clusters) : clusters[p] \in ClusterType
      /\ fileEnd \in Nat /\ compCluster \in 1 .. Len(clusters) /\ uncompCluster \in 1 .. Len(clusters)
  BY DEF IInv, TypeOK
<1>1. /\ \A k \in 1 .. Len(clustersList) : clustersList'[k] = clustersList[k]
      /\ Len(clustersList') >= Len(clustersList)
  <2>1. ASSUME clustersList' = clustersList PROVE <1>1!:
    BY <1>t, <2>1
  <2>2. ASSUME NEW c \in BOOLEAN, NEW r, CloseCluster(c, r) PROVE <1>1!:
    <3>1. OpenCluster(c) \in 1 .. Len(clusters) /\ clustersList' = Append(clustersList, OpenCluster(c))
      BY <1>t, <2>2 DEF CloseCluster, OpenCluster
    <3> QED
      BY <1>t, <3>1, AppendSeq
  <2>3. ASSUME NEW i \in Items, AddItem(i) PROVE clustersList' = clustersList
    BY <2>3 DEF AddItem
  <2>4. CASE AddItemData \/ CloseLastComp \/ CloseLastUncomp
    <3>0. call.comp \in BOOLEAN
      BY DEF IInv, TypeOK, CallType
    <3> QED
      BY <2>1, <2>2, <2>4, <3>0 DEF AddItemData, CloseLastComp, CloseLastUncomp, CloseLastCluster
  <2>5. CASE ~(AddItemData \/ CloseLastComp \/ CloseLastUncomp)
    <3>1. clustersList' = clustersList
      BY <2>3, <2>5, OtherThreads DEF Next, Main, vars, FinishZimCreation, AddItemContent, HandleItem, TaskWait, TaskPush,
         ClusterWait, ClusterPush, Reopen, StopHandler, HandlersStopped, WaitClusterTasks, QuitWorkers,
         JoinWorkers, JoinWriter, WriteTables, WriteHeader, Rename, Terminated
    <3> QED
      BY <2>1, <3>1
  <2> QED
    BY <2>4, <2>5
<1>2. CASE WriteCluster
  <2>1. /\ writerCluster # 0 /\ Len(chunks) + 1 \in 1 .. Len(clustersList)
        /\ writerCluster = clustersList[Len(chunks) + 1] /\ writerCluster \in 1 .. Len(clusters)
    BY <1>2, <1>t DEF WriteCluster, IInv, WriterInv
  <2>2. ClusterChunk(clusters[writerCluster]) \in ChunkType
    BY <1>t, <2>1, ClusterChunkFacts
  <2> QED
    BY <1>1, <1>2, <2>1, <2>2 DEF WriteCluster
<1>3. CASE ~WriteCluster
  <2>1. ASSUME NEW i \in Items, AddItem(i) PROVE chunks' = chunks
    BY <2>1 DEF AddItem
  <2>2. ASSUME NEW w \in Workers, taskRunner(w) PROVE chunks' = chunks
    BY <2>2 DEF taskRunner, PopTask, RunClusterTask, SetClosed, RunIndexTask, AddDocument, DeleteTask
  <2>3. chunks' = chunks
    BY <1>3, <2>1, <2>2 DEF Next, Main, vars, FinishZimCreation, AddItemData, AddItemContent, HandleItem, TaskWait, TaskPush,
       ClusterWait, ClusterPush, Reopen, StopHandler, HandlersStopped, CloseLastComp, CloseLastUncomp,
       CloseLastCluster, WaitClusterTasks, QuitWorkers, JoinWorkers, JoinWriter, WriteTables, WriteHeader,
       Rename, Terminated, clusterWriter, GetHead, IsClosed, PopCluster, ClearData
  <2> QED
    BY <1>1, <2>3
<1> QED
  BY <1>2, <1>3

\* addContent, as far as AddContentFacts does not say it.
LEMMA AddContentTable ==
  ASSUME NEW c \in ClusterType, NEW b \in Blobs
  PROVE  LET d == AddContent(c, b)
         IN  /\ d.compressed = c.compressed
             /\ d.content = Append(c.content, b)
             /\ \A k \in 1 .. Len(c.blobOffsets) : d.blobOffsets[k] = c.blobOffsets[k]
<1>1. c.content \in Seq(Blobs) /\ c.blobOffsets \in Seq(Nat) /\ c.size \in Nat /\ ItemSize[b] \in Nat
  BY ConstantsAssumption DEF ClusterType
<1>2. PICK y : y = Append(c.blobOffsets, c.size + ItemSize[b])
  OBVIOUS
<1>3. \A k \in 1 .. Len(c.blobOffsets) : y[k] = c.blobOffsets[k]
  BY SMTT(30), <1>1, <1>2, AppendSeq
<1>4. AddContent(c, b).blobOffsets = y /\ AddContent(c, b).compressed = c.compressed
      /\ AddContent(c, b).content = Append(c.content, b)
  BY <1>2 DEF AddContent, ClusterType
<1> QED
  BY <1>3, <1>4

\* The step that stores blob b, as the n-th (from 0), in the open cluster p.
Stores(p, b, n) ==
  /\ p = OpenCluster(call.comp) /\ b = call.blob /\ n = clusters[p].count
  /\ p \notin Numbered
  /\ Len(clusters[p].content) = n /\ clusters[p].zip = <<>> /\ Len(clusters[p].blobOffsets) = n + 1
  /\ place'[b].cluster = p /\ place'[b].blob = n
  /\ \A x \in Blobs : x # b => place'[x] = place[x]
  /\ Len(clusters') = Len(clusters)
  /\ \A q \in 1 .. Len(clusters) : q # p => clusters'[q] = clusters[q]
  /\ clusters'[p].zip = <<>> /\ clusters'[p].count = n + 1
  /\ clusters'[p].compressed = clusters[p].compressed
  /\ Len(clusters'[p].content) = n + 1 /\ clusters'[p].content[n + 1] = b
  /\ \A k \in 1 .. n : clusters'[p].content[k] = clusters[p].content[k]
  /\ Len(clusters'[p].blobOffsets) = n + 2
  /\ \A k \in 1 .. n + 1 : clusters'[p].blobOffsets[k] = clusters[p].blobOffsets[k]
  /\ b = "listingV0" => titleListBlobOffset' = clusters[p].blobOffsets[n + 1]
  /\ b # "listingV0" => titleListBlobOffset' = titleListBlobOffset
  /\ UNCHANGED <<call, added, compCluster, uncompCluster, clustersList, isExtended, chunks>>

\* AddItemContent is such a step.
LEMMA StoreStep ==
  ASSUME IInv, AddItemContent
  PROVE  \E p \in 1 .. Len(clusters), b \in Blobs, n \in Nat : Stores(p, b, n)
<1> USE DEF mainVars, dataVars, workerVars, writerVars, queueVars, liveVars, threadVars,
           fileVars, outVars, mainOnly, NullPtr
<1>a. PICK p : p = OpenCluster(call.comp)
  OBVIOUS
<1>b. PICK b \in Blobs : b = call.blob
  BY DEF IInv, TypeOK, CallType
<1>p. /\ p \in 1 .. Len(clusters) /\ p \in {compCluster, uncompCluster} /\ p \notin Numbered
  BY <1>a DEF IInv, TypeOK, OpenCluster, OpenInv, ClosingInv, AddItemContent
<1>e. /\ clusters[p] \in ClusterType /\ ~clusters[p].closed /\ clusters[p].zip = <<>>
      /\ Len(clusters[p].content) = clusters[p].count
      /\ Len(clusters[p].blobOffsets) = clusters[p].count + 1
  BY SMTT(30), <1>p DEF IInv, TypeOK, ContentInv, OpenContentInv
<1>n. PICK n \in Nat : n = clusters[p].count
  BY <1>e DEF ClusterType
<1>d. PICK d : d = AddContent(clusters[p], b)
  OBVIOUS
<1>f. /\ d \in ClusterType /\ d.zip = <<>> /\ d.count = n + 1
      /\ Len(d.content) = n + 1 /\ Len(d.blobOffsets) = n + 2
      /\ d.content[n + 1] = b
      /\ \A k \in 1 .. n : d.content[k] = clusters[p].content[k]
  <2>1. /\ d \in ClusterType /\ d.zip = clusters[p].zip
        /\ d.count = clusters[p].count + 1
        /\ Len(d.content) = d.count /\ Len(d.blobOffsets) = d.count + 1
        /\ d.content[clusters[p].count + 1] = b
        /\ \A k \in 1 .. Len(clusters[p].content) : d.content[k] = clusters[p].content[k]
    BY <1>d, <1>e, AddContentFacts
  <2> QED
    BY <1>e, <1>n, <2>1
<1>g. /\ d.compressed = clusters[p].compressed
      /\ \A k \in 1 .. n + 1 : d.blobOffsets[k] = clusters[p].blobOffsets[k]
  BY <1>d, <1>e, <1>n, AddContentTable
<1>c. /\ Len(clusters') = Len(clusters) /\ clusters'[p] = d
      /\ \A q \in 1 .. Len(clusters) : q # p => clusters'[q] = clusters[q]
  <2>1. clusters \in Seq(ClusterType) /\ clusters' = [clusters EXCEPT ![p] = d]
    BY <1>a, <1>b, <1>d DEF IInv, TypeOK, AddItemContent
  <2> QED
    BY <1>f, <1>p, <2>1, UpdateSeq
<1>h. /\ place'[b].cluster = p /\ place'[b].blob = n
      /\ \A x \in Blobs : x # b => place'[x] = place[x]
  <2>1. place' = [place EXCEPT ![b] = [cluster |-> p, blob |-> n]]
    BY <1>a, <1>b, <1>n DEF AddItemContent, BlobNumber
  <2>2. place \in [Blobs -> [cluster : 0 .. Len(clusters), blob : Nat]]
    BY DEF IInv, TypeOK
  <2> QED
    BY <2>1, <2>2
<1>u. UNCHANGED <<call, added, compCluster, uncompCluster, clustersList, isExtended, chunks>>
  BY DEF AddItemContent
<1>i. /\ b = "listingV0" => titleListBlobOffset' = clusters[p].blobOffsets[n + 1]
      /\ b # "listingV0" => titleListBlobOffset' = titleListBlobOffset
  <2>1. "listingV0" \notin Items
    BY ConstantsAssumption DEF HandlerNames
  <2>2. CASE b = "listingV0"
    <3>1. titleListBlobOffset' = d.blobOffsets[place'[b].blob + 1]
      BY <1>a, <1>b, <1>d, <2>1, <2>2 DEF AddItemContent
    <3>2. place'[b].blob + 1 = n + 1 /\ n + 1 \in 1 .. n + 1
      BY <1>h
    <3>3. d.blobOffsets[n + 1] = clusters[p].blobOffsets[n + 1]
      BY <1>g, <3>2
    <3> QED
      BY <2>2, <3>1, <3>2, <3>3
  <2>3. CASE b # "listingV0"
    BY <1>b, <2>3 DEF AddItemContent
  <2> QED
    BY <2>2, <2>3
<1> QED
  BY ZenonT(60), <1>a, <1>b, <1>c, <1>e, <1>f, <1>g, <1>h, <1>i, <1>n, <1>p, <1>u DEF Stores

-----------------------------------------------------------------------------
(* NamesInv *)

\* Names, of the next state.
NamesNext(s, p) == \A n \in 1 .. Len(s) : place'[s[n]].cluster = p /\ place'[s[n]].blob = n - 1

\* Every step keeps NamesInv: a blob that is stored was nowhere before, and
\* compressing, writing and clearing do not reorder.
LEMMA NamesStep == ASSUME IInv, PlacedInv, NamesInv, [Next]_vars PROVE NamesInv'
<1>t. /\ \A p \in 1 .. Len(clusters) : /\ clusters[p] \in ClusterType
                                       /\ clusters[p].content \in Seq(Blobs) /\ clusters[p].zip \in Seq(Blobs)
      /\ Len(clusters) \in Nat /\ Len(clustersList) \in Nat /\ Len(chunks) \in Nat
      /\ chunks \in Seq(ChunkType)
      /\ \A k \in 1 .. Len(chunks) : chunks[k].blobs \in Seq(Blobs) /\ k \in 1 .. Len(clustersList)
      /\ \A k \in 1 .. Len(clustersList) : clustersList[k] \in 1 .. Len(clusters)
  <2>1. Len(chunks) <= Len(clustersList) /\ Len(chunks) \in Nat /\ Len(clustersList) \in Nat
    BY ChunksNumbered DEF IInv
  <2>2. clusters \in Seq(ClusterType) /\ chunks \in Seq(ChunkType) /\ clustersList \in Seq(1 .. Len(clusters))
    BY DEF IInv, TypeOK
  <2>3. \A c \in ClusterType : c.content \in Seq(Blobs) /\ c.zip \in Seq(Blobs)
    BY DEF ClusterType
  <2>4. \A c \in ChunkType : c.blobs \in Seq(Blobs)
    BY DEF ChunkType
  <2>5. \A p \in 1 .. Len(clusters) : clusters[p] \in ClusterType
    BY <2>2
  <2>6. \A k \in 1 .. Len(chunks) : chunks[k] \in ChunkType /\ k \in 1 .. Len(clustersList)
    BY <2>1, <2>2
  <2> QED
    BY <2>1, <2>2, <2>3, <2>4, <2>5, <2>6
<1>n. /\ \A p \in 1 .. Len(clusters) : Names(clusters[p].content, p) /\ Names(clusters[p].zip, p)
      /\ \A k \in 1 .. Len(chunks) : Names(chunks[k].blobs, clustersList[k])
  BY DEF NamesInv
<1>g. SUFFICES /\ \A p \in 1 .. Len(clusters') : NamesNext(clusters'[p].content, p) /\ NamesNext(clusters'[p].zip, p)
               /\ \A k \in 1 .. Len(chunks') : NamesNext(chunks'[k].blobs, clustersList'[k])
  BY DEF NamesInv, Names, NamesNext
<1>e. \A q : NamesNext(<<>>, q)
  BY DEF NamesNext
<1>1. CASE AddItemContent
  <2>1. PICK p \in 1 .. Len(clusters), b \in Blobs, n \in Nat : Stores(p, b, n)
    BY <1>1, StoreStep
  <2>2. place[b].cluster = 0
    BY <1>1, <2>1 DEF PlacedInv, Storing, AddItemContent, Stores, NullPtr
  <2>s. /\ place'[b].cluster = p /\ place'[b].blob = n
        /\ \A x \in Blobs : x # b => place'[x] = place[x]
        /\ Len(clusters') = Len(clusters)
        /\ \A q \in 1 .. Len(clusters) : q # p => clusters'[q] = clusters[q]
        /\ clusters'[p].zip = <<>> /\ Len(clusters[p].content) = n
        /\ Len(clusters'[p].content) = n + 1 /\ clusters'[p].content[n + 1] = b
        /\ \A k \in 1 .. n : clusters'[p].content[k] = clusters[p].content[k]
        /\ chunks' = chunks /\ clustersList' = clustersList
    BY <2>1 DEF Stores
  <2>3. ASSUME NEW s \in Seq(Blobs), NEW q \in 1 .. Len(clusters), Names(s, q)
        PROVE  NamesNext(s, q)
    <3>1. \A k \in 1 .. Len(s) : s[k] \in Blobs /\ place[s[k]].cluster = q /\ place[s[k]].blob = k - 1
      BY <2>3 DEF Names
    <3>2. \A k \in 1 .. Len(s) : s[k] # b
      BY <2>2, <3>1
    <3>3. \A k \in 1 .. Len(s) : place'[s[k]] = place[s[k]]
      BY <2>s, <3>1, <3>2
    <3> QED
      BY <3>1, <3>3 DEF NamesNext
  <2>4. ASSUME NEW q \in 1 .. Len(clusters), q # p
        PROVE  NamesNext(clusters'[q].content, q) /\ NamesNext(clusters'[q].zip, q)
    <3>1. NamesNext(clusters[q].content, q) /\ NamesNext(clusters[q].zip, q)
      BY <1>t, <1>n, <2>3
    <3> QED
      BY <2>s, <2>4, <3>1
  <2>5. NamesNext(clusters'[p].content, p) /\ NamesNext(clusters'[p].zip, p)
    <3>1. NamesNext(clusters[p].content, p)
      BY <1>t, <1>n, <2>3
    <3>2. PICK x : x = clusters[p].content
      OBVIOUS
    <3>3. PICK y : y = clusters'[p].content
      OBVIOUS
    <3>4. \A k \in 1 .. n : place'[x[k]].cluster = p /\ place'[x[k]].blob = k - 1
      BY <2>s, <3>1, <3>2 DEF NamesNext
    <3>5. \A k \in 1 .. n : place'[y[k]].cluster = p /\ place'[y[k]].blob = k - 1
      BY <2>s, <3>2, <3>3, <3>4
    <3>6. y[n + 1] = b /\ Len(y) = n + 1 /\ (n + 1) - 1 = n
      BY <2>s, <3>3
    <3>7. \A k \in 1 .. Len(y) : k \in 1 .. n \/ k = n + 1
      BY <3>6
    <3>8. NamesNext(y, p)
      BY <2>s, <3>5, <3>6, <3>7 DEF NamesNext
    <3> QED
      BY <1>e, <2>s, <3>3, <3>8
  <2>6. ASSUME NEW k \in 1 .. Len(chunks) PROVE NamesNext(chunks[k].blobs, clustersList[k])
    BY <1>t, <1>n, <2>3
  <2> QED
    BY <2>s, <2>4, <2>5, <2>6
<1>2. CASE ~AddItemContent
  <2>1. /\ place' = place
        /\ Len(clusters') = Len(clusters) \/ (Reopen /\ Len(clusters') = Len(clusters) + 1)
        /\ \A p \in 1 .. Len(clusters) : Evolves(clusters[p], clusters'[p])
        /\ Reopen => clusters'[Len(clusters) + 1] = NewCluster(call.comp /\ Compression)
    BY <1>2, ClusterSteps
  <2>2. \A s, q : NamesNext(s, q) <=> Names(s, q)
    BY <2>1 DEF Names, NamesNext
  <2>3. ASSUME NEW p \in 1 .. Len(clusters) PROVE NamesNext(clusters'[p].content, p) /\ NamesNext(clusters'[p].zip, p)
    <3>1. /\ clusters'[p].content = clusters[p].content \/ clusters'[p].content = <<>>
          /\ \/ clusters'[p].zip = clusters[p].zip
             \/ clusters'[p].zip = clusters[p].content
             \/ clusters'[p].zip = <<>>
      BY <2>1 DEF Evolves
    <3> QED
      BY <1>n, <1>e, <2>2, <3>1
  <2>4. Reopen => /\ NamesNext(clusters'[Len(clusters) + 1].content, Len(clusters) + 1)
                  /\ NamesNext(clusters'[Len(clusters) + 1].zip, Len(clusters) + 1)
    <3>1. \A c : NewCluster(c).content = <<>> /\ NewCluster(c).zip = <<>>
      BY DEF NewCluster
    <3> QED
      BY <1>e, <2>1, <3>1
  <2>5. \A k \in 1 .. Len(chunks') : NamesNext(chunks'[k].blobs, clustersList'[k])
    <3>1. \A k \in 1 .. Len(clustersList) : clustersList'[k] = clustersList[k]
      BY ChunkSteps
    <3>2. \A k \in 1 .. Len(chunks) : NamesNext(chunks[k].blobs, clustersList'[k])
      BY <1>t, <1>n, <2>2, <3>1
    <3>3. CASE chunks' # chunks
      <4>1. /\ writerCluster \in 1 .. Len(clusters)
            /\ chunks' = Append(chunks, ClusterChunk(clusters[writerCluster]))
            /\ ClusterChunk(clusters[writerCluster]) \in ChunkType
            /\ Len(chunks) + 1 \in 1 .. Len(clustersList)
            /\ writerCluster = clustersList[Len(chunks) + 1]
        BY <3>3, ChunkSteps
      <4>2. /\ Len(chunks') = Len(chunks) + 1
            /\ chunks'[Len(chunks) + 1] = ClusterChunk(clusters[writerCluster])
            /\ \A k \in 1 .. Len(chunks) : chunks'[k] = chunks[k]
            /\ \A k \in 1 .. Len(chunks') : k \in 1 .. Len(chunks) \/ k = Len(chunks) + 1
        BY <1>t, <4>1, AppendSeq
      <4>3. \/ ClusterChunk(clusters[writerCluster]).blobs = clusters[writerCluster].content
            \/ ClusterChunk(clusters[writerCluster]).blobs = clusters[writerCluster].zip
        BY DEF ClusterChunk
      <4>4. NamesNext(ClusterChunk(clusters[writerCluster]).blobs, writerCluster)
        BY <1>n, <2>2, <4>1, <4>3
      <4>5. clustersList'[Len(chunks) + 1] = writerCluster
        BY <3>1, <4>1
      <4>6. NamesNext(chunks'[Len(chunks) + 1].blobs, clustersList'[Len(chunks) + 1])
        BY <4>2, <4>4, <4>5
      <4> QED
        BY <3>2, <4>2, <4>6
    <3> QED
      BY <3>2, <3>3
  <2>6. \A p \in 1 .. Len(clusters') : p \in 1 .. Len(clusters) \/ (Reopen /\ p = Len(clusters) + 1)
    BY <1>t, <2>1
  <2> QED
    BY <2>3, <2>4, <2>5, <2>6
<1> QED
  BY <1>1, <1>2

-----------------------------------------------------------------------------
(* EmptyInv *)

\* Only closeCluster replaces an open cluster.
LEMMA OpenSteps ==
  ASSUME IInv, [Next]_vars, ~Reopen
  PROVE  compCluster' = compCluster /\ uncompCluster' = uncompCluster /\ isExtended' = isExtended
<1> USE DEF mainVars, dataVars, workerVars, writerVars, queueVars, liveVars, threadVars,
           fileVars, outVars, mainOnly, NullPtr
<1>1. ASSUME NEW i \in Items, AddItem(i) PROVE UNCHANGED <<compCluster, uncompCluster, isExtended>>
  BY <1>1 DEF AddItem
<1> QED
  BY <1>1, OtherThreads DEF Next, Main, vars, FinishZimCreation, AddItemData, AddItemContent, HandleItem, TaskWait,
     TaskPush, ClusterWait, ClusterPush, StopHandler, HandlersStopped, CloseLastComp, CloseLastUncomp,
     CloseLastCluster, WaitClusterTasks, QuitWorkers, JoinWorkers, JoinWriter, WriteTables, WriteHeader,
     Rename, Terminated

\* finishZimCreation gets past an open cluster only when it is empty or replaced.
LEMMA PastSteps ==
  ASSUME IInv, [Next]_vars, ~Reopen
  PROVE  /\ PastComp' => PastComp \/ clusters[compCluster].count = 0
         /\ PastUncomp' => PastUncomp \/ clusters[uncompCluster].count = 0
<1> USE DEF mainVars, dataVars, workerVars, writerVars, queueVars, liveVars, threadVars,
           fileVars, outVars, mainOnly, NullPtr
<1> DEFINE Goal == /\ PastComp' => PastComp \/ clusters[compCluster].count = 0
                   /\ PastUncomp' => PastUncomp \/ clusters[uncompCluster].count = 0
<1>t. call \in CallType /\ compCluster \in 1 .. Len(clusters) /\ uncompCluster \in 1 .. Len(clusters)
  BY DEF IInv, TypeOK
<1> SUFFICES Goal
  OBVIOUS
<1>1. ASSUME NEW i \in Items, AddItem(i) PROVE Goal
  BY <1>1 DEF AddItem, NoCall, PastComp, PastUncomp, Quitting, Draining
<1>2. CASE FinishZimCreation \/ AddItemContent \/ HandlersStopped
  BY <1>2 DEF FinishZimCreation, AddItemContent, HandlersStopped, PastComp, PastUncomp, Quitting, Draining, IInv, ClosingInv
<1>3. CASE StopHandler
  BY <1>3 DEF StopHandler, NoCall, PastComp, PastUncomp, Quitting, Draining
<1>4. CASE TaskWait \/ ClusterWait \/ WaitClusterTasks \/ JoinWorkers \/ JoinWriter
  BY <1>4 DEF TaskWait, ClusterWait, WaitClusterTasks, JoinWorkers, JoinWriter, PastComp, PastUncomp, Quitting, Draining
<1>5. CASE HandleItem
  <2>1. mainPc' = "taskWait" /\ call'.push.kind = "index" /\ call'.closing = 0
    BY <1>5, <1>t DEF HandleItem, IndexTask, CallType, IInv, ClosingInv
  <2> QED
    BY <2>1 DEF PastComp, PastUncomp, Quitting, Draining
<1>6. CASE QuitWorkers
  BY <1>6 DEF QuitWorkers, PastComp, PastUncomp, Draining
<1>7. CASE TaskPush \/ ClusterPush
  BY <1>7 DEF TaskPush, ClusterPush, PastComp, PastUncomp, Quitting, Draining, IInv, ClosingInv
<1>8. CASE WriteTables \/ WriteHeader \/ Rename
  BY <1>8 DEF WriteTables, WriteHeader, Rename, PastComp, PastUncomp, Draining
<1>c. ASSUME NEW c \in BOOLEAN, NEW r \in {"addContent", "closeUncomp", "waitTasks"}, CloseCluster(c, r)
      PROVE  mainPc' = "taskWait" /\ call'.push.kind = "cluster" /\ call'.closing # 0 /\ call'.ret = r
  BY <1>c, <1>t DEF CloseCluster, OpenCluster, CallType, ClusterTask
<1>9. CASE AddItemData
  <2>1. CASE CloseCluster(call.comp, "addContent")
    <3>1. mainPc' = "taskWait" /\ call'.push.kind = "cluster" /\ call'.closing # 0 /\ call'.ret = "addContent"
      BY <1>c, <1>t, <2>1 DEF CallType
    <3> QED
      BY <3>1 DEF PastComp, PastUncomp, Quitting, Draining
  <2>2. CASE mainPc' = "addContent" /\ call' = call
    BY <1>9, <2>2 DEF AddItemData, PastComp, PastUncomp, Quitting, Draining, IInv, ClosingInv
  <2> QED
    BY <1>9, <2>1, <2>2 DEF AddItemData
<1>10. CASE CloseLastComp
  <2>1. CASE CloseCluster(TRUE, "closeUncomp")
    <3>1. mainPc' = "taskWait" /\ call'.push.kind = "cluster" /\ call'.closing # 0 /\ call'.ret = "closeUncomp"
      BY <1>c, <2>1
    <3> QED
      BY <3>1 DEF PastComp, PastUncomp, Quitting, Draining
  <2>2. CASE mainPc' = "closeUncomp" /\ clusters[compCluster].count = 0
    BY <2>2 DEF PastUncomp, Quitting, Draining
  <2> QED
    BY <1>10, <2>1, <2>2 DEF CloseLastComp, CloseLastCluster, OpenCluster
<1>11. CASE CloseLastUncomp
  <2>0. PastComp
    BY <1>11 DEF CloseLastUncomp, CloseLastCluster, PastComp
  <2>1. CASE CloseCluster(FALSE, "waitTasks")
    <3>1. mainPc' = "taskWait" /\ call'.push.kind = "cluster" /\ call'.closing # 0 /\ call'.ret = "waitTasks"
      BY <1>c, <2>1
    <3> QED
      BY <2>0, <3>1 DEF PastUncomp, Quitting, Draining
  <2>2. CASE clusters[uncompCluster].count = 0
    BY <2>0, <2>2
  <2> QED
    BY <1>11, <2>1, <2>2 DEF CloseLastUncomp, CloseLastCluster, OpenCluster
<1>12. CASE (\E w \in Workers : taskRunner(w)) \/ clusterWriter \/ Terminated \/ UNCHANGED vars
  <2>1. UNCHANGED <<call, mainPc>>
    BY <1>12, OtherThreads DEF Terminated, vars
  <2> QED
    BY <2>1 DEF PastComp, PastUncomp, Quitting
<1> QED
  BY <1>1, <1>2, <1>3, <1>4, <1>5, <1>6, <1>7, <1>8, <1>9, <1>10, <1>11, <1>12 DEF Next, Main

\* What closeCluster is called with when finishZimCreation calls it.
ClosesInOrder ==
  call.closing # NullPtr => /\ call.ret = "closeUncomp" => call.comp
                            /\ call.ret = "waitTasks" => ~call.comp

\* No other step starts closeCluster.
LEMMA ClosesInOrderStep == ASSUME IInv, ClosesInOrder, [Next]_vars PROVE ClosesInOrder'
<1> USE DEF mainVars, dataVars, workerVars, writerVars, queueVars, liveVars, threadVars,
           fileVars, outVars, mainOnly, NullPtr
<1>t. call \in CallType
  BY DEF IInv, TypeOK
<1>1. ASSUME NEW i \in Items, AddItem(i) PROVE ClosesInOrder'
  BY <1>1 DEF AddItem, NoCall, ClosesInOrder
<1>2. CASE StopHandler \/ Reopen
  BY <1>2, <1>t DEF StopHandler, Reopen, NoCall, CallType, ClosesInOrder
<1>3. CASE HandleItem \/ QuitWorkers
  BY <1>3, <1>t DEF HandleItem, QuitWorkers, CallType, ClosesInOrder
<1>4. ASSUME NEW c \in BOOLEAN, NEW r \in {"addContent", "closeUncomp", "waitTasks"}, CloseCluster(c, r)
      PROVE  call'.comp = c /\ call'.ret = r
  BY <1>4, <1>t DEF CloseCluster, CallType
<1>5. CASE AddItemData \/ CloseLastComp \/ CloseLastUncomp
  <2>0. call.comp \in BOOLEAN
    BY <1>t DEF CallType
  <2>1. CASE CloseCluster(call.comp, "addContent")
    BY <1>4, <2>0, <2>1 DEF ClosesInOrder
  <2>2. CASE CloseCluster(TRUE, "closeUncomp")
    BY <1>4, <2>2 DEF ClosesInOrder
  <2>3. CASE CloseCluster(FALSE, "waitTasks")
    BY <1>4, <2>3 DEF ClosesInOrder
  <2>4. CASE call' = call
    BY <2>4 DEF ClosesInOrder
  <2> QED
    BY <1>5, <2>1, <2>2, <2>3, <2>4 DEF AddItemData, CloseLastComp, CloseLastUncomp, CloseLastCluster
<1>6. CASE call' = call
  BY <1>6 DEF ClosesInOrder
<1> QED
  BY <1>1, <1>2, <1>3, <1>5, <1>6, OtherThreads DEF Next, Main, vars, FinishZimCreation, AddItemContent, TaskWait,
     TaskPush, ClusterWait, ClusterPush, HandlersStopped, WaitClusterTasks, JoinWorkers, JoinWriter, WriteTables,
     WriteHeader, Rename, Terminated

\* Every step keeps EmptyInv: the cluster that closeCluster opens is empty, and
\* after the handlers nothing is stored.
LEMMA EmptyStep == ASSUME IInv, EmptyInv, [Next]_vars PROVE EmptyInv'
<1> USE DEF NullPtr
<1>o. ClosesInOrder'
  BY ClosesInOrderStep DEF ClosesInOrder, EmptyInv
<1>t. compCluster \in 1 .. Len(clusters) /\ uncompCluster \in 1 .. Len(clusters) /\ call \in CallType
      /\ Len(clusters) \in Nat
  BY DEF IInv, TypeOK
<1>1. CASE AddItemContent
  <2>1. ~PastComp' /\ ~PastUncomp'
    BY <1>1 DEF AddItemContent, PastComp, PastUncomp, Quitting, Draining, IInv, ClosingInv
  <2> QED
    BY <1>o, <2>1 DEF EmptyInv, ClosesInOrder
<1>2. CASE Reopen
  <2>1. /\ mainPc = "reopen" /\ call.closing # 0 /\ call.ret \in {"addContent", "closeUncomp", "waitTasks"}
        /\ mainPc' = call.ret /\ call'.closing = 0 /\ ~AddItemContent
        /\ IF call.comp THEN compCluster' = Len(clusters) + 1 /\ uncompCluster' = uncompCluster
                        ELSE uncompCluster' = Len(clusters) + 1 /\ compCluster' = compCluster
    BY <1>2, <1>t DEF Reopen, AddItemContent, IInv, ClosingInv, MainInv, CallType
  <2>2. /\ \A p \in 1 .. Len(clusters) : clusters'[p].count = clusters[p].count
        /\ clusters'[Len(clusters) + 1].count = 0
    BY <1>2, <2>1, ClusterSteps DEF Evolves, NewCluster
  <2>3. call.ret = "addContent" => ~PastComp' /\ ~PastUncomp'
    BY <2>1 DEF PastComp, PastUncomp, Quitting, Draining
  <2>4. call.ret = "closeUncomp" => call.comp /\ ~PastUncomp'
    BY <2>1 DEF EmptyInv, PastUncomp, Quitting, Draining
  <2>5. call.ret = "waitTasks" => ~call.comp /\ clusters[compCluster].count = 0
    BY <2>1 DEF EmptyInv, PastComp
  <2>6. PastComp' => clusters'[compCluster'].count = 0
    BY <1>t, <2>1, <2>2, <2>3, <2>4, <2>5
  <2>7. PastUncomp' => clusters'[uncompCluster'].count = 0
    BY <1>t, <2>1, <2>2, <2>3, <2>4, <2>5
  <2> QED
    BY <1>o, <2>6, <2>7 DEF EmptyInv, ClosesInOrder
<1>3. CASE ~AddItemContent /\ ~Reopen
  <2>1. \A p \in 1 .. Len(clusters) : clusters'[p].count = clusters[p].count
    BY <1>3, ClusterSteps DEF Evolves
  <2>2. compCluster' = compCluster /\ uncompCluster' = uncompCluster
    BY <1>3, OpenSteps
  <2>3. PastComp' => clusters[compCluster].count = 0
    BY <1>3, PastSteps DEF EmptyInv
  <2>4. PastUncomp' => clusters[uncompCluster].count = 0
    BY <1>3, PastSteps DEF EmptyInv
  <2>5. PastComp' => clusters'[compCluster'].count = 0
    BY <1>t, <2>1, <2>2, <2>3
  <2>6. PastUncomp' => clusters'[uncompCluster'].count = 0
    BY <1>t, <2>1, <2>2, <2>4
  <2> QED
    BY <1>o, <2>5, <2>6 DEF EmptyInv, ClosesInOrder
<1> QED
  BY <1>1, <1>2, <1>3

-----------------------------------------------------------------------------
(* TableInv *)

\* What the parts about the clusters in the file need of the types.
LEMMA ListFacts ==
  ASSUME IInv
  PROVE  /\ Len(clusters) \in Nat /\ Len(clustersList) \in Nat /\ Len(chunks) \in Nat
         /\ Len(chunks) <= Len(clustersList)
         /\ \A p \in 1 .. Len(clusters) : /\ clusters[p] \in ClusterType /\ clusters[p].count \in Nat
                                          /\ clusters[p].blobOffsets \in Seq(Nat)
                                          /\ clusters[p].compressed \in BOOLEAN
         /\ \A k \in 1 .. Len(chunks) : chunks[k] \in ChunkType /\ k \in 1 .. Len(clustersList)
         /\ chunks \in Seq(ChunkType)
         /\ \A k \in 1 .. Len(clustersList) : clustersList[k] \in 1 .. Len(clusters) /\ clustersList[k] \in Numbered
         /\ \A j, k \in 1 .. Len(clustersList) : clustersList[j] = clustersList[k] => j = k
         /\ compCluster \in 1 .. Len(clusters) /\ uncompCluster \in 1 .. Len(clusters)
<1>1. Len(chunks) <= Len(clustersList) /\ Len(chunks) \in Nat /\ Len(clustersList) \in Nat
  BY ChunksNumbered DEF IInv
<1>2. clusters \in Seq(ClusterType) /\ chunks \in Seq(ChunkType) /\ clustersList \in Seq(1 .. Len(clusters))
  BY DEF IInv, TypeOK
<1>3. \A c \in ClusterType : c.count \in Nat /\ c.blobOffsets \in Seq(Nat) /\ c.compressed \in BOOLEAN
  BY DEF ClusterType
<1>4. /\ Len(clusters) \in Nat
      /\ \A p \in 1 .. Len(clusters) : clusters[p] \in ClusterType
      /\ \A k \in 1 .. Len(chunks) : chunks[k] \in ChunkType
      /\ \A k \in 1 .. Len(clustersList) : clustersList[k] \in 1 .. Len(clusters)
  BY <1>2
<1>5. \A k \in 1 .. Len(chunks) : k \in 1 .. Len(clustersList)
  BY <1>1
<1>6. \A j, k \in 1 .. Len(clustersList) : clustersList[j] = clustersList[k] => j = k
  BY DEF IInv, OpenInv
<1>7. compCluster \in 1 .. Len(clusters) /\ uncompCluster \in 1 .. Len(clusters)
  BY DEF IInv, TypeOK
<1>8. \A k \in 1 .. Len(clustersList) : clustersList[k] \in Numbered
  BY DEF Numbered
<1> QED
  BY <1>1, <1>2, <1>3, <1>4, <1>5, <1>6, <1>7, <1>8

\* A cluster that is in the file stays there.
LEMMA InFileStep ==
  ASSUME IInv, [Next]_vars
  PROVE  /\ \A p : InFile(p) => InFile(p)'
         /\ Len(chunks') \in Nat /\ Len(chunks') >= Len(chunks)
         /\ \A k \in 1 .. Len(chunks) : chunks'[k] = chunks[k] /\ clustersList'[k] = clustersList[k]
         /\ chunks' # chunks =>
              /\ Len(chunks') = Len(chunks) + 1
              /\ chunks'[Len(chunks) + 1] = ClusterChunk(clusters[clustersList[Len(chunks) + 1]])
              /\ clustersList'[Len(chunks) + 1] = clustersList[Len(chunks) + 1]
              /\ clustersList[Len(chunks) + 1] \in 1 .. Len(clusters)
              /\ ~InFile(clustersList[Len(chunks) + 1])
              /\ ~AddItemContent /\ writerPc # "clearData"
<1>1. chunks' = chunks \/ chunks' # chunks
  OBVIOUS
<1>2. \A k \in 1 .. Len(clustersList) : clustersList'[k] = clustersList[k]
  BY ChunkSteps
<1>3. \A k \in 1 .. Len(chunks) : clustersList'[k] = clustersList[k]
  BY <1>2, ListFacts
<1>4. CASE chunks' = chunks
  <2>1. \A p : InFile(p) => InFile(p)'
    BY <1>3, <1>4 DEF InFile
  <2> QED
    BY <1>3, <1>4, <2>1, ListFacts
<1>5. CASE chunks' # chunks
  <2>1. /\ WriteCluster /\ writerCluster \in 1 .. Len(clusters)
        /\ chunks' = Append(chunks, ClusterChunk(clusters[writerCluster]))
        /\ ClusterChunk(clusters[writerCluster]) \in ChunkType
        /\ Len(chunks) + 1 \in 1 .. Len(clustersList)
        /\ writerCluster = clustersList[Len(chunks) + 1]
    BY <1>5, ChunkSteps
  <2>2. /\ Len(chunks') = Len(chunks) + 1
        /\ chunks'[Len(chunks) + 1] = ClusterChunk(clusters[writerCluster])
        /\ \A k \in 1 .. Len(chunks) : chunks'[k] = chunks[k]
    BY <2>1, AppendSeq, ListFacts
  <2>3. \A p : InFile(p) => InFile(p)'
    <3>1. \A k \in 1 .. Len(chunks) : k \in 1 .. Len(chunks')
      BY <2>2, ListFacts
    <3> QED
      BY <1>3, <3>1 DEF InFile
  <2>4. ~InFile(clustersList[Len(chunks) + 1])
    <3>1. ASSUME NEW k \in 1 .. Len(chunks), clustersList[k] = clustersList[Len(chunks) + 1] PROVE FALSE
      <4>1. k \in 1 .. Len(clustersList) /\ k # Len(chunks) + 1
        BY ListFacts
      <4> QED
        BY <2>1, <3>1, <4>1, ListFacts
    <3> QED
      BY <3>1 DEF InFile
  <2>5. ~AddItemContent /\ writerPc # "clearData"
    <3>1. writerPc = "writeCluster" /\ writerPc' = "clearData"
      BY <2>1 DEF WriteCluster
    <3> QED
      BY <3>1 DEF AddItemContent, threadVars, writerVars
  <2> QED
    BY <1>2, <1>3, <2>1, <2>2, <2>3, <2>4, <2>5, ListFacts
<1> QED
  BY <1>1, <1>4, <1>5

\* What a step that does not store a blob leaves of a cluster that is not yet in
\* the file.
LEMMA TableKept ==
  ASSUME IInv, [Next]_vars, ~AddItemContent, NEW p \in 1 .. Len(clusters)
  PROVE  /\ clusters'[p].compressed = clusters[p].compressed /\ clusters'[p].count = clusters[p].count
         /\ clusters'[p].extended = clusters[p].extended
         /\ ~clusters[p].compressed /\ ~InFile(p) => clusters'[p].blobOffsets = clusters[p].blobOffsets
<1>1. /\ Evolves(clusters[p], clusters'[p])
      /\ KeepsTable(clusters[p], clusters'[p]) \/ (writerPc = "clearData" /\ p = writerCluster)
  BY ClusterSteps
<1>2. writerPc = "clearData" => InFile(writerCluster)
  BY ListFacts DEF InFile, IInv, WriterInv
<1> QED
  BY <1>1, <1>2 DEF Evolves, KeepsTable

\* Every step keeps TableInv.
LEMMA TableStep == ASSUME IInv, TableInv, [Next]_vars PROVE TableInv'
<1> USE DEF NullPtr
<1>m. \A p : InFile(p) => InFile(p)'
  BY InFileStep
<1>i. /\ ~clusters[uncompCluster].compressed
      /\ \A p \in 1 .. Len(clusters) : ~clusters[p].compressed /\ ~InFile(p) =>
           Len(clusters[p].blobOffsets) = clusters[p].count + 1
      /\ \A k \in 1 .. Len(chunks) :
           /\ chunks[k].extended = clusters[clustersList[k]].extended
           /\ ~clusters[clustersList[k]].compressed =>
                Len(chunks[k].offsets) = clusters[clustersList[k]].count + 1
  BY DEF TableInv
<1>1. CASE AddItemContent
  <2>1. PICK p \in 1 .. Len(clusters), b \in Blobs, n \in Nat : Stores(p, b, n)
    BY <1>1, StoreStep
  <2>2. /\ p \notin Numbered /\ Len(clusters') = Len(clusters)
        /\ \A q \in 1 .. Len(clusters) : q # p => clusters'[q] = clusters[q]
        /\ clusters'[p].compressed = clusters[p].compressed /\ clusters'[p].count = n + 1
        /\ Len(clusters'[p].blobOffsets) = n + 2
        /\ uncompCluster' = uncompCluster /\ clustersList' = clustersList /\ chunks' = chunks
    BY <2>1 DEF Stores
  <2>3. ~clusters'[uncompCluster'].compressed
    BY <1>i, <2>2, ListFacts
  <2>4. ASSUME NEW q \in 1 .. Len(clusters), ~clusters'[q].compressed, ~InFile(q)'
        PROVE  Len(clusters'[q].blobOffsets) = clusters'[q].count + 1
    <3>1. CASE q = p
      BY <2>2, <3>1
    <3>2. CASE q # p
      BY <1>i, <1>m, <2>2, <2>4, <3>2
    <3> QED
      BY <3>1, <3>2
  <2>5. \A k \in 1 .. Len(chunks) : clusters'[clustersList[k]] = clusters[clustersList[k]]
    BY <2>2, ListFacts
  <2> QED
    BY <1>i, <2>2, <2>3, <2>4, <2>5 DEF TableInv
<1>2. CASE ~AddItemContent
  <2>1. /\ Len(clusters') = Len(clusters) \/ (Reopen /\ Len(clusters') = Len(clusters) + 1)
        /\ Reopen => clusters'[Len(clusters) + 1] = NewCluster(call.comp /\ Compression)
    BY <1>2, ClusterSteps
  <2>2. \A p \in 1 .. Len(clusters) :
          /\ clusters'[p].compressed = clusters[p].compressed /\ clusters'[p].count = clusters[p].count
          /\ clusters'[p].extended = clusters[p].extended
          /\ ~clusters[p].compressed /\ ~InFile(p) => clusters'[p].blobOffsets = clusters[p].blobOffsets
    BY <1>2, TableKept
  <2>3. ~clusters'[uncompCluster'].compressed
    <3>1. CASE Reopen /\ ~call.comp
      <4>1. uncompCluster' = Len(clusters) + 1
        BY <3>1 DEF Reopen
      <4>2. NewCluster(call.comp /\ Compression).compressed = FALSE
        BY <3>1 DEF NewCluster
      <4> QED
        BY <2>1, <3>1, <4>1, <4>2
    <3>2. CASE ~(Reopen /\ ~call.comp)
      <4>1. uncompCluster' = uncompCluster
        BY <3>2, OpenSteps DEF Reopen
      <4> QED
        BY <1>i, <2>2, <4>1, ListFacts
    <3> QED
      BY <3>1, <3>2
  <2>4. ASSUME NEW q \in 1 .. Len(clusters'), ~clusters'[q].compressed, ~InFile(q)'
        PROVE  Len(clusters'[q].blobOffsets) = clusters'[q].count + 1
    <3>1. CASE q \in 1 .. Len(clusters)
      BY <1>i, <1>m, <2>2, <2>4, <3>1
    <3>2. CASE q = Len(clusters) + 1 /\ Reopen
      <4>1. \A c : NewCluster(c).blobOffsets = <<0>> /\ NewCluster(c).count = 0
        BY DEF NewCluster
      <4>2. Len(<<0>>) = 0 + 1
        OBVIOUS
      <4>3. clusters'[q].blobOffsets = <<0>> /\ clusters'[q].count = 0
        BY <2>1, <3>2, <4>1
      <4> QED
        BY <4>2, <4>3
    <3> QED
      BY <2>1, <3>1, <3>2, ListFacts
  <2>5. ASSUME NEW k \in 1 .. Len(chunks)
        PROVE  /\ chunks'[k].extended = clusters'[clustersList'[k]].extended
               /\ ~clusters'[clustersList'[k]].compressed =>
                    Len(chunks'[k].offsets) = clusters'[clustersList'[k]].count + 1
    <3>1. clustersList[k] \in 1 .. Len(clusters) /\ clustersList'[k] = clustersList[k] /\ chunks'[k] = chunks[k]
      BY ListFacts, InFileStep
    <3> QED
      BY <1>i, <2>2, <3>1
  <2>6. ASSUME chunks' # chunks, NEW k, k = Len(chunks) + 1
        PROVE  /\ chunks'[k].extended = clusters'[clustersList'[k]].extended
               /\ ~clusters'[clustersList'[k]].compressed =>
                    Len(chunks'[k].offsets) = clusters'[clustersList'[k]].count + 1
    <3>1. PICK p \in 1 .. Len(clusters) : p = clustersList[k] /\ clustersList'[k] = p /\ ~InFile(p)
                                          /\ chunks'[k] = ClusterChunk(clusters[p])
      BY <2>6, InFileStep
    <3>2. /\ ClusterChunk(clusters[p]).extended = clusters[p].extended
          /\ ~clusters[p].compressed => ClusterChunk(clusters[p]).offsets = clusters[p].blobOffsets
      BY DEF ClusterChunk
    <3> QED
      BY <1>i, <2>2, <3>1, <3>2
  <2>7. \A k \in 1 .. Len(chunks') : k \in 1 .. Len(chunks) \/ (chunks' # chunks /\ k = Len(chunks) + 1)
    BY InFileStep, ListFacts
  <2> QED
    BY <2>3, <2>4, <2>5, <2>6, <2>7 DEF TableInv
<1> QED
  BY <1>1, <1>2

-----------------------------------------------------------------------------
(* TitleInv *)

\* Every step keeps TitleInv: finishZimCreation notes the offset when the listing
\* is stored, the cluster keeps its table until it is written, and so does the file.
LEMMA TitleStep ==
  ASSUME IInv, PlacedInv, TableInv, TitleInv, [Next]_vars
  PROVE  TitleInv'
<1> USE DEF NullPtr
<1>b. "listingV0" \in Blobs /\ "listingV0" \notin Items
  BY ConstantsAssumption DEF Blobs, HandlerNames
<1>y. place["listingV0"].cluster \in 0 .. Len(clusters) /\ place["listingV0"].blob \in Nat
  BY <1>b DEF IInv, TypeOK
<1>0. PICK p \in 0 .. Len(clusters), n \in Nat : p = place["listingV0"].cluster /\ n = place["listingV0"].blob + 1
  BY <1>y
<1>n. n \in Nat /\ n >= 1
  BY <1>0, <1>y
<1>i. p # 0 =>
        /\ ~clusters[p].compressed
        /\ n <= clusters[p].count
        /\ ~InFile(p) => clusters[p].blobOffsets[n] = titleListBlobOffset
        /\ \A k \in 1 .. Len(chunks) : clustersList[k] = p => chunks[k].offsets[n] = titleListBlobOffset
  BY <1>0 DEF TitleInv
<1>m. \A q : InFile(q) => InFile(q)'
  BY InFileStep
<1>1. CASE AddItemContent
  <2>1. PICK o \in 1 .. Len(clusters), b \in Blobs, j \in Nat : Stores(o, b, j)
    BY <1>1, StoreStep
  <2>2. /\ o = OpenCluster(call.comp) /\ b = call.blob
        /\ o \notin Numbered /\ Len(clusters') = Len(clusters) /\ clusters[o].count = j
        /\ place'[b].cluster = o /\ place'[b].blob = j
        /\ \A x \in Blobs : x # b => place'[x] = place[x]
        /\ \A q \in 1 .. Len(clusters) : q # o => clusters'[q] = clusters[q]
        /\ clusters'[o].compressed = clusters[o].compressed /\ clusters'[o].count = j + 1
        /\ \A k \in 1 .. j + 1 : clusters'[o].blobOffsets[k] = clusters[o].blobOffsets[k]
        /\ clustersList' = clustersList /\ chunks' = chunks
        /\ b = "listingV0" => titleListBlobOffset' = clusters[o].blobOffsets[j + 1]
        /\ b # "listingV0" => titleListBlobOffset' = titleListBlobOffset
    BY <2>1 DEF Stores
  <2>3. \A k \in 1 .. Len(chunks) : clustersList[k] # o
    BY <2>2, ListFacts
  <2>4. CASE b = "listingV0"
    <3>1. ~call.comp
      <4>1. mainPc = "addContent" /\ handler # 0 /\ handler \in Nat
        BY <1>1, <1>b, <2>2, <2>4 DEF AddItemContent, IInv, MainInv, TypeOK
      <4> QED
        BY <4>1 DEF PlacedInv, Storing
    <3>2. ~clusters[o].compressed
      BY <2>2, <3>1 DEF TableInv, OpenCluster
    <3>3. j + 1 \in 1 .. j + 1 /\ j + 1 <= j + 1
      OBVIOUS
    <3>4. clusters'[o].blobOffsets[j + 1] = titleListBlobOffset'
      BY <2>2, <2>4, <3>3
    <3>5. place'["listingV0"].cluster = o /\ place'["listingV0"].blob = j
      BY <2>2, <2>4
    <3> QED
      BY <2>2, <2>3, <3>2, <3>3, <3>4, <3>5 DEF TitleInv
  <2>5. CASE b # "listingV0"
    <3>1. place'["listingV0"] = place["listingV0"] /\ titleListBlobOffset' = titleListBlobOffset
      BY <1>b, <2>2, <2>5
    <3>2. ASSUME p # 0
          PROVE  /\ ~clusters'[p].compressed
                 /\ n <= clusters'[p].count
                 /\ ~InFile(p)' => clusters'[p].blobOffsets[n] = titleListBlobOffset
      <4>1. CASE p = o
        <5>1. n \in 1 .. j + 1 /\ n <= j + 1
          BY <1>i, <1>n, <2>2, <3>2, <4>1
        <5>2. clusters'[p].blobOffsets[n] = clusters[p].blobOffsets[n]
          BY <2>2, <4>1, <5>1
        <5> QED
          BY <1>i, <1>m, <2>2, <3>2, <4>1, <5>1, <5>2
      <4>2. CASE p # o
        <5>1. clusters'[p] = clusters[p]
          BY <2>2, <3>2, <4>2
        <5> QED
          BY <1>i, <1>m, <3>2, <5>1
      <4> QED
        BY <4>1, <4>2
    <3> QED
      BY <1>0, <1>i, <2>2, <3>1, <3>2 DEF TitleInv
  <2> QED
    BY <2>4, <2>5
<1>2. CASE ~AddItemContent
  <2>1. place' = place /\ titleListBlobOffset' = titleListBlobOffset
    BY <1>2, ClusterSteps
  <2>2. ASSUME p # 0
        PROVE  /\ ~clusters'[p].compressed
               /\ n <= clusters'[p].count
               /\ ~InFile(p)' => clusters'[p].blobOffsets[n] = titleListBlobOffset
               /\ \A k \in 1 .. Len(chunks') : clustersList'[k] = p => chunks'[k].offsets[n] = titleListBlobOffset
    <3>1. /\ clusters'[p].compressed = clusters[p].compressed /\ clusters'[p].count = clusters[p].count
          /\ ~clusters[p].compressed /\ ~InFile(p) => clusters'[p].blobOffsets = clusters[p].blobOffsets
      BY <1>2, <2>2, TableKept
    <3>2. ASSUME NEW k \in 1 .. Len(chunks), clustersList'[k] = p PROVE chunks'[k].offsets[n] = titleListBlobOffset
      <4>1. clustersList'[k] = clustersList[k] /\ chunks'[k] = chunks[k]
        BY InFileStep
      <4> QED
        BY <1>i, <2>2, <3>2, <4>1
    <3>3. ASSUME chunks' # chunks, NEW k, k = Len(chunks) + 1, clustersList'[k] = p
          PROVE  chunks'[k].offsets[n] = titleListBlobOffset
      <4>1. ~InFile(p) /\ chunks'[k] = ClusterChunk(clusters[p])
        BY <3>3, InFileStep
      <4>2. ClusterChunk(clusters[p]).offsets = clusters[p].blobOffsets
        BY <1>i, <2>2 DEF ClusterChunk
      <4> QED
        BY <1>i, <2>2, <4>1, <4>2
    <3>4. \A k \in 1 .. Len(chunks') : k \in 1 .. Len(chunks) \/ (chunks' # chunks /\ k = Len(chunks) + 1)
      BY InFileStep, ListFacts
    <3> QED
      BY <1>i, <1>m, <2>2, <3>1, <3>2, <3>3, <3>4
  <2> QED
    BY <1>0, <2>1, <2>2 DEF TitleInv
<1> QED
  BY <1>1, <1>2

-----------------------------------------------------------------------------
(* ExtendedInv *)

\* Every step keeps ExtendedInv: closeCluster numbers a cluster first and adds its
\* format to isExtended when it opens the next one.
LEMMA ExtendedStep == ASSUME IInv, IInv', ExtendedInv, [Next]_vars PROVE ExtendedInv'
<1> USE DEF NullPtr, mainVars, dataVars, workerVars, writerVars, queueVars, liveVars, threadVars,
           fileVars, outVars, mainOnly
<1>t. /\ call \in CallType /\ clustersList \in Seq(1 .. Len(clusters)) /\ Len(clustersList) \in Nat
      /\ compCluster \in 1 .. Len(clusters) /\ uncompCluster \in 1 .. Len(clusters)
  BY DEF IInv, TypeOK
<1>i. isExtended <=> \E k \in 1 .. Len(clustersList) :
                       clustersList[k] # call.closing /\ clusters[clustersList[k]].extended
  BY DEF ExtendedInv
<1>f. \A k \in 1 .. Len(clustersList) : clusters'[clustersList[k]].extended = clusters[clustersList[k]].extended
  <2>1. CASE AddItemContent
    <3>1. PICK p \in 1 .. Len(clusters), b \in Blobs, n \in Nat : Stores(p, b, n)
      BY <2>1, StoreStep
    <3>2. p \notin Numbered /\ \A q \in 1 .. Len(clusters) : q # p => clusters'[q] = clusters[q]
      BY <3>1 DEF Stores
    <3> QED
      BY <3>2, ListFacts
  <2>2. CASE ~AddItemContent
    BY <2>2, TableKept, ListFacts
  <2> QED
    BY <2>1, <2>2
<1>1. ASSUME NEW c \in BOOLEAN, NEW r, CloseCluster(c, r), call.closing = 0, ~Reopen PROVE ExtendedInv'
  <2>1. PICK p \in 1 .. Len(clusters) : p = OpenCluster(c) /\ clustersList' = Append(clustersList, p) /\ call'.closing = p
    BY <1>1, <1>t DEF CloseCluster, OpenCluster, CallType
  <2>2. p \notin Numbered
    BY <1>1, <1>t, <2>1 DEF OpenCluster, IInv, OpenInv
  <2>3. /\ Len(clustersList') = Len(clustersList) + 1 /\ clustersList'[Len(clustersList) + 1] = p
        /\ \A k \in 1 .. Len(clustersList) : clustersList'[k] = clustersList[k]
    BY <1>t, <2>1, AppendSeq
  <2>4. \A k \in 1 .. Len(clustersList) : clustersList[k] # p /\ clustersList[k] # 0
    BY <2>2, ListFacts
  <2>5. isExtended' = isExtended
    BY <1>1, OpenSteps
  <2>6. \A k \in 1 .. Len(clustersList) : k \in 1 .. Len(clustersList')
    BY <1>t, <2>3
  <2>7. \A k \in 1 .. Len(clustersList') : k \in 1 .. Len(clustersList) \/ k = Len(clustersList) + 1
    BY <1>t, <2>3
  <2> QED
    BY SMTT(30), <1>1, <1>i, <1>f, <2>1, <2>3, <2>4, <2>5, <2>6, <2>7 DEF ExtendedInv
<1>2. CASE Reopen
  <2>1. /\ clustersList' = clustersList /\ call'.closing = 0 /\ call.closing # 0
        /\ isExtended' = (isExtended \/ clusters[call.closing].extended)
    BY <1>2, <1>t DEF Reopen, ExtendedSoFar, CallType, IInv, ClosingInv
  <2>2. PICK l \in 1 .. Len(clustersList) : clustersList[l] = call.closing
    BY <1>t, <2>1 DEF IInv, ClosingInv
  <2>3. \A k \in 1 .. Len(clustersList) : clustersList[k] # 0
    BY ListFacts
  <2>4. isExtended' <=> \E k \in 1 .. Len(clustersList) : clusters[clustersList[k]].extended
    BY <1>i, <2>1, <2>2
  <2> QED
    BY <1>f, <2>1, <2>3, <2>4 DEF ExtendedInv
<1>3. ASSUME clustersList' = clustersList, call'.closing = call.closing, ~Reopen PROVE ExtendedInv'
  <2>1. isExtended' = isExtended
    BY <1>3, OpenSteps
  <2> QED
    BY <1>3, <1>i, <1>f, <2>1 DEF ExtendedInv
<1>c. mainPc # "reopen" => ~Reopen
  BY DEF Reopen
<1>4. ASSUME NEW i \in Items, AddItem(i) PROVE ExtendedInv'
  <2>1. call'.closing = call.closing /\ clustersList' = clustersList /\ ~Reopen
    BY <1>4, <1>t, <1>c DEF AddItem, NoCall, IInv, ClosingInv
  <2> QED
    BY <1>3, <2>1
<1>5. CASE StopHandler \/ HandleItem \/ QuitWorkers
  <2>1. call'.closing = call.closing /\ clustersList' = clustersList /\ ~Reopen
    BY <1>5, <1>t, <1>c DEF StopHandler, HandleItem, QuitWorkers, NoCall, CallType, IInv, ClosingInv
  <2> QED
    BY <1>3, <2>1
<1>6. CASE AddItemData \/ CloseLastComp \/ CloseLastUncomp
  <2>0. call.closing = 0 /\ ~Reopen /\ call.comp \in BOOLEAN
    BY <1>6, <1>t, <1>c DEF AddItemData, CloseLastComp, CloseLastUncomp, CloseLastCluster, CallType, IInv, ClosingInv
  <2>1. CASE call' = call /\ clustersList' = clustersList
    BY <1>3, <2>0, <2>1
  <2>2. CASE CloseCluster(call.comp, "addContent") \/ CloseCluster(TRUE, "closeUncomp") \/ CloseCluster(FALSE, "waitTasks")
    BY <1>1, <2>0, <2>2
  <2> QED
    BY <1>6, <2>1, <2>2 DEF AddItemData, CloseLastComp, CloseLastUncomp, CloseLastCluster
<1>7. CASE UNCHANGED <<call, clustersList>> /\ ~Reopen
  BY <1>3, <1>7
<1> QED
  BY <1>2, <1>4, <1>5, <1>6, <1>7, OtherThreads DEF Next, Main, vars, FinishZimCreation, AddItemContent, TaskWait,
     TaskPush, ClusterWait, ClusterPush, HandlersStopped, WaitClusterTasks, JoinWorkers, JoinWriter, WriteTables,
     WriteHeader, Rename, Terminated

-----------------------------------------------------------------------------
(* EndInv *)

\* The null pointer has been pushed for the writer thread, or is about to be.
Stopped == mainPc \in Drained \/ (mainPc \in {"clusterWait", "clusterPush"} /\ call.closing = NullPtr)

\* JoinWorkers is the only way to the end of the writer thread.
LEMMA StoppedStep ==
  ASSUME IInv, [Next]_vars, Stopped'
  PROVE  Stopped \/ (\A w \in Workers : workerPc[w] = "exited")
<1> USE DEF NullPtr, mainVars, dataVars, workerVars, writerVars, queueVars, liveVars, threadVars,
           fileVars, outVars, mainOnly
<1>t. call \in CallType
  BY DEF IInv, TypeOK
<1>1. ASSUME NEW i \in Items, AddItem(i) PROVE FALSE
  BY <1>1 DEF AddItem, Stopped, Drained
<1>2. CASE FinishZimCreation \/ AddItemContent \/ HandleItem \/ StopHandler \/ HandlersStopped \/ WaitClusterTasks
           \/ QuitWorkers \/ TaskWait
  BY <1>2 DEF FinishZimCreation, AddItemContent, HandleItem, StopHandler, HandlersStopped, WaitClusterTasks,
     QuitWorkers, TaskWait, Stopped, Drained
<1>3. CASE AddItemData \/ CloseLastComp \/ CloseLastUncomp
  BY <1>3 DEF AddItemData, CloseLastComp, CloseLastUncomp, CloseLastCluster, CloseCluster, Stopped, Drained
<1>4. CASE TaskPush
  BY <1>4 DEF TaskPush, Stopped, Drained, IInv, ClosingInv
<1>5. CASE ClusterWait \/ ClusterPush \/ JoinWriter \/ WriteTables \/ WriteHeader \/ Rename
  BY <1>5 DEF ClusterWait, ClusterPush, JoinWriter, WriteTables, WriteHeader, Rename, Stopped, Drained
<1>6. CASE Reopen
  BY <1>6, <1>t DEF Reopen, Stopped, Drained, CallType
<1>7. CASE JoinWorkers
  BY <1>7 DEF JoinWorkers
<1>8. CASE (\E w \in Workers : taskRunner(w)) \/ clusterWriter \/ Terminated \/ UNCHANGED vars
  <2>1. UNCHANGED <<call, mainPc>>
    BY <1>8, OtherThreads DEF Terminated, vars
  <2> QED
    BY <2>1 DEF Stopped
<1> QED
  BY <1>1, <1>2, <1>3, <1>4, <1>5, <1>6, <1>7, <1>8 DEF Next, Main

\* A thread that has ended does nothing more.
LEMMA ExitedStays ==
  ASSUME IInv, [Next]_vars, NEW w \in Workers, workerPc[w] = "exited"
  PROVE  workerPc'[w] = "exited" /\ ~taskRunner(w)
<1> USE DEF mainVars, dataVars, workerVars, writerVars, queueVars, liveVars, threadVars,
           fileVars, outVars, mainOnly
<1>1. ~taskRunner(w)
  BY DEF taskRunner, PopTask, RunClusterTask, SetClosed, RunIndexTask, AddDocument, DeleteTask
<1>2. ASSUME NEW v \in Workers, taskRunner(v) PROVE workerPc'[w] = workerPc[w]
  <2>1. v # w
    BY <1>1, <1>2
  <2>2. \E x : workerPc' = [workerPc EXCEPT ![v] = x]
    BY <1>2, ZenonT(30) DEF taskRunner, PopTask, RunClusterTask, SetClosed, RunIndexTask, AddDocument, DeleteTask
  <2>3. workerPc \in [Workers -> {"pop", "run", "setClosed", "addDocument", "delete", "exited"}]
    BY DEF IInv, TypeOK
  <2> QED
    BY <2>1, <2>2, <2>3
<1>3. ASSUME NEW i \in Items, AddItem(i) PROVE workerPc' = workerPc
  BY <1>3 DEF AddItem
<1>4. CASE workerPc' = workerPc
  BY <1>1, <1>4
<1> QED
  BY <1>1, <1>2, <1>3, <1>4 DEF Next, Main, vars, FinishZimCreation, AddItemData, AddItemContent, HandleItem,
     TaskWait, TaskPush, ClusterWait, ClusterPush, Reopen, StopHandler, HandlersStopped, CloseLastComp,
     CloseLastUncomp, CloseLastCluster, CloseCluster, WaitClusterTasks, QuitWorkers, JoinWorkers, JoinWriter, WriteTables,
     WriteHeader, Rename, Terminated, clusterWriter, GetHead, IsClosed, PopCluster, WriteCluster, ClearData,
     writerUnchanged

\* The full text database has been closed, if there is one.
IndexClosed == WithIndex /\ (handler > 2 \/ (handler = 2 /\ call.blob = "fulltextIndex")) => ~db.open

\* Only the second handler closes it, and nobody opens it again.
LEMMA IndexClosedStep == ASSUME IInv, PlacedInv, IndexClosed, [Next]_vars PROVE IndexClosed'
<1> USE DEF NullPtr, mainVars, dataVars, workerVars, writerVars, queueVars, liveVars, threadVars,
           fileVars, outVars, mainOnly
<1>t. call \in CallType /\ handler \in Nat /\ db \in [open : BOOLEAN, documents : SUBSET Items]
  BY DEF IInv, TypeOK
<1>1. ASSUME NEW i \in Items, AddItem(i) PROVE IndexClosed'
  BY <1>1 DEF AddItem, IInv, MainInv, IndexClosed
<1>2. CASE FinishZimCreation
  BY <1>2 DEF FinishZimCreation, IndexClosed
<1>3. CASE AddItemContent
  <2>1. mainPc = "addContent" /\ call' = call /\ db' = db /\ (handler' = handler \/ handler' = handler + 1)
        /\ (handler' = handler + 1 => call.blob \notin Items)
    BY <1>3, <1>t DEF AddItemContent
  <2>2. CASE handler' = handler
    BY <2>1, <2>2 DEF IndexClosed
  <2>3. CASE handler' = handler + 1
    <3>1. handler > 0 /\ handler <= Len(Handlers) /\ call.blob = Handlers[handler]
      BY <1>t, <2>1, <2>3 DEF IInv, MainInv, PlacedInv, Storing
    <3>2. handler \in 1 .. Len(Handlers)
      BY <1>t, <3>1, HandlersFacts
    <3>3. WithIndex /\ handler = 2 => call.blob = "fulltextIndex"
      BY <3>1, HandlersFacts
    <3>4. handler = 1 => call.blob # "fulltextIndex"
      BY <3>1, <3>2, HandlersFacts
    <3> QED
      BY <1>t, <2>1, <2>3, <3>1, <3>3, <3>4 DEF IndexClosed
  <2> QED
    BY <2>1, <2>2, <2>3
<1>4. CASE StopHandler
  <2>1. handler' = handler /\ handler <= Len(Handlers) /\ handler > 0
    BY <1>4, <1>t DEF StopHandler, IInv, MainInv, FinishPcs
  <2>2. call'.blob = Handlers[handler]
    BY <1>4 DEF StopHandler, NoCall
  <2>3. db'.open = FALSE \/ (db' = db /\ Handlers[handler] # "fulltextIndex")
    BY <1>4, <1>t DEF StopHandler
  <2> QED
    BY <1>t, <2>1, <2>2, <2>3 DEF IndexClosed
<1>5. CASE HandleItem \/ QuitWorkers \/ Reopen
  <2>1. call'.blob = call.blob /\ handler' = handler /\ db' = db
    BY <1>5, <1>t DEF HandleItem, QuitWorkers, Reopen, CallType
  <2> QED
    BY <2>1 DEF IndexClosed
<1>6. ASSUME NEW c, NEW r, CloseCluster(c, r) PROVE call'.blob = call.blob
  BY <1>6, <1>t DEF CloseCluster, CallType
<1>7. CASE AddItemData \/ CloseLastComp \/ CloseLastUncomp
  <2>1. call'.blob = call.blob /\ handler' = handler /\ db' = db
    BY <1>6, <1>7 DEF AddItemData, CloseLastComp, CloseLastUncomp, CloseLastCluster
  <2> QED
    BY <2>1 DEF IndexClosed
<1>8. CASE TaskWait \/ TaskPush \/ ClusterWait \/ ClusterPush \/ HandlersStopped \/ WaitClusterTasks \/ JoinWorkers
           \/ JoinWriter \/ WriteTables \/ WriteHeader \/ Rename \/ clusterWriter \/ Terminated \/ UNCHANGED vars
  <2>1. call' = call /\ handler' = handler /\ db' = db
    BY <1>8 DEF TaskWait, TaskPush, ClusterWait, ClusterPush, HandlersStopped, WaitClusterTasks, JoinWorkers,
       JoinWriter, WriteTables, WriteHeader, Rename, clusterWriter, GetHead, IsClosed, PopCluster, WriteCluster,
       ClearData, writerUnchanged, Terminated, vars
  <2> QED
    BY <2>1 DEF IndexClosed
<1>9. ASSUME NEW w \in Workers, taskRunner(w) PROVE IndexClosed'
  <2>1. UNCHANGED <<call, handler>>
    BY <1>9, OtherThreads
  <2>2. db'.open = db.open
    BY <1>9, <1>t DEF taskRunner, PopTask, RunClusterTask, SetClosed, RunIndexTask, AddDocument, DeleteTask
  <2> QED
    BY <2>1, <2>2 DEF IndexClosed
<1> QED
  BY <1>1, <1>2, <1>3, <1>4, <1>5, <1>7, <1>8, <1>9 DEF Next, Main

\* The checksum and the final name come with the steps of main that make them.
LEMMA FileEndStep ==
  ASSUME IInv, [Next]_vars, checksum <=> mainPc \in {"rename", "done"}, zimName <=> mainPc = "done"
  PROVE  (checksum' <=> mainPc' \in {"rename", "done"}) /\ (zimName' <=> mainPc' = "done")
<1> USE DEF NullPtr, mainVars, dataVars, workerVars, writerVars, queueVars, liveVars, threadVars,
           fileVars, outVars, mainOnly
<1>t. checksum \in BOOLEAN /\ zimName \in BOOLEAN
  BY DEF IInv, TypeOK
<1> DEFINE Goal == (checksum' <=> mainPc' \in {"rename", "done"}) /\ (zimName' <=> mainPc' = "done")
<1>1. ASSUME NEW i \in Items, AddItem(i) PROVE Goal
  BY <1>1 DEF AddItem
<1>2. CASE WriteTables \/ WriteHeader \/ Rename
  BY <1>2, <1>t DEF WriteTables, WriteHeader, Rename
<1>3. CASE FinishZimCreation \/ AddItemContent \/ HandleItem \/ StopHandler \/ HandlersStopped \/ WaitClusterTasks
           \/ QuitWorkers \/ TaskWait \/ TaskPush \/ ClusterWait \/ ClusterPush \/ JoinWorkers \/ JoinWriter
  BY <1>3 DEF FinishZimCreation, AddItemContent, HandleItem, StopHandler, HandlersStopped, WaitClusterTasks,
     QuitWorkers, TaskWait, TaskPush, ClusterWait, ClusterPush, JoinWorkers, JoinWriter
<1>4. CASE AddItemData \/ CloseLastComp \/ CloseLastUncomp
  <2>1. ASSUME NEW c, NEW r, CloseCluster(c, r) PROVE mainPc' = "taskWait"
    BY <2>1 DEF CloseCluster
  <2>2. /\ mainPc \in {"addItemData", "closeComp", "closeUncomp"} /\ UNCHANGED <<checksum, zimName>>
        /\ mainPc' \in {"addContent", "taskWait", "closeUncomp", "waitTasks"}
    BY <1>4, <2>1 DEF AddItemData, CloseLastComp, CloseLastUncomp, CloseLastCluster
  <2> QED
    BY <2>2
<1>5. CASE Reopen
  BY <1>5 DEF Reopen, IInv, ClosingInv, MainInv
<1>6. CASE (\E w \in Workers : taskRunner(w)) \/ clusterWriter \/ Terminated \/ UNCHANGED vars
  <2>1. UNCHANGED <<mainPc, checksum, zimName>>
    BY <1>6, OtherThreads DEF Terminated, vars
  <2> QED
    BY <2>1
<1> QED
  BY <1>1, <1>2, <1>3, <1>4, <1>5, <1>6 DEF Next, Main

\* Every step keeps EndInv.
LEMMA EndStep == ASSUME IInv, PlacedInv, EndInv, [Next]_vars PROVE EndInv'
<1>1. Stopped' => \A w \in Workers : workerPc'[w] = "exited"
  <2>1. Stopped => \A w \in Workers : workerPc[w] = "exited"
    BY DEF EndInv, Stopped
  <2>2. Stopped' => \A w \in Workers : workerPc[w] = "exited"
    BY <2>1, StoppedStep
  <2> QED
    BY <2>2, ExitedStays
<1>2. IndexClosed'
  BY IndexClosedStep DEF EndInv, IndexClosed
<1>3. (checksum' <=> mainPc' \in {"rename", "done"}) /\ (zimName' <=> mainPc' = "done")
  BY FileEndStep DEF EndInv
<1> QED
  BY <1>1, <1>2, <1>3 DEF EndInv, Stopped, IndexClosed

-----------------------------------------------------------------------------
(* TablesInv *)

\* The states of main from the one in which the tables are in the file.
Closing == {"header", "rename", "done"}

\* By then the writer thread and the workers have ended.
LEMMA AloneAtEnd ==
  ASSUME IInv, EndInv, mainPc \in {"write", "header", "rename", "done"}
  PROVE  ~clusterWriter /\ \A w \in Workers : workerPc[w] = "exited" /\ ~taskRunner(w)
<1>1. writerPc = "exited"
  BY DEF IInv, WriterInv
<1>2. \A w \in Workers : workerPc[w] = "exited"
  BY DEF EndInv, Drained
<1>3. ~clusterWriter
  BY <1>1 DEF clusterWriter, GetHead, IsClosed, PopCluster, WriteCluster, ClearData
<1>4. \A w \in Workers : ~taskRunner(w)
  BY <1>2 DEF taskRunner, PopTask, RunClusterTask, SetClosed, RunIndexTask, AddDocument, DeleteTask
<1> QED
  BY <1>2, <1>3, <1>4

\* What main does then: it writes the tables, the header, and renames the file.
LEMMA ClosingSteps ==
  ASSUME IInv, EndInv, [Next]_vars, mainPc' \in Closing
  PROVE  /\ UNCHANGED <<added, clusters, clustersList, place, isExtended, titleListBlobOffset, chunks, db, handler>>
         /\ \/ WriteTables
            \/ /\ UNCHANGED <<tables, header>> /\ mainPc \in Closing
               /\ Rename \/ zimName' = zimName
<1> USE DEF mainVars, dataVars, workerVars, writerVars, queueVars, liveVars, threadVars,
           fileVars, outVars, mainOnly, Closing
<1> DEFINE Goal == /\ UNCHANGED <<added, clusters, clustersList, place, isExtended, titleListBlobOffset, chunks, db, handler>>
                   /\ \/ WriteTables
                      \/ /\ UNCHANGED <<tables, header>> /\ mainPc \in Closing
                         /\ Rename \/ zimName' = zimName
<1>1. ASSUME NEW i \in Items, AddItem(i) PROVE FALSE
  BY <1>1 DEF AddItem
<1>2. CASE FinishZimCreation \/ AddItemContent \/ HandleItem \/ StopHandler \/ HandlersStopped \/ WaitClusterTasks
           \/ QuitWorkers \/ TaskWait \/ TaskPush \/ ClusterWait \/ ClusterPush \/ JoinWorkers \/ JoinWriter
  BY <1>2 DEF FinishZimCreation, AddItemContent, HandleItem, StopHandler, HandlersStopped, WaitClusterTasks,
     QuitWorkers, TaskWait, TaskPush, ClusterWait, ClusterPush, JoinWorkers, JoinWriter
<1>3. CASE AddItemData \/ CloseLastComp \/ CloseLastUncomp
  <2>1. ASSUME NEW c, NEW r, CloseCluster(c, r) PROVE mainPc' = "taskWait"
    BY <2>1 DEF CloseCluster
  <2> QED
    BY <1>3, <2>1 DEF AddItemData, CloseLastComp, CloseLastUncomp, CloseLastCluster
<1>4. CASE Reopen
  BY <1>4 DEF Reopen, IInv, ClosingInv, MainInv
<1>5. CASE WriteTables
  BY <1>5 DEF WriteTables
<1>6. CASE WriteHeader
  BY <1>6 DEF WriteHeader
<1>7. CASE Rename
  BY <1>7 DEF Rename
<1>8. CASE Terminated \/ UNCHANGED vars
  BY <1>8 DEF Terminated, vars
<1>9. CASE (\E w \in Workers : taskRunner(w)) \/ clusterWriter
  <2>1. mainPc' = mainPc
    BY <1>9, OtherThreads
  <2> QED
    BY <1>9, <2>1, AloneAtEnd
<1> QED
  BY <1>1, <1>2, <1>3, <1>4, <1>5, <1>6, <1>7, <1>8, <1>9 DEF Next, Main

\* Every step keeps TablesInv.
LEMMA TablesStep == ASSUME IInv, EndInv, TablesInv, [Next]_vars PROVE TablesInv'
<1>1. CASE mainPc' \in Closing
  <2>1. UNCHANGED <<added, clusters, clustersList, place, isExtended, titleListBlobOffset>>
    BY <1>1, ClosingSteps
  <2>2. FillHeader' = FillHeader /\ WrittenTables' = WrittenTables
    BY <2>1 DEF FillHeader, WrittenTables, Entries, DataOffset, OffsetWidth
  <2>3. CASE WriteTables
    BY <2>2, <2>3 DEF WriteTables, TablesInv
  <2>4. CASE UNCHANGED <<tables, header>> /\ mainPc \in Closing
    BY <2>2, <2>4 DEF TablesInv, Closing
  <2> QED
    BY <1>1, <2>3, <2>4, ClosingSteps
<1>2. CASE mainPc' \notin Closing
  BY <1>2 DEF TablesInv, Closing
<1> QED
  BY <1>1, <1>2

-----------------------------------------------------------------------------
(* AInv is an invariant *)

\* Nothing is stored when startZimCreation returns.
LEMMA InitAInv == Init => AInv
<1> SUFFICES ASSUME Init PROVE AInv
  OBVIOUS
<1> USE DEF NullPtr
<1>c. /\ Len(clusters) = 2 /\ clusters[1] = NewCluster(Compression) /\ clusters[2] = NewCluster(FALSE)
  BY DEF Init
<1>d. \A p \in 1 .. Len(clusters) : p = 1 \/ p = 2
  BY <1>c
<1>n. \A c : /\ NewCluster(c).content = <<>> /\ NewCluster(c).zip = <<>> /\ NewCluster(c).count = 0
             /\ NewCluster(c).blobOffsets = <<0>> /\ NewCluster(c).compressed = c
  BY DEF NewCluster
<1>i. /\ mainPc = "api" /\ call.closing = 0 /\ call.blob = "listingV0" /\ handler = 0 /\ added = {} /\ uncompCluster = 2
      /\ Len(clustersList) = 0 /\ Len(chunks) = 0 /\ isExtended = FALSE /\ checksum = FALSE /\ zimName = FALSE
      /\ \A b \in Blobs : place[b].cluster = 0
  BY DEF Init, NoCall
<1>s. ~Storing /\ ~PastHandlers /\ ~PastComp /\ ~PastUncomp
  BY <1>i DEF Storing, PastHandlers, PastComp, PastUncomp, Quitting, Draining
<1>1. PlacedInv
  <2>1. \A i \in Items : i \in Blobs
    BY DEF Blobs
  <2>2. \A h \in 1 .. Len(Handlers) : place[Handlers[h]].cluster = 0 /\ ~(h < 0)
    BY <1>i, HandlersFacts
  <2> QED
    BY <1>i, <1>s, <2>1, <2>2 DEF PlacedInv
<1>2. EmptyInv
  BY <1>i, <1>s DEF EmptyInv
<1>3. NamesInv
  <2>1. \A q : Names(<<>>, q)
    BY DEF Names
  <2>2. \A p \in 1 .. Len(clusters) : Names(clusters[p].content, p) /\ Names(clusters[p].zip, p)
    <3>1. \A p \in 1 .. Len(clusters) : clusters[p].content = <<>> /\ clusters[p].zip = <<>>
      BY <1>c, <1>d, <1>n
    <3> QED
      BY <2>1, <3>1
  <2> QED
    BY <1>i, <2>2 DEF NamesInv
<1>4. TableInv
  <2>1. Len(<<0>>) = 0 + 1
    OBVIOUS
  <2>2. \A p \in 1 .. Len(clusters) : Len(clusters[p].blobOffsets) = clusters[p].count + 1
    BY ZenonT(60), <1>c, <1>d, <1>n, <2>1
  <2>3. ~clusters[uncompCluster].compressed
    BY <1>c, <1>i, <1>n
  <2> QED
    BY <1>i, <2>2, <2>3 DEF TableInv
<1>5. TitleInv
  <2>1. place["listingV0"].cluster = 0
    BY <1>i DEF Blobs, HandlerNames
  <2> QED
    BY <2>1 DEF TitleInv
<1>6. ExtendedInv
  BY <1>i DEF ExtendedInv
<1>7. EndInv /\ TablesInv
  BY <1>i DEF EndInv, TablesInv, Drained
<1> QED
  BY <1>1, <1>2, <1>3, <1>4, <1>5, <1>6, <1>7 DEF AInv

\* CreatorPipeline keeps AInv: each accepted entry is stored once, nothing is left
\* in an open cluster, and what main noted about a cluster is still true of it
\* when the tables and the header are written.
THEOREM ArchiveInvariance == Spec => []AInv
<1>1. Init => AInv
  BY InitAInv
<1>2. IInv /\ IInv' /\ AInv /\ [Next]_vars => AInv'
  <2> SUFFICES ASSUME IInv, IInv', AInv, [Next]_vars PROVE AInv'
    OBVIOUS
  <2>1. PlacedInv' /\ EmptyInv' /\ NamesInv' /\ TableInv'
    BY PlacedStep, EmptyStep, NamesStep, TableStep DEF AInv
  <2>2. TitleInv' /\ ExtendedInv' /\ EndInv' /\ TablesInv'
    BY TitleStep, ExtendedStep, EndStep, TablesStep DEF AInv
  <2> QED
    BY <2>1, <2>2 DEF AInv
<1> QED
  BY <1>1, <1>2, Invariance, PTL DEF Spec

\* Both invariants together: what the threads hold, and what they leave in the
\* file, for any number of workers and any calls of addItem.
THEOREM PipelineInvariance == Spec => []PipelineInv
<1>1. IInv /\ AInv => PipelineInv
  BY DEF PipelineInv
<1> QED
  BY <1>1, Invariance, ArchiveInvariance, PTL

-----------------------------------------------------------------------------
(* What the archive is when finishZimCreation has written its tables *)

\* Every numbered cluster is in the file.
LEMMA AllWritten ==
  ASSUME IInv, mainPc \in Closing
  PROVE  Len(chunks) = Len(clustersList)
<1>1. writerPc = "exited" /\ mainPc \in Drained
  BY DEF IInv, WriterInv, Closing, Drained
<1>2. Len(clusterToWrite) = 1 /\ InFlight = 0 /\ NullAtEnd = 1
  BY <1>1 DEF IInv, WriterInv, InFlight, NullAtEnd
<1>3. ToPush = 0
  BY DEF Closing, IInv, ClosingInv, ToPush
<1>4. Len(chunks) + 0 + 1 + 0 = Len(clustersList) + 1
  BY <1>2, <1>3 DEF IInv, QueueInv
<1> QED
  BY <1>4, ListFacts

\* Every entry has a blob.
LEMMA AllStored ==
  ASSUME IInv, AInv, mainPc \in Closing, NEW b \in Entries
  PROVE  b \in Blobs /\ place[b].cluster # 0
<1> USE DEF NullPtr
<1>1. call.closing = 0 /\ ~Storing /\ PastHandlers
  BY DEF Closing, Storing, PastHandlers, PastComp, PastUncomp, Draining, IInv, ClosingInv
<1>2. handler > Len(Handlers) /\ handler \in Nat
  BY <1>1 DEF AInv, PlacedInv, IInv, TypeOK
<1>3. CASE b \in added
  BY <1>1, <1>3 DEF AInv, PlacedInv, Blobs, IInv, TypeOK
<1>4. ASSUME NEW h \in 1 .. Len(Handlers), b = Handlers[h] PROVE b \in Blobs /\ place[b].cluster # 0
  <2>1. h < handler
    BY <1>2, HandlersFacts
  <2> QED
    BY <1>4, <2>1, HandlersFacts DEF AInv, PlacedInv
<1> QED
  BY <1>3, <1>4 DEF Entries

\* The blob of an entry is in the chunk of its cluster, at its blob number.
LEMMA StoredInFile ==
  ASSUME IInv, AInv, mainPc \in Closing, NEW b \in Entries
  PROVE  \E k \in 1 .. Len(chunks) :
           /\ clustersList[k] = place[b].cluster /\ place[b].blob \in Nat
           /\ place[b].blob < Len(chunks[k].blobs) /\ chunks[k].blobs[place[b].blob + 1] = b
           /\ clusters[clustersList[k]].index = k - 1 /\ clusters[clustersList[k]].offset = chunks[k].at
<1> USE DEF NullPtr
<1>1. b \in Blobs /\ place[b].cluster # 0
  BY AllStored
<1>2. PICK p : p = place[b].cluster
  OBVIOUS
<1>3. place[b].blob \in Nat
  BY <1>1 DEF IInv, TypeOK
<1>e. clusters[compCluster].count = 0 /\ clusters[uncompCluster].count = 0
  BY DEF AInv, EmptyInv, PastComp, PastUncomp, Closing, Draining
<1>4. p \in Numbered
  <2>1. SUFFICES ASSUME p \notin Numbered PROVE FALSE
    OBVIOUS
  <2>2. p \in {compCluster, uncompCluster}
    BY <1>1, <1>2, <2>1 DEF IInv, ContentInv, PlaceInv
  <2>3. ~clusters[p].closed /\ Len(clusters[p].content) = clusters[p].count
    BY <2>1, <2>2 DEF IInv, ContentInv, OpenContentInv
  <2>4. ~InSetClosed(p)
    BY AloneAtEnd DEF InSetClosed, AInv, Closing
  <2>5. Holds(clusters[p].content, p)
    BY <2>2, <2>3, <2>4 DEF IInv, ContentInv, HeldInv
  <2>6. place[b].blob < 0
    BY <1>1, <1>2, <1>e, <2>2, <2>3, <2>5 DEF Holds
  <2> QED
    BY <1>3, <2>6
<1>5. PICK k \in 1 .. Len(clustersList) : clustersList[k] = p
  BY <1>4 DEF Numbered
<1>6. k \in 1 .. Len(chunks)
  BY AllWritten
<1>7. Holds(chunks[k].blobs, clustersList[k]) /\ clusters[clustersList[k]].offset = chunks[k].at
  BY <1>6 DEF IInv, ContentInv, WrittenInv
<1>8. clusters[clustersList[k]].index = k - 1
  BY DEF IInv, OpenInv
<1>9. place[b].blob < Len(chunks[k].blobs) /\ chunks[k].blobs[place[b].blob + 1] = b
  BY <1>1, <1>2, <1>5, <1>7 DEF Holds
<1> QED
  BY <1>2, <1>3, <1>5, <1>6, <1>7, <1>8, <1>9

\* No two chunks of the file start at the same place.
LEMMA ChunksApart ==
  ASSUME IInv, NEW j \in 1 .. Len(chunks), NEW k \in 1 .. Len(chunks), chunks[j].at = chunks[k].at
  PROVE  j = k
<1>1. \A c \in ChunkType : c.at \in Nat
  BY DEF ChunkType
<1>2. chunks[j].at \in Nat /\ chunks[k].at \in Nat /\ Len(chunks) \in Nat
  BY <1>1, ListFacts
<1>3. /\ j < k => chunks[j].at < chunks[k].at
      /\ k < j => chunks[k].at < chunks[j].at
  BY DEF IInv, OffsetInv
<1> QED
  BY <1>2, <1>3

\* A reader that follows the tables finds the content of the entry and no other.
LEMMA ReadsBack ==
  ASSUME IInv, AInv, mainPc \in Closing, NEW b \in Entries
  PROVE  ReadBlob(b) = {b}
<1>1. PICK k \in 1 .. Len(chunks) :
        /\ clustersList[k] = place[b].cluster /\ place[b].blob \in Nat
        /\ place[b].blob < Len(chunks[k].blobs) /\ chunks[k].blobs[place[b].blob + 1] = b
        /\ clusters[clustersList[k]].index = k - 1 /\ clusters[clustersList[k]].offset = chunks[k].at
  BY StoredInFile
<1>2. tables = WrittenTables
  BY DEF AInv, TablesInv, Closing
<1>3. tables.dirents[b].cluster = k - 1 /\ tables.dirents[b].blob = place[b].blob
  BY <1>1, <1>2 DEF WrittenTables
<1>4. k \in 1 .. Len(clustersList) /\ (k - 1) + 1 = k
  BY ListFacts
<1>5. tables.clusterPtr[k] = chunks[k].at
  BY <1>1, <1>2, <1>4 DEF WrittenTables
<1>6. tables.clusterPtr[tables.dirents[b].cluster + 1] = chunks[k].at
  BY <1>3, <1>4, <1>5
<1>7. \A j \in 1 .. Len(chunks) : chunks[j].at = chunks[k].at => j = k
  BY ChunksApart
<1>8. ReadBlob(b) = {chunks[j].blobs[place[b].blob + 1] :
                       j \in {j \in 1 .. Len(chunks) : chunks[j].at = chunks[k].at /\ place[b].blob < Len(chunks[j].blobs)}}
  BY <1>3, <1>6, Zenon DEF ReadBlob
<1>9. {j \in 1 .. Len(chunks) : chunks[j].at = chunks[k].at /\ place[b].blob < Len(chunks[j].blobs)} = {k}
  BY <1>1, <1>7, Zenon
<1>10. ReadBlob(b) = {chunks[j].blobs[place[b].blob + 1] : j \in {k}}
  BY <1>8, <1>9, Zenon
<1> QED
  BY <1>1, <1>10

\* A file under its final name has its checksum, counts its clusters and gives
\* each entry its own content back.
THEOREM CompleteWhenNamed == Spec => []ArchiveComplete
<1>1. IInv /\ AInv => ArchiveComplete
  <2> SUFFICES ASSUME IInv, AInv, zimName
               PROVE  /\ checksum /\ header.clusterCount = Len(chunks)
                      /\ Entries \subseteq DOMAIN tables.dirents
                      /\ \A b \in Entries : ReadBlob(b) = {b}
    BY DEF ArchiveComplete
  <2>1. mainPc = "done" /\ mainPc \in Closing
    BY DEF AInv, EndInv, Closing
  <2>2. checksum
    BY <2>1 DEF AInv, EndInv
  <2>3. header = FillHeader /\ tables = WrittenTables
    BY <2>1 DEF AInv, TablesInv
  <2>4. header.clusterCount = Len(chunks)
    BY <2>1, <2>3, AllWritten DEF FillHeader
  <2>5. DOMAIN tables.dirents = Entries
    BY <2>3 DEF WrittenTables
  <2> QED
    BY <2>1, <2>2, <2>4, <2>5, ReadsBack
<1> QED
  BY <1>1, Invariance, ArchiveInvariance, PTL

\* What is in the file once is found once.
LEMMA FoundOnce ==
  ASSUME IInv, AInv, NEW b, NEW k \in 1 .. Len(chunks), NEW j \in 1 .. Len(chunks),
         NEW n \in 1 .. Len(chunks[j].blobs), clustersList[k] = place[b].cluster, chunks[j].blobs[n] = b
  PROVE  j = k /\ n = place[b].blob + 1
<1>1. place[b].cluster = clustersList[j] /\ place[b].blob = n - 1
  BY DEF AInv, NamesInv, Names
<1>2. j \in 1 .. Len(clustersList) /\ k \in 1 .. Len(clustersList)
  BY ListFacts
<1>3. j = k
  BY <1>1, <1>2, ListFacts
<1>4. n \in Int
  BY ListFacts DEF ChunkType
<1> QED
  BY <1>1, <1>3, <1>4

\* titleIdxPos is the position of the first byte of the title listing.
THEOREM TitlePointerIsExact == Spec => []TitlePointerExact
<1>1. IInv /\ AInv => TitlePointerExact
  <2> SUFFICES ASSUME IInv, AInv, checksum PROVE header.titleIdxPos = BytePos("listingV0")
    BY DEF TitlePointerExact
  <2> USE DEF NullPtr
  <2>1. mainPc \in Closing
    BY DEF AInv, EndInv, Closing
  <2>2. "listingV0" \in Entries
    BY HandlersFacts DEF Entries
  <2>3. PICK b : b = "listingV0"
    OBVIOUS
  <2>4. PICK k \in 1 .. Len(chunks) :
          /\ clustersList[k] = place[b].cluster /\ place[b].blob \in Nat
          /\ place[b].blob < Len(chunks[k].blobs) /\ chunks[k].blobs[place[b].blob + 1] = b
          /\ clusters[clustersList[k]].offset = chunks[k].at
    BY <2>1, <2>2, <2>3, StoredInFile
  <2>5. PICK p \in 1 .. Len(clusters) : p = clustersList[k]
    BY ListFacts
  <2>6. PICK n \in 1 .. Len(chunks[k].blobs) : n = place[b].blob + 1
    <3>1. Len(chunks[k].blobs) \in Nat
      BY SMTT(30), ListFacts DEF ChunkType
    <3> QED
      BY <2>4, <3>1
  <2>7. ~clusters[p].compressed /\ chunks[k].offsets[n] = titleListBlobOffset
    BY <2>3, <2>4, <2>5, <2>6 DEF AInv, TitleInv
  <2>8. Len(chunks[k].offsets) = clusters[p].count + 1 /\ chunks[k].extended = clusters[p].extended
    BY <2>5, <2>7 DEF AInv, TableInv
  <2>9. \A j \in 1 .. Len(chunks) : (\E m \in 1 .. Len(chunks[j].blobs) : chunks[j].blobs[m] = b) <=> j = k
    BY <2>4, <2>6, FoundOnce
  <2>10. (CHOOSE j \in 1 .. Len(chunks) : \E m \in 1 .. Len(chunks[j].blobs) : chunks[j].blobs[m] = b) = k
    BY <2>9
  <2>11. (CHOOSE m \in 1 .. Len(chunks[k].blobs) : chunks[k].blobs[m] = b) = n
    BY <2>4, <2>6, FoundOnce
  <2>12. BytePos(b) = chunks[k].at + 1 + Len(chunks[k].offsets) * OffsetWidth(chunks[k].extended) + chunks[k].offsets[n]
    BY <2>10, <2>11 DEF BytePos
  <2>13. PICK X : X = (clusters[p].count + 1) * OffsetWidth(clusters[p].extended)
    OBVIOUS
  <2>14. X \in Int /\ chunks[k].at \in Nat /\ titleListBlobOffset \in Nat
    <3>1. clusters[p].count \in Nat /\ OffsetWidth(clusters[p].extended) \in Nat
      BY ListFacts DEF OffsetWidth
    <3>2. \A c \in ChunkType : c.at \in Nat
      BY DEF ChunkType
    <3>3. X \in Int
      BY <2>13, <3>1
    <3> QED
      BY <3>2, <3>3, ListFacts DEF IInv, TypeOK
  <2>15. BytePos(b) = chunks[k].at + 1 + X + titleListBlobOffset
    BY <2>7, <2>8, <2>12, <2>13
  <2>16. header.titleIdxPos = chunks[k].at + (1 + X) + titleListBlobOffset
    <3>1. header = FillHeader
      BY <2>1 DEF AInv, TablesInv, Closing
    <3> QED
      BY <2>3, <2>4, <2>5, <2>13, <3>1 DEF FillHeader, DataOffset
  <2>17. chunks[k].at + 1 + X + titleListBlobOffset = chunks[k].at + (1 + X) + titleListBlobOffset
    BY <2>14
  <2>18. header.titleIdxPos = BytePos(b)
    BY <2>15, <2>16, <2>17, Zenon
  <2> QED
    BY <2>3, <2>18, Zenon
<1> QED
  BY <1>1, Invariance, ArchiveInvariance, PTL

\* The header says "extended" exactly when some cluster of the file is.
THEOREM ExtendedIsAnnounced == Spec => []ExtendedAnnounced
<1>1. IInv /\ AInv => ExtendedAnnounced
  <2> SUFFICES ASSUME IInv, AInv, checksum
               PROVE  header.extended <=> \E k \in 1 .. Len(chunks) : chunks[k].extended
    BY DEF ExtendedAnnounced
  <2> USE DEF NullPtr
  <2>1. mainPc \in Closing
    BY DEF AInv, EndInv, Closing
  <2>2. header = FillHeader
    BY <2>1 DEF AInv, TablesInv, Closing
  <2>3. header.extended = isExtended
    BY <2>2 DEF FillHeader
  <2>4. call.closing = 0
    BY <2>1 DEF Closing, IInv, ClosingInv
  <2>5. \A k \in 1 .. Len(clustersList) : clustersList[k] # call.closing
    BY <2>4, ListFacts
  <2>6. \A k \in 1 .. Len(chunks) : chunks[k].extended = clusters[clustersList[k]].extended
    BY DEF AInv, TableInv
  <2> QED
    BY <2>1, <2>3, <2>5, <2>6, AllWritten DEF AInv, ExtendedInv
<1> QED
  BY <1>1, Invariance, ArchiveInvariance, PTL

-----------------------------------------------------------------------------
(* CreatorPipeline implements ArchiveWriter *)

\* When the file gets its name the index is closed, and it is complete.
LEMMA IndexAtEnd ==
  ASSUME IInv, AInv, mainPc \in Closing, WithIndex
  PROVE  db.documents = added \cap (HasIndexData \ Metadata)
<1> USE DEF NullPtr
<1>1. PastHandlers
  BY DEF Closing, PastHandlers, PastComp, PastUncomp, Draining
<1>2. handler > Len(Handlers) /\ handler \in Nat
  BY <1>1 DEF AInv, PlacedInv, IInv, TypeOK
<1>3. handler > 2 /\ handler # 0
  BY <1>2, HandlersFacts
<1>4. ~db.open
  BY <1>3 DEF AInv, EndInv
<1>5. liveIndex = {} /\ ~BeforeIndexTask
  BY <1>3, <1>4 DEF IInv, IndexInv, BeforeIndexTask
<1>6. /\ db.documents \subseteq (added \ Metadata) \cap HasIndexData
      /\ \A i \in (added \ Metadata) \cap HasIndexData : i \in db.documents
  BY <1>5 DEF IInv, IndexInv
<1> QED
  BY <1>6

\* Which steps change what ArchiveWriter sees.
LEMMA VisibleSteps ==
  ASSUME IInv, [Next]_vars, ~FinishZimCreation, ~Rename, \A i \in Items : ~AddItem(i)
  PROVE  added' = added /\ zimName' = zimName /\ (handler' = 0 <=> handler = 0)
<1> USE DEF mainVars, dataVars, workerVars, writerVars, queueVars, liveVars, threadVars,
           fileVars, outVars, mainOnly
<1>1. CASE AddItemContent
  <2>1. handler' = handler \/ (call.blob \notin Items /\ handler' = handler + 1)
    BY <1>1 DEF AddItemContent
  <2>2. handler \in Nat /\ (call.blob \notin Items => handler # 0)
    BY <1>1 DEF AddItemContent, IInv, TypeOK, MainInv
  <2>3. added' = added /\ zimName' = zimName
    BY <1>1 DEF AddItemContent
  <2> QED
    BY <2>1, <2>2, <2>3
<1>2. CASE UNCHANGED <<added, zimName, handler>>
  BY <1>2
<1> QED
  BY <1>1, <1>2, OtherThreads DEF Next, Main, vars, AddItemData, HandleItem, TaskWait, TaskPush, ClusterWait,
     ClusterPush, Reopen, StopHandler, HandlersStopped, CloseLastComp, CloseLastUncomp, CloseLastCluster,
     WaitClusterTasks, QuitWorkers, JoinWorkers, JoinWriter, WriteTables, WriteHeader, Terminated

\* When main is done nothing changes any more.
LEMMA DoneStays == ASSUME IInv, AInv, [Next]_vars, mainPc = "done" PROVE UNCHANGED vars
<1>1. ~clusterWriter /\ ~\E w \in Workers : taskRunner(w)
  BY AloneAtEnd DEF AInv
<1>2. ASSUME Main PROVE FALSE
  <2>1. ASSUME NEW i \in Items, AddItem(i) PROVE FALSE
    BY <2>1 DEF AddItem
  <2> QED
    BY <1>2, <2>1 DEF Main, FinishZimCreation, AddItemData, AddItemContent, HandleItem, TaskWait, TaskPush, ClusterWait,
     ClusterPush, Reopen, StopHandler, HandlersStopped, CloseLastComp, CloseLastUncomp, CloseLastCluster,
     WaitClusterTasks, QuitWorkers, JoinWorkers, JoinWriter, WriteTables, WriteHeader, Rename
<1> QED
  BY <1>1, <1>2 DEF Next, Terminated

\* The safety part of ImplementsArchiveWriter: whatever the threads do, the caller
\* sees entries accepted one at a time, then the end of the acceptance, then the
\* complete archive and its index, in one step.
THEOREM ImplementsArchiveWriterSafely == Spec => Archive!SafeSpec
<1> USE DEF NullPtr
<1>1. Init => Archive!Init
  BY DEF Init, Archive!Init, creatorPhase, publishedArchive, publishedIndex
<1>2. IInv /\ AInv /\ [Next]_vars => [Archive!Next]_Archive!avars
  <2> SUFFICES ASSUME IInv, AInv, [Next]_vars
               PROVE  Archive!Next \/ UNCHANGED <<added, creatorPhase, publishedArchive, publishedIndex>>
    BY DEF Archive!avars
  <2>z. zimName <=> mainPc = "done"
    BY DEF AInv, EndInv
  <2>1. ASSUME NEW i \in Items, AddItem(i) PROVE Archive!Next
    <3>1. mainPc = "api" /\ handler = 0 /\ ~zimName /\ i \in Items \ added /\ added' = added \cup {i}
          /\ zimName' = zimName /\ handler' = handler
      BY <2>1, <2>z DEF AddItem, IInv, MainInv, outVars
    <3>2. Archive!Accept(i)
      BY <3>1 DEF Archive!Accept, creatorPhase, publishedArchive, publishedIndex
    <3> QED
      BY <3>2 DEF Archive!Next
  <2>2. CASE FinishZimCreation
    <3>1. mainPc = "api" /\ handler = 0 /\ ~zimName /\ added' = added
          /\ zimName' = zimName /\ handler' = 1
      BY <2>2, <2>z DEF FinishZimCreation, IInv, MainInv, outVars
    <3>2. Archive!Finish
      BY <3>1 DEF Archive!Finish, creatorPhase, publishedArchive, publishedIndex
    <3> QED
      BY <3>2 DEF Archive!Next
  <2>3. CASE Rename
    <3>1. mainPc = "rename" /\ ~zimName /\ zimName' /\ UNCHANGED <<added, handler, tables, chunks, db>>
      BY <2>3, <2>z DEF Rename, dataVars, fileVars
    <3>2. mainPc \in Closing /\ handler # 0
      BY <3>1 DEF Closing, IInv, MainInv, FinishPcs, Draining
    <3>3. DOMAIN tables.dirents = Entries
      BY <3>2 DEF AInv, TablesInv, WrittenTables, Closing
    <3>4. Entries = added \cup {Handlers[h] : h \in 1 .. Len(Handlers)}
      BY DEF Entries
    <3>5. \A b \in Entries : ReadBlob(b)' = {b}
      <4>1. \A b \in Entries : ReadBlob(b) = {b}
        BY <3>2, ReadsBack
      <4>2. \A b : ReadBlob(b)' = ReadBlob(b)
        BY <3>1 DEF ReadBlob
      <4> QED
        BY <4>1, <4>2
    <3>6. publishedArchive' = [b \in Entries |-> {b}]
      <4>1. publishedArchive' = [b \in DOMAIN tables'.dirents |-> ReadBlob(b)']
        BY <3>1 DEF publishedArchive
      <4>2. DOMAIN tables'.dirents = Entries
        BY <3>1, <3>3
      <4> QED
        BY <3>5, <4>1, <4>2
    <3>7. publishedIndex' = added \cap (IF WithIndex THEN HasIndexData \ Metadata ELSE {})
      BY <3>1, <3>2, IndexAtEnd DEF publishedIndex
    <3>8. creatorPhase = "finishing" /\ creatorPhase' = "published"
      BY <3>1, <3>2 DEF creatorPhase
    <3>9. Archive!Publish
      BY <3>1, <3>4, <3>6, <3>7, <3>8 DEF Archive!Publish
    <3> QED
      BY <3>9 DEF Archive!Next
  <2>4. CASE ~FinishZimCreation /\ ~Rename /\ \A i \in Items : ~AddItem(i)
    <3>1. added' = added /\ zimName' = zimName /\ (handler' = 0 <=> handler = 0)
      BY <2>4, VisibleSteps
    <3>2. CASE zimName
      <4>1. UNCHANGED vars
        BY <2>z, <3>2, DoneStays
      <4>2. UNCHANGED <<added, zimName, handler, tables, chunks, db>>
        BY <4>1 DEF vars
      <4> QED
        BY <4>2 DEF creatorPhase, publishedArchive, publishedIndex, ReadBlob
    <3>3. CASE ~zimName
      BY <3>1, <3>3 DEF creatorPhase, publishedArchive, publishedIndex
    <3> QED
      BY <3>2, <3>3
  <2> QED
    BY <2>1, <2>2, <2>3, <2>4
<1> QED
  BY <1>1, <1>2, Invariance, ArchiveInvariance, PTL DEF Spec, Archive!SafeSpec
=============================================================================
