------------------------ MODULE CreatorPipelineProofs ------------------------
(***************************************************************************)
(* Proofs that IInv is an inductive invariant of CreatorPipeline, for any  *)
(* number of workers, items and handlers' sizes and any queue bound, and   *)
(* of the properties that follow from it.  One lemma per action, named     *)
(* after it; the frame lemmas (ContentFrame, WorkerFrame, WriterFrame)     *)
(* cover the parts that the actions of a thread cannot disturb, and the    *)
(* update lemmas (NumberedUpdate, ClosedUpdate) those that change one      *)
(* cluster of the heap.                                                    *)
(***************************************************************************)
EXTENDS CreatorPipelineInvariant, TLAPS

\* The null task is a task.
LEMMA NullTaskType == NullTask \in TaskType
BY DEF NullTask, TaskType

\* The value of call between two calls of the API is a call.
LEMMA NoCallType == NoCall \in CallType
BY NullTaskType DEF NoCall, CallType, NullPtr, Blobs, HandlerNames

\* What the constructor of Cluster makes: raw, empty, not closed.
LEMMA NewClusterType ==
  ASSUME NEW c \in BOOLEAN
  PROVE  /\ NewCluster(c) \in ClusterType
         /\ ~NewCluster(c).closed
         /\ NewCluster(c).zip = <<>>
         /\ Len(NewCluster(c).content) = NewCluster(c).count
         /\ Len(NewCluster(c).blobOffsets) = NewCluster(c).count + 1
BY DEF NewCluster, ClusterType

\* The two clusters CreatorData starts with form a sequence.
LEMMA PairSeq == ASSUME NEW S, NEW x \in S, NEW y \in S
                 PROVE  <<x, y>> \in Seq(S) /\ Len(<<x, y>>) = 2
OBVIOUS

\* What Append does to a sequence, position by position.
LEMMA AppendSeq ==
  ASSUME NEW S, NEW q \in Seq(S), NEW e \in S
  PROVE  /\ Append(q, e) \in Seq(S)
         /\ Len(Append(q, e)) = Len(q) + 1
         /\ Append(q, e)[Len(q) + 1] = e
         /\ \A k \in 1 .. Len(q) : Append(q, e)[k] = q[k]
         /\ \A k \in 1 .. Len(Append(q, e)) : k \in 1 .. Len(q) \/ k = Len(q) + 1
OBVIOUS

\* What popping the head does to a sequence, position by position.
LEMMA TailSeq ==
  ASSUME NEW S, NEW q \in Seq(S), q # <<>>
  PROVE  /\ Head(q) \in S
         /\ Head(q) = q[1]
         /\ Len(q) > 0
         /\ Tail(q) \in Seq(S)
         /\ Len(Tail(q)) = Len(q) - 1
         /\ \A k \in 1 .. Len(Tail(q)) : Tail(q)[k] = q[k + 1]
OBVIOUS

\* What updating one position of a sequence leaves alone.
LEMMA UpdateSeq ==
  ASSUME NEW S, NEW q \in Seq(S), NEW i \in 1 .. Len(q), NEW e \in S
  PROVE  /\ [q EXCEPT ![i] = e] \in Seq(S)
         /\ Len([q EXCEPT ![i] = e]) = Len(q)
         /\ [q EXCEPT ![i] = e][i] = e
         /\ \A k \in 1 .. Len(q) : k # i => [q EXCEPT ![i] = e][k] = q[k]
OBVIOUS

\* Cluster::setClusterIndex changes only the number of the cluster.
LEMMA SetIndex ==
  ASSUME NEW c \in ClusterType, NEW n \in Nat
  PROVE  LET d == [c EXCEPT !.index = n]
         IN  /\ d \in ClusterType
             /\ d.compressed = c.compressed
             /\ d.content = c.content
             /\ d.blobOffsets = c.blobOffsets
             /\ d.count = c.count
             /\ d.zip = c.zip
             /\ d.closed = c.closed
             /\ d.offset = c.offset
             /\ d.extended = c.extended
             /\ d.index = n
BY DEF ClusterType

\* Each handler of the loop of finishZimCreation contributes a blob.
LEMMA HandlerBlob ==
  ASSUME NEW h \in 1 .. Len(Handlers)
  PROVE  Handlers[h] \in HandlerNames /\ Handlers[h] \in Blobs /\ Handlers[h] \notin Items
BY ConstantsAssumption DEF Handlers, HandlerNames, Blobs

\* The clusters in the file, and the one the writer thread is writing, have a
\* number.
LEMMA ChunksNumbered ==
  ASSUME TypeOK, QueueInv
  PROVE  /\ Len(chunks) \in Nat /\ Len(clustersList) \in Nat /\ InFlight \in Nat
         /\ Len(clusterToWrite) \in Nat
         /\ Len(chunks) + InFlight <= Len(clustersList)
         /\ Len(chunks) <= Len(clustersList)
<1>1. /\ Len(chunks) \in Nat /\ Len(clusterToWrite) \in Nat /\ Len(clustersList) \in Nat
      /\ InFlight \in Nat /\ ToPush \in Nat /\ NullAtEnd \in Nat
  BY DEF TypeOK, InFlight, ToPush, NullAtEnd
<1>2. Len(chunks) + InFlight + Len(clusterToWrite) + ToPush = Len(clustersList) + NullAtEnd
  BY DEF QueueInv
<1>3. NullAtEnd = 0 \/ (NullAtEnd = 1 /\ Len(clusterToWrite) > 0)
  BY DEF QueueInv, NullAtEnd
<1> QED
  BY <1>1, <1>2, <1>3

\* The state startZimCreation leaves satisfies the invariant.
LEMMA InitIInv == Init => IInv
<1> SUFFICES ASSUME Init PROVE IInv
  OBVIOUS
<1> USE ConstantsAssumption
<1>1. TypeOK
  <2>1. clusters \in Seq(ClusterType) /\ Len(clusters) = 2
    <3>1. NewCluster(Compression) \in ClusterType /\ NewCluster(FALSE) \in ClusterType
      BY NewClusterType
    <3> QED
      BY <3>1, PairSeq DEF Init
  <2>2. call \in CallType /\ workerTask \in [Workers -> TaskType]
    BY NoCallType, NullTaskType DEF Init
  <2>3. place \in [Blobs -> [cluster : 0 .. Len(clusters), blob : Nat]]
    BY <2>1 DEF Init, NullPtr
  <2>4. fileEnd \in Nat /\ chunks \in Seq(ChunkType) /\ checksum \in BOOLEAN
    <3>1. chunks = <<>> /\ fileEnd = 1024 /\ checksum = FALSE
      BY DEF Init, ClusterBaseOffset
    <3>2. 1024 \in Nat /\ <<>> \in Seq(ChunkType)
      OBVIOUS
    <3> QED
      BY ZenonT(30), <3>1, <3>2 DEF ClusterBaseOffset
  <2>5. db \in [open : BOOLEAN, documents : SUBSET Items]
    BY DEF Init
  <2>6. workerPc \in [Workers -> {"pop", "run", "setClosed", "addDocument", "delete", "exited"}]
    BY DEF Init
  <2>7. clustersList \in Seq(1 .. Len(clusters)) /\ clusterToWrite \in Seq(0 .. Len(clusters)) /\ taskList \in Seq(TaskType)
    BY DEF Init
  <2>8. added \subseteq Items /\ liveIndex \subseteq Items /\ liveCluster \subseteq Nat
    BY DEF Init
  <2>9. isExtended \in BOOLEAN /\ zimName \in BOOLEAN /\ handler \in Nat /\ poisons \in Nat /\ titleListBlobOffset \in Nat
    BY DEF Init
  <2>10. mainPc \in MainPcs /\ writerPc = "getHead" /\ writerCluster = 0 /\ compCluster = 1 /\ uncompCluster = 2
    BY DEF Init, MainPcs, NullPtr
  <2> QED
    BY <2>1, <2>2, <2>3, <2>4, <2>5, <2>6, <2>7, <2>8, <2>9, <2>10 DEF TypeOK
<1>2. MainInv /\ ClosingInv
  BY DEF Init, MainInv, ClosingInv, FinishPcs, Draining, NoCall, NullTask, NullPtr, HandlerNames
<1>3. OpenInv
  BY DEF Init, OpenInv, Numbered
<1>4. TaskInv /\ TaskClusterInv
  BY DEF Init, TaskInv, TaskClusterInv, Holding, NullTask
<1>5. QueueInv /\ WriterInv
  BY DEF Init, QueueInv, WriterInv, InFlight, ToPush, NullAtEnd, Drained, NoCall, NullPtr
<1>6. ContentInv
  <2>1. Numbered = {} /\ \A p : ~InSetClosed(p)
    BY DEF Init, Numbered, InSetClosed
  <2>2. \A p \in {1, 2} :
          /\ ~clusters[p].closed
          /\ clusters[p].zip = <<>>
          /\ Len(clusters[p].content) = clusters[p].count
          /\ Len(clusters[p].blobOffsets) = clusters[p].count + 1
    <3>1. clusters[1] = NewCluster(Compression) /\ clusters[2] = NewCluster(FALSE)
      BY DEF Init
    <3> QED
      BY <3>1, NewClusterType
  <2>3. \A b \in Blobs : place[b].cluster = NullPtr
    BY DEF Init
  <2>4. compCluster = 1 /\ uncompCluster = 2 /\ chunks = <<>> /\ clustersList = <<>>
    BY DEF Init
  <2>5. OpenContentInv
    BY <2>2, <2>4 DEF OpenContentInv
  <2>6. PlaceInv /\ ReadyInv /\ WrittenInv
    BY <2>3, <2>4 DEF PlaceInv, ReadyInv, WrittenInv
  <2>7. HeldInv
    BY <2>1, <2>3, <2>4 DEF HeldInv, Holds, NullPtr
  <2> QED
    BY <2>5, <2>6, <2>7 DEF ContentInv
<1>7. IndexInv /\ OffsetInv
  BY DEF Init, IndexInv, OffsetInv, BeforeIndexTask, NoCall, NullTask, NullPtr, Holding
<1> QED
  BY <1>1, <1>2, <1>3, <1>4, <1>5, <1>6, <1>7 DEF IInv

\* The entry of addItem only names the item; nothing is numbered yet.
LEMMA AddItemStep == ASSUME IInv, NEW i \in Items, AddItem(i) PROVE IInv'
<1> USE DEF mainVars, dataVars, workerVars, writerVars, queueVars, liveVars, threadVars,
           fileVars, outVars, mainOnly, NullPtr
<1>0. Numbered' = Numbered
  BY DEF AddItem, Numbered
<1>1. TypeOK'
  <2>1. call' \in CallType
    <3>1. (i \in Compressible) \in BOOLEAN
      OBVIOUS
    <3> QED
      BY <3>1, NullTaskType DEF AddItem, CallType, Blobs, NoCall
  <2> QED
    BY <2>1 DEF IInv, TypeOK, AddItem, MainPcs
<1>2. MainInv'
  BY DEF IInv, TypeOK, CallType, AddItem, MainInv, FinishPcs, Draining, NoCall
<1>3. ClosingInv'
  BY DEF IInv, TypeOK, CallType, AddItem, ClosingInv, NoCall
<1>4. OpenInv'
  BY <1>0 DEF IInv, TypeOK, AddItem, OpenInv, ClosingInv, NoCall
<1>5. TaskInv'
  BY DEF IInv, AddItem, TaskInv, Holding
<1>6. TaskClusterInv'
  BY DEF IInv, AddItem, TaskClusterInv, Numbered, Unprocessed
<1>6a. QueueInv'
  BY DEF IInv, TypeOK, CallType, AddItem, NoCall, ClosingInv, QueueInv, WriterInv, InFlight, ToPush, NullAtEnd, Drained
<1>7. WriterInv'
  BY DEF IInv, TypeOK, CallType, AddItem, NoCall, ClosingInv, WriterInv
<1>8. ContentInv'
  BY <1>0 DEF IInv, TypeOK, AddItem, ContentInv, OpenContentInv, PlaceInv, HeldInv, ReadyInv, WrittenInv, Holds, InSetClosed
<1>9. IndexInv'
  BY DEF IInv, TypeOK, CallType, AddItem, NoCall, IndexInv, MainInv, ClosingInv, BeforeIndexTask, Holding, FinishPcs, Draining
<1>10. OffsetInv'
  BY DEF IInv, AddItem, OffsetInv
<1> QED
  BY <1>1, <1>2, <1>3, <1>4, <1>5, <1>6, <1>6a, <1>7, <1>8, <1>9, <1>10 DEF IInv

\* ContentInv and OffsetInv only look at the heap, at the dirents, at the
\* workers and at the clusters in the file.
LEMMA ContentFrame ==
  ASSUME ContentInv, OffsetInv,
         UNCHANGED <<clusters, clustersList, compCluster, uncompCluster, place, workerPc, workerTask>>,
         chunks' = chunks, fileEnd' = fileEnd
  PROVE  ContentInv' /\ OffsetInv' /\ Numbered' = Numbered
<1>1. Numbered' = Numbered
  BY DEF Numbered
<1>2. \A p : InSetClosed(p)' <=> InSetClosed(p)
  BY DEF InSetClosed
<1>3. OpenContentInv' /\ PlaceInv'
  BY <1>1 DEF ContentInv, OpenContentInv, PlaceInv
<1>4. HeldInv'
  BY <1>1, <1>2 DEF ContentInv, HeldInv, Holds, Payload
<1>5. ReadyInv' /\ WrittenInv'
  BY DEF ContentInv, ReadyInv, WrittenInv, Holds, Payload
<1> QED
  BY <1>1, <1>3, <1>4, <1>5 DEF ContentInv, OffsetInv

\* A step of main that only moves its program counter.
LEMMA MainPcStep ==
  ASSUME IInv, UNCHANGED mainOnly,
         <<mainPc, mainPc'>> \in {<<"addItemData", "addContent">>, <<"taskWait", "taskPush">>,
                                 <<"clusterWait", "clusterPush">>, <<"stopHandlers", "closeComp">>,
                                 <<"closeComp", "closeUncomp">>, <<"closeUncomp", "waitTasks">>,
                                 <<"waitTasks", "quitWorkers">>, <<"joinWorkers", "clusterWait">>,
                                 <<"joinWriter", "write">>},
         mainPc' = "write" => writerPc = "exited"
  PROVE  IInv'
<1> USE DEF mainVars, dataVars, workerVars, writerVars, queueVars, liveVars, threadVars,
           fileVars, outVars, mainOnly, NullPtr
<1>0. ContentInv' /\ OffsetInv' /\ Numbered' = Numbered
  BY ContentFrame DEF IInv
<1>1. TypeOK'
  BY DEF IInv, TypeOK, MainPcs
<1>2. MainInv'
  BY DEF IInv, MainInv, ClosingInv, FinishPcs, Draining
<1>3. ClosingInv'
  BY DEF IInv, ClosingInv, OpenCluster
<1>4. OpenInv'
  BY <1>0 DEF IInv, OpenInv
<1>5. TaskInv'
  BY DEF IInv, TaskInv, Holding
<1>6. TaskClusterInv'
  BY <1>0 DEF IInv, TaskClusterInv, Unprocessed
<1>7. QueueInv'
  BY DEF IInv, ClosingInv, QueueInv, InFlight, ToPush, NullAtEnd, Drained
<1>8. WriterInv'
  BY DEF IInv, WriterInv
<1>9. IndexInv'
  BY DEF IInv, IndexInv, MainInv, ClosingInv, BeforeIndexTask, Holding, FinishPcs
<1> QED
  BY <1>0, <1>1, <1>2, <1>3, <1>4, <1>5, <1>6, <1>7, <1>8, <1>9 DEF IInv

\* The polling loops and joins of main only move its program counter.
LEMMA PcOnlySteps ==
  ASSUME IInv, TaskWait \/ ClusterWait \/ HandlersStopped \/ WaitClusterTasks \/ JoinWorkers \/ JoinWriter
  PROVE  IInv'
BY MainPcStep DEF TaskWait, ClusterWait, HandlersStopped, WaitClusterTasks, JoinWorkers, JoinWriter

\* The new IndexTask is counted, and differs from every task around.
LEMMA HandleItemStep == ASSUME IInv, HandleItem PROVE IInv'
<1> USE DEF mainVars, dataVars, workerVars, writerVars, queueVars, liveVars, threadVars,
           fileVars, outVars, mainOnly, NullPtr
<1>0. ContentInv' /\ OffsetInv' /\ Numbered' = Numbered
  BY ContentFrame DEF IInv, HandleItem
<1>1. TypeOK'
  <2>1. call.blob \in Items
    BY DEF IInv, HandleItem, MainInv, TypeOK
  <2>2. IndexTask(call.blob) \in TaskType
    BY <2>1 DEF IndexTask, TaskType
  <2>3. call' \in CallType
    BY <2>2 DEF IInv, TypeOK, HandleItem, CallType
  <2> QED
    BY <2>1, <2>3 DEF IInv, TypeOK, HandleItem, MainPcs
<1>2. MainInv'
  BY DEF IInv, TypeOK, CallType, HandleItem, MainInv, ClosingInv, FinishPcs, Draining, IndexTask
<1>3. ClosingInv'
  BY DEF IInv, TypeOK, CallType, HandleItem, ClosingInv, MainInv, OpenCluster, IndexTask
<1>4. OpenInv'
  BY <1>0 DEF IInv, TypeOK, HandleItem, OpenInv, ClosingInv, IndexTask
<1>5. TaskInv'
  <2>1. call' = [call EXCEPT !.push = IndexTask(call.blob)] /\ call \in CallType /\ call'.push = IndexTask(call.blob)
    BY DEF IInv, TypeOK, HandleItem, CallType
  <2>2. call.blob \notin liveIndex
    BY DEF IInv, HandleItem, IndexInv, BeforeIndexTask, MainInv
  <2>3. \A k \in 1 .. Len(taskList) : taskList[k] # IndexTask(call.blob)
    BY <2>2 DEF IInv, IndexInv, IndexTask
  <2>4. \A w \in Workers : Holding(w) => workerTask[w] # IndexTask(call.blob)
    BY <2>2 DEF IInv, IndexInv, IndexTask
  <2> QED
    BY <2>1, <2>3, <2>4 DEF IInv, HandleItem, TaskInv, Holding
<1>6. TaskClusterInv'
  BY <1>0 DEF IInv, HandleItem, TaskClusterInv, Unprocessed, IndexTask
<1>6a. QueueInv'
  BY DEF IInv, TypeOK, CallType, HandleItem, ClosingInv, QueueInv, WriterInv, InFlight, ToPush, NullAtEnd, Drained, IndexTask
<1>7. WriterInv'
  BY DEF IInv, TypeOK, CallType, HandleItem, ClosingInv, WriterInv, IndexTask
<1>8. IndexInv'
  BY DEF IInv, TypeOK, CallType, HandleItem, IndexInv, MainInv, ClosingInv, BeforeIndexTask, Holding, FinishPcs, Draining, IndexTask
<1> QED
  BY <1>0, <1>1, <1>2, <1>3, <1>4, <1>5, <1>6, <1>6a, <1>7, <1>8 DEF IInv

\* The task leaves main's hands for the end of taskList.
LEMMA TaskPushStep == ASSUME IInv, TaskPush PROVE IInv'
<1> USE DEF mainVars, dataVars, workerVars, writerVars, queueVars, liveVars, threadVars,
           fileVars, outVars, mainOnly, NullPtr
<1>0. ContentInv' /\ OffsetInv' /\ Numbered' = Numbered
  BY ContentFrame DEF IInv, TaskPush
<1>b. /\ call.push \in TaskType
      /\ taskList' \in Seq(TaskType)
      /\ Len(taskList') = Len(taskList) + 1
      /\ taskList'[Len(taskList) + 1] = call.push
      /\ \A k \in 1 .. Len(taskList) : taskList'[k] = taskList[k]
      /\ \A k \in 1 .. Len(taskList') : k \in 1 .. Len(taskList) \/ k = Len(taskList) + 1
  BY AppendSeq DEF IInv, TypeOK, TaskPush, CallType
<1>1. TypeOK'
  <2>1. /\ mainPc' \in MainPcs /\ poisons' \in Nat
        /\ UNCHANGED <<call, handler, added, clusters, dataVars, clusterToWrite, liveVars, threadVars, outVars>>
    BY DEF IInv, TypeOK, TaskPush, MainPcs
  <2> QED
    BY <1>b, <2>1 DEF IInv, TypeOK
<1>2. MainInv'
  BY DEF IInv, TypeOK, CallType, TaskPush, MainInv, ClosingInv, FinishPcs, Draining, ClusterTask
<1>3. ClosingInv'
  BY DEF IInv, TypeOK, CallType, TaskPush, ClosingInv, MainInv, OpenCluster, ClusterTask
<1>4. OpenInv'
  BY <1>0 DEF IInv, TypeOK, TaskPush, OpenInv, ClosingInv
<1>5. TaskInv'
  <2>1. UNCHANGED <<workerPc, workerTask>> /\ mainPc = "taskPush" /\ mainPc' \notin {"taskWait", "taskPush"}
    BY DEF TaskPush
  <2>2. \A j, k \in 1 .. Len(taskList') : taskList'[j] = taskList'[k] /\ taskList'[j] # NullTask => j = k
    <3>1. \A k \in 1 .. Len(taskList) : call.push # NullTask => taskList[k] # call.push
      BY <2>1 DEF IInv, TaskInv
    <3>2. \A j, k \in 1 .. Len(taskList) : taskList[j] = taskList[k] /\ taskList[j] # NullTask => j = k
      BY DEF IInv, TaskInv
    <3> QED
      BY <1>b, <3>1, <3>2
  <2>3. \A w \in Workers : Holding(w) => \A k \in 1 .. Len(taskList') : taskList'[k] # workerTask[w]
    BY <1>b, <2>1 DEF IInv, TaskInv
  <2> QED
    BY <2>1, <2>2, <2>3 DEF IInv, TaskInv, Holding
<1>6. TaskClusterInv'
  BY <1>0 DEF IInv, TaskPush, TaskClusterInv, Unprocessed, ClusterTask
<1>6a. QueueInv'
  BY DEF IInv, TypeOK, CallType, TaskPush, ClosingInv, QueueInv, WriterInv, InFlight, ToPush, NullAtEnd, Drained, ClusterTask
<1>7. WriterInv'
  BY DEF IInv, TypeOK, CallType, TaskPush, ClosingInv, WriterInv, ClusterTask
<1>8. IndexInv'
  BY SMTT(30), <1>b DEF IInv, TypeOK, CallType, TaskPush, IndexInv, MainInv, ClosingInv, BeforeIndexTask, Holding, FinishPcs, Draining, ClusterTask
<1> QED
  BY <1>0, <1>1, <1>2, <1>3, <1>4, <1>5, <1>6, <1>6a, <1>7, <1>8 DEF IInv

\* The cluster being closed, or the final null, joins clusterToWrite.
LEMMA ClusterPushStep == ASSUME IInv, ClusterPush PROVE IInv'
<1> USE DEF mainVars, dataVars, workerVars, writerVars, queueVars, liveVars, threadVars,
           fileVars, outVars, mainOnly, NullPtr
<1>0. ContentInv' /\ OffsetInv' /\ Numbered' = Numbered
  BY ContentFrame DEF IInv, ClusterPush
<1>a. call.closing \in 0 .. Len(clusters)
  BY DEF IInv, TypeOK, CallType, ClosingInv, OpenCluster
<1>b. /\ clusterToWrite' \in Seq(0 .. Len(clusters))
      /\ Len(clusterToWrite') = Len(clusterToWrite) + 1
      /\ clusterToWrite'[Len(clusterToWrite) + 1] = call.closing
      /\ \A k \in 1 .. Len(clusterToWrite) : clusterToWrite'[k] = clusterToWrite[k]
      /\ \A k \in 1 .. Len(clusterToWrite') : k \in 1 .. Len(clusterToWrite) \/ k = Len(clusterToWrite) + 1
  BY <1>a, AppendSeq DEF IInv, TypeOK, ClusterPush
<1>1. TypeOK'
  BY <1>b DEF IInv, TypeOK, ClusterPush, MainPcs
<1>2. MainInv'
  BY DEF IInv, TypeOK, CallType, ClusterPush, MainInv, ClosingInv, FinishPcs, Draining
<1>3. ClosingInv'
  BY DEF IInv, TypeOK, CallType, ClusterPush, ClosingInv, MainInv, OpenCluster
<1>4. OpenInv'
  BY <1>0 DEF IInv, TypeOK, ClusterPush, OpenInv, ClosingInv
<1>5. TaskInv'
  BY DEF IInv, TypeOK, ClusterPush, TaskInv, Holding
<1>6. TaskClusterInv'
  BY <1>0 DEF IInv, ClusterPush, TaskClusterInv, Unprocessed
<1>6a. QueueInv'
  <2>1. InFlight' = InFlight /\ InFlight \in {0, 1} /\ chunks' = chunks /\ clustersList' = clustersList
    BY DEF ClusterPush, InFlight
  <2>0. /\ Len(chunks) \in Nat /\ Len(clusterToWrite) \in Nat /\ Len(clustersList) \in Nat
        /\ InFlight \in Nat /\ ToPush \in Nat /\ NullAtEnd \in Nat
    BY DEF IInv, TypeOK, InFlight, ToPush, NullAtEnd
  <2>2. mainPc \notin Drained /\ NullAtEnd = 0
    BY DEF ClusterPush, Drained, NullAtEnd
  <2>3. CASE call.closing # NullPtr
    <3>1. ToPush = 1 /\ ToPush' = 0 /\ NullAtEnd' = 0 /\ mainPc' \notin Drained
      BY <2>3 DEF ClusterPush, ToPush, NullAtEnd, Drained
    <3>2. call.closing = clustersList[Len(clustersList)]
      BY <2>3 DEF IInv, ClosingInv
    <3>3. Len(chunks) + InFlight + Len(clusterToWrite) + 1 = Len(clustersList)
      BY <2>0, <2>2, <3>1 DEF IInv, QueueInv
    <3>4. \A k \in 1 .. Len(clusterToWrite') :
            /\ clusterToWrite'[k] # NullPtr
            /\ Len(chunks) + InFlight + k <= Len(clustersList)
            /\ clusterToWrite'[k] = clustersList[Len(chunks) + InFlight + k]
      <4>1. \A k \in 1 .. Len(clusterToWrite) :
              /\ clusterToWrite[k] # NullPtr
              /\ Len(chunks) + InFlight + k <= Len(clustersList)
              /\ clusterToWrite[k] = clustersList[Len(chunks) + InFlight + k]
        BY <2>2 DEF IInv, QueueInv
      <4>2. Len(chunks) + InFlight + (Len(clusterToWrite) + 1) = Len(clustersList)
        BY <2>0, <3>3 DEF IInv, TypeOK
      <4> QED
        BY <1>b, <2>3, <3>2, <4>1, <4>2
    <3> QED
      <4>1. Len(chunks) + InFlight + (Len(clusterToWrite) + 1) + 0 = Len(clustersList) + 0
        BY <2>0, <3>3 DEF IInv, TypeOK
      <4> QED
        BY <1>b, <2>1, <3>1, <3>4, <4>1 DEF QueueInv
  <2>4. CASE call.closing = NullPtr
    <3>1. ToPush = 0 /\ ToPush' = 0 /\ NullAtEnd' = 1 /\ mainPc' \in Drained
      BY <2>4 DEF ClusterPush, ToPush, NullAtEnd, Drained
    <3>3. Len(chunks) + InFlight + Len(clusterToWrite) = Len(clustersList)
      BY <2>0, <2>2, <3>1 DEF IInv, QueueInv
    <3>4. \A k \in 1 .. Len(clusterToWrite) :
            /\ clusterToWrite'[k] # NullPtr
            /\ Len(chunks) + InFlight + k <= Len(clustersList)
            /\ clusterToWrite'[k] = clustersList[Len(chunks) + InFlight + k]
      BY <1>b, <2>0, <2>1, <2>2 DEF IInv, QueueInv
    <3> QED
      <4>1. Len(chunks) + InFlight + (Len(clusterToWrite) + 1) + 0 = Len(clustersList) + 1
        BY <2>0, <3>3
      <4>2. Len(clusterToWrite') > 0 /\ clusterToWrite'[Len(clusterToWrite')] = NullPtr
        BY <1>b, <2>0, <2>4
      <4> QED
        BY <1>b, <2>1, <3>1, <3>4, <4>1, <4>2 DEF QueueInv
  <2> QED
    BY <2>3, <2>4
<1>7. WriterInv'
  <2>1. UNCHANGED <<clusters, clustersList, writerPc, writerCluster, chunks>> /\ mainPc' \in {"joinWriter", "reopen"}
    BY DEF ClusterPush
  <2>2. writerPc # "exited"
    BY DEF IInv, TypeOK, ClusterPush, WriterInv, QueueInv, Drained
  <2>3. Len(clusterToWrite) > 0 => clusterToWrite'[1] = clusterToWrite[1] /\ Len(clusterToWrite') > 0
    BY <1>b DEF IInv, TypeOK
  <2> QED
    BY <2>1, <2>2, <2>3 DEF IInv, WriterInv
<1>8. IndexInv'
  BY DEF IInv, TypeOK, CallType, ClusterPush, IndexInv, MainInv, ClosingInv, BeforeIndexTask, Holding, FinishPcs, Draining
<1> QED
  BY <1>0, <1>1, <1>2, <1>3, <1>4, <1>5, <1>6, <1>6a, <1>7, <1>8 DEF IInv

\* finishZimCreation starts: no item is between its two halves.
LEMMA FinishZimCreationStep == ASSUME IInv, FinishZimCreation PROVE IInv'
<1> USE DEF mainVars, dataVars, workerVars, writerVars, queueVars, liveVars, threadVars,
           fileVars, outVars, mainOnly, NullPtr
<1>0. ContentInv' /\ OffsetInv' /\ Numbered' = Numbered
  BY ContentFrame DEF IInv, FinishZimCreation
<1>1. TypeOK'
  BY DEF IInv, TypeOK, FinishZimCreation, MainPcs
<1>2. MainInv'
  BY DEF IInv, TypeOK, CallType, FinishZimCreation, MainInv, ClosingInv, FinishPcs, Draining
<1>3. ClosingInv'
  BY DEF IInv, TypeOK, CallType, FinishZimCreation, ClosingInv, MainInv, OpenCluster
<1>4. OpenInv'
  BY <1>0 DEF IInv, TypeOK, FinishZimCreation, OpenInv, ClosingInv
<1>5. TaskInv'
  BY DEF IInv, TypeOK, FinishZimCreation, TaskInv, Holding
<1>6. TaskClusterInv'
  BY <1>0 DEF IInv, FinishZimCreation, TaskClusterInv, Unprocessed
<1>6a. QueueInv'
  BY DEF IInv, TypeOK, CallType, FinishZimCreation, ClosingInv, QueueInv, WriterInv, InFlight, ToPush, NullAtEnd, Drained
<1>7. WriterInv'
  BY DEF IInv, TypeOK, CallType, FinishZimCreation, ClosingInv, WriterInv
<1>8. IndexInv'
  BY DEF IInv, TypeOK, CallType, FinishZimCreation, IndexInv, MainInv, ClosingInv, BeforeIndexTask, Holding, FinishPcs, Draining
<1> QED
  BY <1>0, <1>1, <1>2, <1>3, <1>4, <1>5, <1>6, <1>6a, <1>7, <1>8 DEF IInv

\* The full text handler closes its database when no IndexTask lives.
LEMMA StopHandlerStep == ASSUME IInv, StopHandler PROVE IInv'
<1> USE DEF mainVars, dataVars, workerVars, writerVars, queueVars, liveVars, threadVars,
           fileVars, outVars, mainOnly, NullPtr
<1>0. ContentInv' /\ OffsetInv' /\ Numbered' = Numbered
  BY ContentFrame DEF IInv, StopHandler
<1>a. handler \in 1 .. Len(Handlers)
  BY DEF IInv, TypeOK, StopHandler, MainInv, FinishPcs
<1>b. call' = [NoCall EXCEPT !.blob = Handlers[handler]] /\ Handlers[handler] \in Blobs /\ Handlers[handler] \notin Items
  BY <1>a, HandlerBlob DEF StopHandler
<1>c. db' \in [open : BOOLEAN, documents : SUBSET Items] /\ db'.documents = db.documents
  BY DEF IInv, TypeOK, StopHandler
<1>d. call' \in CallType /\ call'.blob \notin Items /\ call'.closing = 0 /\ call'.push = NullTask
  BY <1>b, NullTaskType DEF CallType, NoCall
<1>1. TypeOK'
  BY <1>c, <1>d DEF IInv, TypeOK, StopHandler, MainPcs
<1>2. MainInv'
  BY <1>d DEF IInv, TypeOK, StopHandler, MainInv, ClosingInv, FinishPcs, Draining, NoCall
<1>3. ClosingInv'
  BY DEF IInv, TypeOK, CallType, StopHandler, ClosingInv, MainInv, OpenCluster, NoCall
<1>4. OpenInv'
  BY <1>0 DEF IInv, TypeOK, StopHandler, OpenInv, ClosingInv, NoCall
<1>5. TaskInv'
  BY DEF IInv, TypeOK, StopHandler, TaskInv, Holding, NoCall
<1>6. TaskClusterInv'
  BY <1>0 DEF IInv, StopHandler, TaskClusterInv, Unprocessed, NoCall
<1>6a. QueueInv'
  BY DEF IInv, TypeOK, CallType, StopHandler, ClosingInv, QueueInv, WriterInv, InFlight, ToPush, NullAtEnd, Drained, NoCall
<1>7. WriterInv'
  BY DEF IInv, TypeOK, CallType, StopHandler, ClosingInv, WriterInv, NoCall
<1>8. IndexInv'
  <2>1. /\ UNCHANGED <<handler, added, taskList, liveIndex, workerPc, workerTask>>
        /\ mainPc = "stopHandlers" /\ mainPc' = "addItemData"
        /\ call.closing = NullPtr
        /\ handler > 0
    BY <1>a DEF IInv, StopHandler, ClosingInv
  <2>2. db'.open = db.open \/ (liveIndex = {} /\ WithIndex)
    <3>1. CASE Handlers[handler] = "fulltextIndex"
      <4>1. WithIndex
        BY <1>a, <3>1 DEF Handlers
      <4> QED
        BY <3>1, <4>1 DEF StopHandler, IndexingDone
    <3>2. CASE Handlers[handler] # "fulltextIndex"
      BY <3>2 DEF StopHandler
    <3> QED
      BY <3>1, <3>2
  <2>3. ~BeforeIndexTask /\ ~BeforeIndexTask'
    BY <2>1 DEF BeforeIndexTask
  <2> QED
    BY <1>c, <1>d, <2>1, <2>2, <2>3 DEF IInv, IndexInv, Holding
<1> QED
  BY <1>0, <1>1, <1>2, <1>3, <1>4, <1>5, <1>6, <1>6a, <1>7, <1>8 DEF IInv

\* Only null tasks are pushed once every ClusterTask is gone.
LEMMA QuitWorkersStep == ASSUME IInv, QuitWorkers PROVE IInv'
<1> USE DEF mainVars, dataVars, workerVars, writerVars, queueVars, liveVars, threadVars,
           fileVars, outVars, mainOnly, NullPtr, NullTask
<1>0. ContentInv' /\ OffsetInv' /\ Numbered' = Numbered
  BY ContentFrame DEF IInv, QuitWorkers
<1>1. TypeOK'
  <2>1. call' \in CallType
    BY ZenonT(30), NullTaskType DEF IInv, TypeOK, QuitWorkers, CallType
  <2> QED
    BY <2>1 DEF IInv, TypeOK, QuitWorkers, MainPcs
<1>a. /\ call'.closing = NullPtr /\ call.closing = NullPtr
      /\ mainPc' = "taskWait" => call'.push = NullTask
  BY DEF IInv, TypeOK, CallType, QuitWorkers, ClosingInv
<1>b. mainPc' \in {"taskWait", "joinWorkers"} /\ mainPc = "quitWorkers"
  BY DEF QuitWorkers
<1>2. MainInv'
  <2>1. call'.blob = call.blob /\ UNCHANGED <<handler, added>>
    BY DEF IInv, TypeOK, CallType, QuitWorkers
  <2> QED
    BY <1>a, <1>b, <2>1 DEF IInv, MainInv, FinishPcs, Draining
<1>3. ClosingInv'
  BY DEF IInv, TypeOK, CallType, QuitWorkers, ClosingInv, MainInv, OpenCluster
<1>4. OpenInv'
  BY <1>0 DEF IInv, TypeOK, QuitWorkers, OpenInv, ClosingInv
<1>5. TaskInv'
  BY <1>0, <1>a, <1>b DEF IInv, TypeOK, QuitWorkers, TaskInv, Holding
<1>6. TaskClusterInv'
  BY <1>0, <1>a, <1>b DEF IInv, QuitWorkers, TaskClusterInv, Unprocessed
<1>6a. QueueInv'
  BY <1>0, <1>a, <1>b DEF IInv, TypeOK, CallType, QuitWorkers, ClosingInv, QueueInv, WriterInv, InFlight, ToPush, NullAtEnd, Drained
<1>7. WriterInv'
  BY <1>0, <1>a, <1>b DEF IInv, TypeOK, CallType, QuitWorkers, ClosingInv, WriterInv
<1>8. IndexInv'
  BY SMTT(30) DEF IInv, TypeOK, CallType, QuitWorkers, IndexInv, MainInv, ClosingInv, BeforeIndexTask, Holding, FinishPcs, Draining
<1> QED
  BY <1>0, <1>1, <1>2, <1>3, <1>4, <1>5, <1>6, <1>6a, <1>7, <1>8 DEF IInv

\* Creator::write: the writer thread has ended and the heap is at rest.
LEMMA WriteTablesStep == ASSUME IInv, WriteTables PROVE IInv'
<1> USE DEF mainVars, dataVars, workerVars, writerVars, queueVars, liveVars, threadVars,
           fileVars, outVars, mainOnly, NullPtr
<1>0. ContentInv' /\ OffsetInv' /\ Numbered' = Numbered
  BY ContentFrame DEF IInv, WriteTables
<1>a. chunks' = chunks /\ fileEnd' = fileEnd /\ checksum' \in BOOLEAN
  BY DEF IInv, TypeOK, WriteTables
<1>1. TypeOK'
  BY <1>a DEF IInv, TypeOK, WriteTables, MainPcs
<1>2. MainInv'
  BY DEF IInv, TypeOK, CallType, WriteTables, MainInv, ClosingInv, FinishPcs, Draining
<1>3. ClosingInv'
  BY DEF IInv, TypeOK, CallType, WriteTables, ClosingInv, MainInv, OpenCluster
<1>4. OpenInv'
  BY <1>0 DEF IInv, TypeOK, WriteTables, OpenInv, ClosingInv
<1>5. TaskInv'
  BY DEF IInv, TypeOK, WriteTables, TaskInv, Holding
<1>6. TaskClusterInv'
  BY <1>0 DEF IInv, WriteTables, TaskClusterInv, Unprocessed
<1>6a. QueueInv'
  <2>1. /\ UNCHANGED <<call, clustersList, clusterToWrite, writerPc>>
        /\ mainPc = "write" /\ mainPc' = "header"
    BY DEF WriteTables
  <2> QED
    BY <1>a, <2>1 DEF IInv, QueueInv, InFlight, ToPush, NullAtEnd, Drained
<1>7. WriterInv'
  BY <1>a DEF IInv, TypeOK, CallType, WriteTables, ClosingInv, WriterInv
<1>8. IndexInv'
  BY DEF IInv, TypeOK, CallType, WriteTables, IndexInv, MainInv, ClosingInv, BeforeIndexTask, Holding, FinishPcs, Draining
<1> QED
  BY <1>0, <1>1, <1>2, <1>3, <1>4, <1>5, <1>6, <1>6a, <1>7, <1>8 DEF IInv

\* The header and the checksum touch nothing the invariant is about.
LEMMA WriteHeaderStep == ASSUME IInv, WriteHeader PROVE IInv'
<1> USE DEF mainVars, dataVars, workerVars, writerVars, queueVars, liveVars, threadVars,
           fileVars, outVars, mainOnly, NullPtr
<1>0. ContentInv' /\ OffsetInv' /\ Numbered' = Numbered
  BY ContentFrame DEF IInv, WriteHeader
<1>a. chunks' = chunks /\ fileEnd' = fileEnd /\ checksum' \in BOOLEAN
  BY DEF IInv, TypeOK, WriteHeader
<1>1. TypeOK'
  BY <1>a DEF IInv, TypeOK, WriteHeader, MainPcs
<1>2. MainInv'
  BY DEF IInv, TypeOK, CallType, WriteHeader, MainInv, ClosingInv, FinishPcs, Draining
<1>3. ClosingInv'
  BY DEF IInv, TypeOK, CallType, WriteHeader, ClosingInv, MainInv, OpenCluster
<1>4. OpenInv'
  BY <1>0 DEF IInv, TypeOK, WriteHeader, OpenInv, ClosingInv
<1>5. TaskInv'
  BY DEF IInv, TypeOK, WriteHeader, TaskInv, Holding
<1>6. TaskClusterInv'
  BY <1>0 DEF IInv, WriteHeader, TaskClusterInv, Unprocessed
<1>6a. QueueInv'
  <2>1. /\ UNCHANGED <<call, clustersList, clusterToWrite, writerPc>>
        /\ mainPc = "header" /\ mainPc' = "rename"
    BY DEF WriteHeader
  <2> QED
    BY <1>a, <2>1 DEF IInv, QueueInv, InFlight, ToPush, NullAtEnd, Drained
<1>7. WriterInv'
  BY <1>a DEF IInv, TypeOK, CallType, WriteHeader, ClosingInv, WriterInv
<1>8. IndexInv'
  BY DEF IInv, TypeOK, CallType, WriteHeader, IndexInv, MainInv, ClosingInv, BeforeIndexTask, Holding, FinishPcs, Draining
<1> QED
  BY <1>0, <1>1, <1>2, <1>3, <1>4, <1>5, <1>6, <1>6a, <1>7, <1>8 DEF IInv

\* The rename touches nothing the invariant is about.
LEMMA RenameStep == ASSUME IInv, Rename PROVE IInv'
<1> USE DEF mainVars, dataVars, workerVars, writerVars, queueVars, liveVars, threadVars,
           fileVars, outVars, mainOnly, NullPtr
<1>0. ContentInv' /\ OffsetInv' /\ Numbered' = Numbered
  BY ContentFrame DEF IInv, Rename
<1>1. TypeOK'
  BY DEF IInv, TypeOK, Rename, MainPcs
<1>2. MainInv'
  BY DEF IInv, TypeOK, CallType, Rename, MainInv, ClosingInv, FinishPcs, Draining
<1>3. ClosingInv'
  BY DEF IInv, TypeOK, CallType, Rename, ClosingInv, MainInv, OpenCluster
<1>4. OpenInv'
  BY <1>0 DEF IInv, TypeOK, Rename, OpenInv, ClosingInv
<1>5. TaskInv'
  BY DEF IInv, TypeOK, Rename, TaskInv, Holding
<1>6. TaskClusterInv'
  BY <1>0 DEF IInv, Rename, TaskClusterInv, Unprocessed
<1>6a. QueueInv'
  BY DEF IInv, TypeOK, CallType, Rename, ClosingInv, QueueInv, WriterInv, InFlight, ToPush, NullAtEnd, Drained
<1>7. WriterInv'
  BY DEF IInv, TypeOK, CallType, Rename, ClosingInv, WriterInv
<1>8. IndexInv'
  BY DEF IInv, TypeOK, CallType, Rename, IndexInv, MainInv, ClosingInv, BeforeIndexTask, Holding, FinishPcs, Draining
<1> QED
  BY <1>0, <1>1, <1>2, <1>3, <1>4, <1>5, <1>6, <1>6a, <1>7, <1>8 DEF IInv

\* closeCluster numbers a cluster that has no number yet and creates its task.
LEMMA CloseClusterStep ==
  ASSUME IInv, NEW c \in BOOLEAN, NEW ret \in {"addContent", "closeUncomp", "waitTasks"},
         mainPc \in {"addItemData", "closeComp", "closeUncomp"},
         ret = "addContent" <=> mainPc = "addItemData",
         CloseCluster(c, ret),
         UNCHANGED <<handler, poisons, added, compCluster, uncompCluster, place, isExtended,
                     titleListBlobOffset, queueVars, liveIndex, threadVars, outVars>>
  PROVE  IInv'
<1> USE DEF mainVars, dataVars, workerVars, writerVars, queueVars, liveVars, threadVars,
           fileVars, outVars, mainOnly, NullPtr
<1>q. PICK p : p = OpenCluster(c)
  OBVIOUS
<1>p. p \in 1 .. Len(clusters) /\ p \in {compCluster, uncompCluster} /\ p \notin Numbered /\ call.closing = NullPtr
  BY <1>q DEF IInv, TypeOK, OpenCluster, OpenInv, ClosingInv
<1>c. /\ clusters' \in Seq(ClusterType) /\ Len(clusters') = Len(clusters)
      /\ \A q \in 1 .. Len(clusters) :
           /\ clusters'[q].compressed = clusters[q].compressed
           /\ clusters'[q].content = clusters[q].content
           /\ clusters'[q].blobOffsets = clusters[q].blobOffsets
           /\ clusters'[q].count = clusters[q].count
           /\ clusters'[q].zip = clusters[q].zip
           /\ clusters'[q].closed = clusters[q].closed
           /\ clusters'[q].offset = clusters[q].offset
           /\ q # p => clusters'[q] = clusters[q]
      /\ clusters'[p].index = Len(clustersList)
  <2> DEFINE d == [clusters[p] EXCEPT !.index = Len(clustersList)]
  <2>1. clusters \in Seq(ClusterType) /\ clusters[p] \in ClusterType /\ Len(clustersList) \in Nat
    BY <1>p DEF IInv, TypeOK
  <2>2. /\ d \in ClusterType
        /\ d.compressed = clusters[p].compressed
        /\ d.content = clusters[p].content
        /\ d.blobOffsets = clusters[p].blobOffsets
        /\ d.count = clusters[p].count
        /\ d.zip = clusters[p].zip
        /\ d.closed = clusters[p].closed
        /\ d.offset = clusters[p].offset
        /\ d.index = Len(clustersList)
    BY <2>1, SetIndex
  <2>3. clusters' = [clusters EXCEPT ![p] = d]
    BY <1>q DEF CloseCluster
  <2> HIDE DEF d
  <2>4. /\ clusters' \in Seq(ClusterType) /\ Len(clusters') = Len(clusters)
        /\ \A q \in 1 .. Len(clusters) : q # p => clusters'[q] = clusters[q]
        /\ clusters'[p] = d
    BY <1>p, <2>1, <2>2, <2>3, UpdateSeq
  <2> QED
    BY <2>2, <2>4
<1>l. /\ clustersList' \in Seq(1 .. Len(clusters)) /\ Len(clustersList') = Len(clustersList) + 1
      /\ clustersList'[Len(clustersList) + 1] = p
      /\ \A k \in 1 .. Len(clustersList) : clustersList'[k] = clustersList[k]
      /\ \A k \in 1 .. Len(clustersList') : k \in 1 .. Len(clustersList) \/ k = Len(clustersList) + 1
  BY <1>p, <1>q, AppendSeq DEF IInv, TypeOK, CloseCluster
<1>n. Numbered' = Numbered \cup {p}
  <2>0. PICK m \in Nat : m = Len(clustersList)
    BY DEF IInv, TypeOK
  <2>1. Numbered' \subseteq Numbered \cup {p}
    BY <1>l, <2>0 DEF Numbered
  <2>2. \A k \in 1 .. m : k \in 1 .. (m + 1) /\ m + 1 \in 1 .. (m + 1)
    OBVIOUS
  <2>3. p \in Numbered'
    <3>1. m + 1 \in 1 .. (m + 1)
      BY <2>0
    <3> QED
      BY <1>l, <2>0, <3>1 DEF Numbered
  <2>4. Numbered \subseteq Numbered'
    BY <1>l, <2>0, <2>2 DEF Numbered
  <2> QED
    BY <2>1, <2>3, <2>4
<1>k. /\ call' \in CallType /\ call'.closing = p /\ call'.comp = c /\ call'.ret = ret
      /\ call'.push = ClusterTask(p) /\ call'.blob = call.blob /\ mainPc' = "taskWait"
  <2>1. ClusterTask(p) \in TaskType /\ p \in Nat
    BY <1>p DEF ClusterTask, TaskType, IInv, TypeOK
  <2>2. call' = [call EXCEPT !.closing = p, !.push = ClusterTask(p), !.comp = c, !.ret = ret]
        /\ mainPc' = "taskWait" /\ call \in CallType
    BY <1>q DEF IInv, TypeOK, CloseCluster
  <2> QED
    BY <2>1, <2>2 DEF CallType
<1>o. p = (IF c THEN compCluster ELSE uncompCluster)
  BY <1>q DEF OpenCluster
<1>h. Numbered \subseteq 1 .. Len(clusters)
  BY DEF Numbered, IInv, TypeOK
<1>r. /\ Len(chunks) \in Nat /\ Len(clustersList) \in Nat /\ Len(chunks) <= Len(clustersList)
  BY ChunksNumbered DEF IInv
<1>u. UNCHANGED <<handler, poisons, added, compCluster, uncompCluster, place, taskList,
                 clusterToWrite, liveIndex, workerPc, workerTask, writerPc, writerCluster,
                 db, chunks, fileEnd>>
  OBVIOUS
<1>1. TypeOK'
  <2>1. liveCluster' \subseteq Nat
    BY <1>p, <1>q DEF IInv, TypeOK, CloseCluster
  <2> QED
    BY <1>c, <1>l, <1>k, <2>1 DEF IInv, TypeOK, MainPcs
<1>2. MainInv'
  <2>1. p # 0
    BY <1>p DEF IInv, TypeOK
  <2>2. mainPc' = "taskWait" /\ call'.push.kind = "cluster" /\ call'.closing # 0
    BY <1>k, <2>1 DEF ClusterTask
  <2>3. call'.blob \in Items => call'.blob \in added'
    BY <1>k, <1>u DEF IInv, MainInv, FinishPcs
  <2>4. \/ call'.ret = "addContent" /\ (call'.blob \in Items <=> handler' = 0)
        \/ call'.ret \in {"closeUncomp", "waitTasks"} /\ handler' > 0
    BY <1>k, <1>u DEF IInv, MainInv, FinishPcs
  <2> QED
    BY <2>2, <2>3, <2>4 DEF MainInv, FinishPcs, Draining
<1>3. ClosingInv'
  <2>1. p = OpenCluster(c)'
    BY <1>o, <1>u DEF OpenCluster
  <2>2. p # 0
    BY <1>p DEF IInv, TypeOK
  <2>3. ClusterTask(p)' = ClusterTask(p)
    BY DEF ClusterTask
  <2> QED
    BY <1>k, <1>l, <1>r, <2>1, <2>2, <2>3 DEF ClosingInv, OpenCluster, ClusterTask
<1>4. OpenInv'
  <2>1. \A k \in 1 .. Len(clustersList) : clustersList[k] # p
    BY <1>p DEF Numbered
  <2>2. \A j, k \in 1 .. Len(clustersList') : clustersList'[j] = clustersList'[k] => j = k
    BY ZenonT(30), <1>l, <2>1 DEF IInv, OpenInv
  <2>3. \A k \in 1 .. Len(clustersList') : clusters'[clustersList'[k]].index = k - 1
    <3>1. \A k \in 1 .. Len(clustersList) :
            clusters[clustersList[k]].index = k - 1 /\ clustersList[k] \in 1 .. Len(clusters)
      BY DEF IInv, TypeOK, OpenInv
    <3>2. \A k \in 1 .. Len(clustersList) : clusters'[clustersList'[k]].index = k - 1
      <4>1. SUFFICES ASSUME NEW k \in 1 .. Len(clustersList)
                     PROVE  clusters'[clustersList'[k]].index = k - 1
        OBVIOUS
      <4>2. clustersList'[k] = clustersList[k] /\ clustersList[k] # p
        BY <1>l, <2>1
      <4>3. clusters'[clustersList[k]] = clusters[clustersList[k]]
        BY <1>c, <3>1, <4>2
      <4> QED
        BY <3>1, <4>2, <4>3
    <3>3. Len(clustersList) + 1 - 1 = Len(clustersList)
      BY <1>r
    <3> QED
      BY SMTT(90), <1>l, <1>c, <3>2, <3>3
  <2>4. compCluster # uncompCluster /\ compCluster \notin Numbered /\ uncompCluster \notin Numbered
    BY <1>p DEF IInv, OpenInv, TypeOK
  <2> QED
    BY <1>n, <1>k, <1>u, <2>2, <2>3, <2>4 DEF OpenInv
<1>5. TaskInv'
  <2>1. \A k \in 1 .. Len(taskList) : taskList[k] # ClusterTask(p)
    BY <1>p DEF IInv, TaskClusterInv, ClusterTask
  <2>2. \A w \in Workers : workerTask[w] # ClusterTask(p)
    BY <1>p DEF IInv, TaskClusterInv, ClusterTask
  <2> QED
    BY <1>k, <2>1, <2>2 DEF IInv, TaskInv, Holding
<1>6. TaskClusterInv'
  <2>2. \A q \in 1 .. Len(clusters) : /\ Unprocessed(q)' <=> Unprocessed(q)
                                     /\ clusters'[q].closed = clusters[q].closed
    BY <1>c DEF Unprocessed
  <2>3. Unprocessed(p)
    BY <1>p DEF Unprocessed, IInv, ContentInv, OpenContentInv
  <2>4. \A k \in 1 .. Len(taskList) : taskList[k].kind = "cluster" =>
          taskList[k].of \in Numbered' /\ Unprocessed(taskList[k].of)'
    BY <1>n, <1>h, <2>2 DEF IInv, TaskClusterInv
  <2>5. \A w \in Workers : workerTask[w].kind = "cluster" =>
          /\ workerTask[w].of \in Numbered'
          /\ workerPc[w] = "run" => Unprocessed(workerTask[w].of)'
          /\ workerPc[w] = "setClosed" => ~clusters'[workerTask[w].of].closed
    BY <1>n, <1>h, <2>2 DEF IInv, TaskClusterInv
  <2>6. call'.push.of \in Numbered' /\ Unprocessed(call.push.of)'
    <3>1. call'.push.of = p
      BY <1>k DEF ClusterTask
    <3>2. p \in Numbered' /\ Unprocessed(p)'
      BY <1>n, <1>p, <2>2, <2>3
    <3> QED
      BY <3>1, <3>2 DEF Unprocessed
  <2> QED
    BY <1>u, <2>4, <2>5, <2>6 DEF TaskClusterInv, Unprocessed
<1>6a. QueueInv'
  <2>0. /\ Len(chunks) \in Nat /\ Len(clusterToWrite) \in Nat /\ Len(clustersList) \in Nat
        /\ InFlight \in Nat /\ ToPush = 0 /\ NullAtEnd = 0 /\ mainPc \notin Drained
    BY <1>p DEF IInv, TypeOK, InFlight, ToPush, NullAtEnd, Drained
  <2>1. InFlight' = InFlight /\ ToPush' = 1 /\ NullAtEnd' = 0 /\ mainPc' \notin Drained
    BY <1>k, <1>p DEF InFlight, ToPush, NullAtEnd, Drained
  <2>2. Len(chunks) + InFlight + Len(clusterToWrite) = Len(clustersList)
    BY <2>0 DEF IInv, QueueInv
  <2>3. Len(chunks) + InFlight + Len(clusterToWrite) + 1 = Len(clustersList) + 1 + 0
    BY <2>0, <2>2
  <2>4. \A k \in 1 .. Len(clusterToWrite) :
           /\ clusterToWrite[k] # NullPtr
           /\ Len(chunks) + InFlight + k <= Len(clustersList)
           /\ clusterToWrite[k] = clustersList[Len(chunks) + InFlight + k]
    BY <2>0 DEF IInv, QueueInv
  <2>5. \A k \in 1 .. Len(clusterToWrite) :
           /\ Len(chunks) + InFlight + k \in 1 .. Len(clustersList)
           /\ Len(chunks) + InFlight + k <= Len(clustersList) + 1
    BY <2>0, <2>4
  <2> QED
    BY <1>l, <2>1, <2>3, <2>4, <2>5 DEF QueueInv
<1>7. WriterInv'
  <2>2. mainPc' \notin {"write", "header", "rename", "done"}
    BY <1>k
  <2>3. writerCluster \in 0 .. Len(clusters)
    BY DEF IInv, TypeOK
  <2>4. writerPc \in {"popCluster", "writeCluster", "clearData"} => clusters'[writerCluster].closed
    BY <1>c, <2>3 DEF IInv, WriterInv
  <2>5. writerPc = "writeCluster" =>
          Len(chunks) < Len(clustersList') /\ writerCluster = clustersList'[Len(chunks) + 1]
    <3>1. writerPc = "writeCluster" =>
             Len(chunks) + 1 \in 1 .. Len(clustersList) /\ writerCluster = clustersList[Len(chunks) + 1]
      BY <1>r DEF IInv, WriterInv
    <3> QED
      BY <1>l, <1>r, <3>1
  <2>6. writerPc = "clearData" => Len(chunks) > 0 /\ writerCluster = clustersList'[Len(chunks)]
    <3>1. writerPc = "clearData" =>
             /\ Len(chunks) \in 1 .. Len(clustersList) /\ Len(chunks) > 0
             /\ writerCluster = clustersList[Len(chunks)]
      BY <1>r DEF IInv, WriterInv
    <3> QED
      BY <1>l, <3>1
  <2> QED
    BY <1>u, <2>2, <2>4, <2>5, <2>6 DEF IInv, WriterInv
<1>8. ContentInv'
  <2>1. \A q : InSetClosed(q)' <=> InSetClosed(q)
    BY DEF InSetClosed
  <2>2. \A x, q : Holds(x, q)' <=> Holds(x, q)
    BY <1>u DEF Holds
  <2>3. OpenContentInv'
    BY SMTT(30), <1>c, <1>n DEF IInv, TypeOK, ContentInv, OpenContentInv
  <2>4. PlaceInv'
    BY <1>n DEF IInv, ContentInv, PlaceInv
  <2>5. HeldInv'
    <3>1. SUFFICES ASSUME NEW q \in Numbered' \cup {compCluster', uncompCluster'}
                   PROVE  /\ ~clusters'[q].closed /\ ~InSetClosed(q)' => Holds(clusters[q].content, q)'
                          /\ InSetClosed(q)' => Holds(Payload(clusters[q]), q)'
      BY DEF HeldInv
    <3>2. q \in Numbered \cup {compCluster, uncompCluster} /\ q \in 1 .. Len(clusters)
      BY <1>n, <1>p, <1>u, <1>h DEF IInv, TypeOK
    <3>3. /\ clusters'[q].content = clusters[q].content /\ clusters'[q].closed = clusters[q].closed
          /\ Payload(clusters'[q]) = Payload(clusters[q])
      BY <1>c, <3>2 DEF Payload
    <3>4. /\ ~clusters[q].closed /\ ~InSetClosed(q) => Holds(clusters[q].content, q)
          /\ InSetClosed(q) => Holds(Payload(clusters[q]), q)
      BY <3>2 DEF IInv, ContentInv, HeldInv
    <3>5. Holds(clusters[q].content, q)' <=> Holds(clusters[q].content, q)
      BY <1>u, <3>3 DEF Holds
    <3>6. Holds(Payload(clusters[q]), q)' <=> Holds(Payload(clusters[q]), q)
      BY <1>u, <3>3 DEF Holds, Payload
    <3> QED
      BY <2>1, <3>3, <3>4, <3>5, <3>6
  <2>6. ReadyInv'
    <3>1. SUFFICES ASSUME NEW k \in 1 .. Len(clustersList'), k > Len(chunks),
                          clusters'[clustersList'[k]].closed
                   PROVE  Holds(Payload(clusters[clustersList[k]]), clustersList[k])'
      BY <1>u DEF ReadyInv
    <3>2. k \in 1 .. Len(clustersList)
      BY <1>l, <1>c, <1>p, <3>1 DEF IInv, ContentInv, OpenContentInv
    <3>a. clustersList[k] \in 1 .. Len(clusters) /\ clustersList'[k] = clustersList[k]
      <4>1. clustersList \in Seq(1 .. Len(clusters))
        BY DEF IInv, TypeOK
      <4> QED
        BY <1>l, <3>2, <4>1
    <3>3. PICK q \in 1 .. Len(clusters) : q = clustersList[k] /\ q = clustersList'[k]
      BY <3>a
    <3>4. Holds(Payload(clusters[q]), q) /\ clusters[q].closed
      BY ZenonT(30), <1>c, <3>1, <3>2, <3>3 DEF IInv, ContentInv, ReadyInv
    <3>5. Holds(Payload(clusters[q]), q)' <=> Holds(Payload(clusters[q]), q)
      BY <1>u, <1>c DEF Holds, Payload
    <3> QED
      BY <3>3, <3>4, <3>5 DEF Holds
  <2>7. WrittenInv'
    <3>1. SUFFICES ASSUME NEW k \in 1 .. Len(chunks)
                   PROVE  /\ Holds(chunks[k].blobs, clustersList[k])'
                          /\ clusters'[clustersList'[k]].offset = chunks[k].at
                          /\ clusters'[clustersList'[k]].closed
      BY <1>u DEF WrittenInv
    <3>2. k \in 1 .. Len(clustersList) /\ clustersList'[k] = clustersList[k]
      BY <1>l, <1>r
    <3>3. /\ clusters[clustersList[k]].offset = chunks[k].at
          /\ clusters[clustersList[k]].closed /\ clustersList[k] \in 1 .. Len(clusters)
          /\ Holds(chunks[k].blobs, clustersList[k])
      BY <3>2 DEF IInv, TypeOK, ContentInv, WrittenInv
    <3> QED
      BY <1>c, <1>u, <3>2, <3>3 DEF Holds
  <2> QED
    BY <2>3, <2>4, <2>5, <2>6, <2>7 DEF ContentInv
<1>9. IndexInv'
  <2>1. BeforeIndexTask => BeforeIndexTask'
    BY <1>k, <1>p DEF BeforeIndexTask
  <2>2. BeforeIndexTask' => BeforeIndexTask
    BY <1>k, <1>p DEF IInv, MainInv, FinishPcs, BeforeIndexTask
  <2> QED
    BY <1>k, <2>1, <2>2 DEF IInv, IndexInv, Holding, ClusterTask
<1>10. OffsetInv'
  BY DEF IInv, OffsetInv
<1> QED
  BY <1>1, <1>2, <1>3, <1>4, <1>5, <1>6, <1>6a, <1>7, <1>8, <1>9, <1>10 DEF IInv

\* addItemData either closes its open cluster first or goes on.
LEMMA AddItemDataStep == ASSUME IInv, AddItemData PROVE IInv'
<1> USE DEF mainVars, dataVars, workerVars, writerVars, queueVars, liveVars, threadVars,
           fileVars, outVars, mainOnly, NullPtr
<1>1. /\ mainPc = "addItemData"
      /\ UNCHANGED <<handler, poisons, added, compCluster, uncompCluster, place, isExtended,
                     titleListBlobOffset, queueVars, liveIndex, threadVars, outVars>>
  BY DEF AddItemData
<1>2. CASE CloseCluster(call.comp, "addContent")
  <2>1. PICK c \in BOOLEAN : c = call.comp
    BY DEF IInv, TypeOK, CallType
  <2>2. CloseCluster(c, "addContent")
    BY <1>2, <2>1 DEF CloseCluster
  <2> QED
    BY <1>1, <2>2, CloseClusterStep
<1>3. CASE mainPc' = "addContent" /\ UNCHANGED <<call, clusters, clustersList, liveCluster>>
  BY <1>1, <1>3, MainPcStep
<1> QED
  BY <1>2, <1>3 DEF AddItemData

\* finishZimCreation closes the last compressed cluster if it has blobs.
LEMMA CloseLastCompStep == ASSUME IInv, CloseLastComp PROVE IInv'
<1> USE DEF mainVars, dataVars, workerVars, writerVars, queueVars, liveVars, threadVars,
           fileVars, outVars, mainOnly, NullPtr
<1>1. /\ mainPc = "closeComp"
      /\ UNCHANGED <<handler, poisons, added, compCluster, uncompCluster, place, isExtended,
                     titleListBlobOffset, queueVars, liveIndex, threadVars, outVars>>
  BY DEF CloseLastCluster, CloseLastComp
<1>2. CASE CloseCluster(TRUE, "closeUncomp")
  <2>1. PICK c \in BOOLEAN : c = TRUE
    BY DEF IInv, TypeOK, CallType
  <2>2. CloseCluster(c, "closeUncomp")
    BY <1>2, <2>1 DEF CloseCluster
  <2> QED
    BY <1>1, <2>2, CloseClusterStep
<1>3. CASE mainPc' = "closeUncomp" /\ UNCHANGED <<call, clusters, clustersList, liveCluster>>
  BY <1>1, <1>3, MainPcStep
<1> QED
  BY <1>2, <1>3 DEF CloseLastCluster, CloseLastComp

\* finishZimCreation closes the last uncompressed cluster if it has blobs.
LEMMA CloseLastUncompStep == ASSUME IInv, CloseLastUncomp PROVE IInv'
<1> USE DEF mainVars, dataVars, workerVars, writerVars, queueVars, liveVars, threadVars,
           fileVars, outVars, mainOnly, NullPtr
<1>1. /\ mainPc = "closeUncomp"
      /\ UNCHANGED <<handler, poisons, added, compCluster, uncompCluster, place, isExtended,
                     titleListBlobOffset, queueVars, liveIndex, threadVars, outVars>>
  BY DEF CloseLastCluster, CloseLastUncomp
<1>2. CASE CloseCluster(FALSE, "waitTasks")
  <2>1. PICK c \in BOOLEAN : c = FALSE
    BY DEF IInv, TypeOK, CallType
  <2>2. CloseCluster(c, "waitTasks")
    BY <1>2, <2>1 DEF CloseCluster
  <2> QED
    BY <1>1, <2>2, CloseClusterStep
<1>3. CASE mainPc' = "waitTasks" /\ UNCHANGED <<call, clusters, clustersList, liveCluster>>
  BY <1>1, <1>3, MainPcStep
<1> QED
  BY <1>2, <1>3 DEF CloseLastCluster, CloseLastUncomp

\* What Cluster::addContent does to a cluster.
LEMMA AddContentFacts ==
  ASSUME NEW c \in ClusterType, NEW b \in Blobs, Len(c.content) = c.count,
         Len(c.blobOffsets) = c.count + 1
  PROVE  LET d == AddContent(c, b)
         IN  /\ d \in ClusterType
             /\ d.zip = c.zip /\ d.closed = c.closed /\ d.index = c.index /\ d.offset = c.offset
             /\ d.count = c.count + 1
             /\ Len(d.content) = d.count
             /\ Len(d.blobOffsets) = d.count + 1
             /\ d.content[c.count + 1] = b
             /\ \A k \in 1 .. Len(c.content) : d.content[k] = c.content[k]
             /\ d.blobOffsets[c.count + 1] \in Nat
<1>1. /\ c.content \in Seq(Blobs) /\ c.blobOffsets \in Seq(Nat) /\ c.size \in Nat /\ c.count \in Nat
      /\ c.extended \in BOOLEAN /\ ItemSize[b] \in Nat
  BY ConstantsAssumption DEF ClusterType
<1>2. PICK x, y, z, n, e :
        /\ x = Append(c.content, b) /\ y = Append(c.blobOffsets, c.size + ItemSize[b])
        /\ z = c.size + ItemSize[b] /\ n = c.count + 1 /\ e = (c.extended \/ ItemSize[b] > Uint32Max)
  OBVIOUS
<1>3. x \in Seq(Blobs) /\ z \in Nat /\ n \in Nat /\ e \in BOOLEAN
  BY SMTT(30), <1>1, <1>2
<1>4. y \in Seq(Nat) /\ Len(y) = Len(c.blobOffsets) + 1 /\ \A k \in 1 .. Len(c.blobOffsets) : y[k] = c.blobOffsets[k]
  BY SMTT(30), <1>1, <1>2, AppendSeq
<1>5. Len(x) = Len(c.content) + 1 /\ x[Len(c.content) + 1] = b /\ \A k \in 1 .. Len(c.content) : x[k] = c.content[k]
  BY <1>1, <1>2, AppendSeq
<1>6. AddContent(c, b) = [c EXCEPT !.content = x, !.size = z, !.blobOffsets = y, !.count = n, !.extended = e]
  BY <1>2 DEF AddContent
<1>7. y[c.count + 1] \in Nat
  BY SMTT(30), <1>1, <1>4
<1>8. /\ AddContent(c, b) \in ClusterType
      /\ AddContent(c, b).content = x /\ AddContent(c, b).blobOffsets = y /\ AddContent(c, b).count = n
      /\ AddContent(c, b).zip = c.zip /\ AddContent(c, b).closed = c.closed
      /\ AddContent(c, b).index = c.index /\ AddContent(c, b).offset = c.offset
  BY ZenonT(30), <1>3, <1>4, <1>6 DEF ClusterType
<1> QED
  BY <1>1, <1>2, <1>4, <1>5, <1>7, <1>8

\* The blob joins an open cluster that no other thread has, at the position
\* its dirent notes.
LEMMA AddItemContentStep == ASSUME IInv, AddItemContent PROVE IInv'
<1> USE DEF mainVars, dataVars, workerVars, writerVars, queueVars, liveVars, threadVars,
           fileVars, outVars, mainOnly, NullPtr
<1>a. PICK p : p = OpenCluster(call.comp)
  OBVIOUS
<1>b. PICK b \in Blobs : b = call.blob
  BY DEF IInv, TypeOK, CallType
<1>p. /\ p \in 1 .. Len(clusters) /\ p \in {compCluster, uncompCluster} /\ p \notin Numbered
      /\ call.closing = NullPtr
  BY <1>a DEF IInv, TypeOK, OpenCluster, OpenInv, ClosingInv, AddItemContent
<1>d. PICK d : d = AddContent(clusters[p], b)
  OBVIOUS
<1>e. /\ clusters[p] \in ClusterType /\ ~clusters[p].closed /\ clusters[p].zip = <<>>
      /\ Len(clusters[p].content) = clusters[p].count
      /\ Len(clusters[p].blobOffsets) = clusters[p].count + 1
  BY SMTT(30), <1>p DEF IInv, TypeOK, ContentInv, OpenContentInv
<1>f. /\ d \in ClusterType
      /\ d.zip = <<>> /\ ~d.closed /\ d.index = clusters[p].index /\ d.offset = clusters[p].offset
      /\ d.count = clusters[p].count + 1
      /\ Len(d.content) = d.count
      /\ Len(d.blobOffsets) = d.count + 1
      /\ d.content[clusters[p].count + 1] = b
      /\ \A k \in 1 .. Len(clusters[p].content) : d.content[k] = clusters[p].content[k]
      /\ d.blobOffsets[clusters[p].count + 1] \in Nat
  <2>1. /\ d \in ClusterType
        /\ d.zip = clusters[p].zip /\ d.closed = clusters[p].closed
        /\ d.index = clusters[p].index /\ d.offset = clusters[p].offset
        /\ d.count = clusters[p].count + 1
        /\ Len(d.content) = d.count
        /\ Len(d.blobOffsets) = d.count + 1
        /\ d.content[clusters[p].count + 1] = b
        /\ \A k \in 1 .. Len(clusters[p].content) : d.content[k] = clusters[p].content[k]
        /\ d.blobOffsets[clusters[p].count + 1] \in Nat
    BY <1>d, <1>e, AddContentFacts
  <2> QED
    BY <1>e, <2>1
<1>c. /\ clusters' \in Seq(ClusterType) /\ Len(clusters') = Len(clusters)
      /\ \A q \in 1 .. Len(clusters) : q # p => clusters'[q] = clusters[q]
      /\ clusters'[p] = d
  <2>1. clusters \in Seq(ClusterType) /\ clusters' = [clusters EXCEPT ![p] = d]
    BY <1>a, <1>b, <1>d DEF IInv, TypeOK, AddItemContent
  <2> QED
    BY <1>f, <1>p, <2>1, UpdateSeq
<1>g. PICK n \in Nat : n = clusters[p].count
  BY <1>e DEF ClusterType
<1>h. /\ place' \in [Blobs -> [cluster : 0 .. Len(clusters), blob : Nat]]
      /\ place'[b].cluster = p /\ place'[b].blob = n
      /\ \A x \in Blobs : x # b => place'[x] = place[x]
  <2>1. place' = [place EXCEPT ![b] = [cluster |-> p, blob |-> n]]
    BY <1>a, <1>b, <1>g DEF AddItemContent, BlobNumber
  <2>2. [cluster |-> p, blob |-> n] \in [cluster : 0 .. Len(clusters), blob : Nat]
    BY <1>p DEF IInv, TypeOK
  <2> QED
    BY <2>1, <2>2 DEF IInv, TypeOK
<1>u. UNCHANGED <<call, poisons, added, compCluster, uncompCluster, clustersList, isExtended,
                 taskList, clusterToWrite, liveIndex, liveCluster, workerPc, workerTask,
                 writerPc, writerCluster, db, chunks, fileEnd, checksum, zimName>>
  BY DEF AddItemContent
<1>v. /\ mainPc = "addContent"
      /\ \/ /\ b \in Items /\ handler = 0 /\ handler' = 0
            /\ mainPc' = IF WithIndex /\ b \notin Metadata THEN "handle" ELSE "api"
         \/ b \notin Items /\ handler' = handler + 1 /\ mainPc' = "stopHandlers"
  BY <1>b DEF IInv, MainInv, AddItemContent
<1>n. Numbered' = Numbered /\ Numbered \subseteq 1 .. Len(clusters)
  BY <1>u DEF Numbered, IInv, TypeOK
<1>r. /\ Len(chunks) \in Nat /\ Len(clustersList) \in Nat /\ Len(chunks) <= Len(clustersList)
  BY ChunksNumbered DEF IInv
<1>1. TypeOK'
  <2>1. titleListBlobOffset' \in Nat
    <3>1. /\ titleListBlobOffset' = titleListBlobOffset
             \/ titleListBlobOffset' = AddContent(clusters[p], b).blobOffsets[place'[b].blob + 1]
      BY <1>a, <1>b DEF AddItemContent
    <3>2. d.blobOffsets[place'[b].blob + 1] \in Nat
      BY <1>f, <1>g, <1>h
    <3> QED
      BY <1>d, <3>1, <3>2 DEF IInv, TypeOK
  <2>2. mainPc' \in MainPcs /\ handler' \in Nat
    BY <1>v DEF MainPcs, IInv, TypeOK
  <2> QED
    BY <1>c, <1>h, <1>u, <2>1, <2>2 DEF IInv, TypeOK
<1>2. MainInv'
  BY SMTT(30), <1>b, <1>p, <1>u, <1>v DEF IInv, TypeOK, MainInv, FinishPcs, Draining
<1>3. ClosingInv'
  BY <1>p, <1>u, <1>v DEF ClosingInv
<1>4. OpenInv'
  <2>1. \A k \in 1 .. Len(clustersList) : clusters'[clustersList[k]] = clusters[clustersList[k]]
    BY <1>c, <1>n, <1>p DEF Numbered
  <2> QED
    BY <1>n, <1>u, <2>1 DEF IInv, OpenInv
<1>5. TaskInv'
  BY <1>u, <1>v DEF IInv, TaskInv, Holding
<1>6. TaskClusterInv'
  <2>1. \A q \in Numbered : clusters'[q] = clusters[q]
    BY <1>c, <1>n, <1>p
  <2>2. \A q \in Numbered : Unprocessed(q)' <=> Unprocessed(q)
    BY <2>1 DEF Unprocessed
  <2> QED
    BY <1>n, <1>u, <1>v, <2>1, <2>2 DEF IInv, TaskClusterInv
<1>6a. QueueInv'
  BY <1>p, <1>u, <1>v DEF IInv, QueueInv, InFlight, ToPush, NullAtEnd, Drained
<1>7. WriterInv'
  <2>1. writerPc \in {"popCluster", "writeCluster", "clearData"} => clusters'[writerCluster].closed
    <3>1. writerCluster \in 0 .. Len(clusters)
      BY DEF IInv, TypeOK
    <3>2. writerPc \in {"popCluster", "writeCluster", "clearData"} =>
            clusters[writerCluster].closed /\ writerCluster # 0
      BY DEF IInv, WriterInv
    <3> QED
      BY <1>c, <1>e, <3>1, <3>2
  <2> QED
    BY <1>u, <1>v, <2>1 DEF IInv, WriterInv
<1>8. ContentInv'
  <2>1. \A q : InSetClosed(q)' <=> InSetClosed(q)
    BY <1>u DEF InSetClosed
  <2>2. \A q \in Numbered \cup {compCluster, uncompCluster} : q # p =>
          \A x : Holds(x, q) => \A y \in Blobs : place'[y].cluster = q =>
                    place'[y].blob < Len(x) /\ x[place'[y].blob + 1] = y
    BY <1>h DEF Holds
  <2>3. OpenContentInv'
    BY ZenonT(30), <1>c, <1>f, <1>n, <1>u, <1>p DEF IInv, TypeOK, ContentInv, OpenContentInv
  <2>4. PlaceInv'
    BY <1>h, <1>n, <1>u, <1>p DEF IInv, ContentInv, PlaceInv
  <2>5. HeldInv'
    <3>1. SUFFICES ASSUME NEW q \in Numbered \cup {compCluster, uncompCluster}
                   PROVE  /\ ~clusters'[q].closed /\ ~InSetClosed(q)' => Holds(clusters[q].content, q)'
                          /\ InSetClosed(q)' => Holds(Payload(clusters[q]), q)'
      BY <1>n, <1>u DEF HeldInv
    <3>2. CASE q # p
      <4>1. clusters'[q] = clusters[q]
        BY <1>c, <1>n, <3>2 DEF IInv, TypeOK
      <4>2. \A x : Holds(x, q) => \A y \in Blobs : place'[y].cluster = q =>
                    place'[y].blob < Len(x) /\ x[place'[y].blob + 1] = y
        BY <2>2, <3>2
      <4>3. Holds(clusters[q].content, q) => Holds(clusters[q].content, q)'
        <5>1. PICK x : x = clusters[q].content /\ x = clusters'[q].content
          BY <4>1
        <5>2. Holds(x, q) => Holds(x, q)'
          BY <4>2 DEF Holds
        <5> QED
          BY <5>1, <5>2 DEF Holds
      <4>4. Payload(clusters[q])' = Payload(clusters[q])
        BY <4>1 DEF Payload
      <4>5. Holds(Payload(clusters[q]), q) => Holds(Payload(clusters[q]), q)'
        BY <4>2, <4>4 DEF Holds
      <4> QED
        BY <2>1, <3>1, <4>1, <4>3, <4>5 DEF IInv, ContentInv, HeldInv
    <3>3. CASE q = p
      <4>1. ~InSetClosed(p)
        BY <1>p DEF IInv, TaskInv, TaskClusterInv, InSetClosed
      <4>2. \A y \in Blobs : place[y].cluster = p =>
               place[y].blob < n /\ clusters[p].content[place[y].blob + 1] = y /\ place[y].blob \in Nat
        BY <1>e, <1>g, <1>p, <4>1 DEF IInv, TypeOK, ContentInv, HeldInv, Holds
      <4>3. \A y \in Blobs : place'[y].cluster = p =>
               place'[y].blob < n + 1 /\ d.content[place'[y].blob + 1] = y
        <5>1. SUFFICES ASSUME NEW y \in Blobs, place'[y].cluster = p
                       PROVE  place'[y].blob < n + 1 /\ d.content[place'[y].blob + 1] = y
          OBVIOUS
        <5>2. CASE y = b
          BY <1>f, <1>g, <1>h, <5>2
        <5>3. CASE y # b
          <6>1. PICK m \in Nat : m = place[y].blob /\ m = place'[y].blob
            BY <1>h, <4>2, <5>1, <5>3
          <6>2. m < n /\ clusters[p].content[m + 1] = y
            BY <1>h, <4>2, <5>1, <5>3, <6>1
          <6>3. m + 1 \in 1 .. Len(clusters[p].content)
            BY <1>e, <1>g, <6>2
          <6> QED
            BY SMTT(30), <1>f, <6>1, <6>2, <6>3
        <5> QED
          BY <5>2, <5>3
      <4>4. Len(d.content) = n + 1
        BY <1>f, <1>g
      <4>5. Holds(clusters[q].content, q)'
        BY <1>c, <3>3, <4>3, <4>4 DEF Holds
      <4> QED
        BY <2>1, <3>3, <4>1, <4>5
    <3> QED
      BY <3>2, <3>3
  <2>6. ReadyInv'
    <3>1. \A k \in 1 .. Len(clustersList) :
            clusters'[clustersList[k]] = clusters[clustersList[k]] /\ clustersList[k] \in Numbered /\ clustersList[k] # p
      BY <1>c, <1>n, <1>p DEF Numbered
    <3>2. SUFFICES ASSUME NEW k \in 1 .. Len(clustersList), k > Len(chunks),
                          clusters[clustersList[k]].closed
                   PROVE  Holds(Payload(clusters[clustersList[k]]), clustersList[k])'
      BY <1>u, <3>1 DEF ReadyInv
    <3>3. Holds(Payload(clusters[clustersList[k]]), clustersList[k])
      BY <3>2 DEF IInv, ContentInv, ReadyInv
    <3>4. PICK q \in Numbered : q = clustersList[k] /\ q # p /\ clusters'[q] = clusters[q]
      BY <3>1
    <3>a. Payload(clusters[q])' = Payload(clusters[q])
      BY <3>4 DEF Payload
    <3>5. Holds(Payload(clusters[q]), q)'
      BY SMTT(30), <2>2, <3>3, <3>4, <3>a DEF Holds
    <3> QED
      BY <1>u, <3>4, <3>5 DEF Holds
  <2>7. WrittenInv'
    <3>1. \A k \in 1 .. Len(chunks) :
            /\ k \in 1 .. Len(clustersList)
            /\ clusters'[clustersList[k]] = clusters[clustersList[k]]
            /\ clustersList[k] \in Numbered /\ clustersList[k] # p
      BY <1>c, <1>n, <1>p, <1>r DEF Numbered
    <3>2. SUFFICES ASSUME NEW k \in 1 .. Len(chunks)
                   PROVE  /\ Holds(chunks[k].blobs, clustersList[k])'
                          /\ clusters[clustersList[k]].offset = chunks[k].at
                          /\ clusters[clustersList[k]].closed
      BY <1>u, <3>1 DEF WrittenInv
    <3>3. /\ Holds(chunks[k].blobs, clustersList[k])
          /\ clusters[clustersList[k]].offset = chunks[k].at
          /\ clusters[clustersList[k]].closed
      BY DEF IInv, ContentInv, WrittenInv
    <3>4. PICK q \in Numbered : q = clustersList[k] /\ q # p
      BY <3>1
    <3>5. \A y \in Blobs : place'[y].cluster = q =>
                    place'[y].blob < Len(chunks[k].blobs) /\ chunks[k].blobs[place'[y].blob + 1] = y
      BY <2>2, <3>3, <3>4
    <3> QED
      BY <1>u, <3>3, <3>4, <3>5 DEF Holds
  <2> QED
    BY <2>3, <2>4, <2>5, <2>6, <2>7 DEF ContentInv
<1>9. IndexInv'
  <2>1. BeforeIndexTask' <=> mainPc' = "handle"
    BY <1>p, <1>u, <1>v DEF BeforeIndexTask, IInv, TypeOK
  <2>2. BeforeIndexTask <=> handler = 0
    BY <1>v DEF BeforeIndexTask
  <2>3. WithIndex => \A i \in (added \ Metadata) \cap HasIndexData :
          i \in db.documents \/ i \in liveIndex \/ (i = call.blob /\ BeforeIndexTask')
    <3>1. handler # 0 => b \notin Items
      BY <1>v DEF IInv, TypeOK, MainInv, AddItemContent
    <3>2. HasIndexData \subseteq Items
      BY ConstantsAssumption
    <3> QED
      BY <1>b, <1>v, <2>1, <2>2, <3>1, <3>2 DEF IInv, IndexInv
  <2>4. BeforeIndexTask' => call.blob \notin liveIndex
    BY <1>v, <2>1, <2>2 DEF IInv, IndexInv
  <2>5. ~db.open => handler' > 0
    BY <1>v DEF IInv, TypeOK, IndexInv
  <2> QED
    BY <1>u, <1>v, <2>3, <2>4, <2>5 DEF IInv, IndexInv, Holding
<1>10. OffsetInv'
  BY <1>u DEF IInv, OffsetInv
<1> QED
  BY <1>1, <1>2, <1>3, <1>4, <1>5, <1>6, <1>6a, <1>7, <1>8, <1>9, <1>10 DEF IInv

\* A fresh cluster, which no queue or thread knows, becomes the open one.
LEMMA ReopenStep == ASSUME IInv, Reopen PROVE IInv'
<1> USE DEF mainVars, dataVars, workerVars, writerVars, queueVars, liveVars, threadVars,
           fileVars, outVars, mainOnly, NullPtr
<1>a. PICK p : p = call.closing
  OBVIOUS
<1>b. PICK m \in Nat : m = Len(clusters)
  BY DEF IInv, TypeOK
<1>p. /\ p # 0 /\ p \in 1 .. m /\ p \in Numbered /\ mainPc = "reopen"
      /\ p = IF call.comp THEN compCluster ELSE uncompCluster
  <2>1. /\ call.closing # 0 /\ Len(clustersList) > 0 /\ call.closing = clustersList[Len(clustersList)]
        /\ call.closing = OpenCluster(call.comp) /\ mainPc = "reopen"
    BY DEF IInv, ClosingInv, Reopen
  <2>2. Len(clustersList) \in 1 .. Len(clustersList)
    BY <2>1 DEF IInv, TypeOK
  <2> QED
    BY <1>a, <1>b, <2>1, <2>2 DEF IInv, TypeOK, Numbered, OpenCluster
<1>d. PICK d \in ClusterType :
        /\ d = NewCluster(call.comp /\ Compression)
        /\ ~d.closed /\ d.zip = <<>>
        /\ Len(d.content) = d.count
        /\ Len(d.blobOffsets) = d.count + 1
  <2>1. (call.comp /\ Compression) \in BOOLEAN
    OBVIOUS
  <2> QED
    BY <2>1, NewClusterType
<1>c. /\ clusters' \in Seq(ClusterType) /\ Len(clusters') = m + 1
      /\ \A q \in 1 .. m : clusters'[q] = clusters[q]
      /\ clusters'[m + 1] = d
  <2>1. clusters' = Append(clusters, d) /\ clusters \in Seq(ClusterType)
    BY <1>d DEF Reopen, FreshCluster, IInv, TypeOK
  <2> QED
    BY <1>b, <2>1, AppendSeq
<1>o. \/ compCluster' = m + 1 /\ uncompCluster' = uncompCluster /\ p = compCluster
      \/ uncompCluster' = m + 1 /\ compCluster' = compCluster /\ p = uncompCluster
  BY <1>b, <1>p DEF Reopen
<1>u. UNCHANGED <<handler, poisons, added, clustersList, place, titleListBlobOffset, taskList,
                 clusterToWrite, liveIndex, liveCluster, workerPc, workerTask, writerPc,
                 writerCluster, db, chunks, fileEnd, checksum, zimName>>
  BY DEF Reopen
<1>k. /\ call' \in CallType /\ call'.closing = 0 /\ call'.blob = call.blob /\ mainPc' = call.ret
      /\ call.ret \in {"addContent", "closeUncomp", "waitTasks"}
      /\ call.ret = "addContent" => (call.blob \in Items <=> handler = 0)
      /\ call.ret # "addContent" => handler > 0
  <2>1. /\ call' = [call EXCEPT !.closing = 0, !.push = NullTask] /\ call \in CallType
        /\ mainPc' = call.ret
    BY DEF Reopen, IInv, TypeOK
  <2>2. call' \in CallType /\ call'.closing = 0 /\ call'.blob = call.blob
    BY <2>1, NullTaskType DEF CallType
  <2> QED
    BY <1>a, <1>p, <2>1, <2>2 DEF IInv, MainInv
<1>n. Numbered' = Numbered /\ Numbered \subseteq 1 .. m
  BY <1>b, <1>u DEF Numbered, IInv, TypeOK
<1>r. /\ Len(chunks) \in Nat /\ Len(clustersList) \in Nat /\ Len(chunks) <= Len(clustersList)
  BY ChunksNumbered DEF IInv
<1>l. \A k \in 1 .. Len(clustersList) : clustersList[k] \in 1 .. m /\ clustersList[k] \in Numbered
  BY <1>b DEF IInv, TypeOK, Numbered
<1>1. TypeOK'
  <2>1. compCluster' \in 1 .. (m + 1) /\ uncompCluster' \in 1 .. (m + 1)
    BY <1>b, <1>o DEF IInv, TypeOK
  <2>2. /\ clustersList' \in Seq(1 .. (m + 1)) /\ clusterToWrite' \in Seq(0 .. (m + 1))
        /\ writerCluster' \in 0 .. (m + 1)
    BY <1>b, <1>u DEF IInv, TypeOK
  <2>3. place' \in [Blobs -> [cluster : 0 .. (m + 1), blob : Nat]]
    BY <1>b, <1>u DEF IInv, TypeOK
  <2>4. isExtended' \in BOOLEAN
    BY DEF Reopen, ExtendedSoFar
  <2> QED
    BY <1>c, <1>k, <1>u, <2>1, <2>2, <2>3, <2>4 DEF IInv, TypeOK, MainPcs
<1>2. MainInv'
  BY <1>k, <1>u DEF IInv, TypeOK, MainInv, FinishPcs, Draining
<1>3. ClosingInv'
  BY <1>k DEF ClosingInv
<1>4. OpenInv'
  <2>1. compCluster' # uncompCluster' /\ compCluster' \notin Numbered /\ uncompCluster' \notin Numbered
    BY <1>a, <1>b, <1>n, <1>o, <1>p DEF IInv, TypeOK, OpenInv
  <2>2. \A k \in 1 .. Len(clustersList) : clusters'[clustersList[k]] = clusters[clustersList[k]]
    BY <1>c, <1>l
  <2> QED
    BY <1>n, <1>u, <2>1, <2>2 DEF IInv, OpenInv
<1>5. TaskInv'
  BY <1>k, <1>u DEF IInv, TaskInv, Holding
<1>6. TaskClusterInv'
  <2>1. \A q \in Numbered : clusters'[q] = clusters[q]
    BY <1>c, <1>n
  <2>2. \A q \in Numbered : Unprocessed(q)' <=> Unprocessed(q)
    BY <2>1 DEF Unprocessed
  <2> QED
    BY <1>n, <1>u, <1>k, <2>1, <2>2 DEF IInv, TaskClusterInv
<1>6a. QueueInv'
  BY <1>k, <1>p, <1>u DEF IInv, QueueInv, InFlight, ToPush, NullAtEnd, Drained
<1>7. WriterInv'
  <2>1. writerPc \in {"popCluster", "writeCluster", "clearData"} => clusters'[writerCluster].closed
    BY <1>b, <1>c DEF IInv, TypeOK, WriterInv
  <2> QED
    BY <1>k, <1>u, <2>1 DEF IInv, WriterInv
<1>8. ContentInv'
  <2>1. \A q : InSetClosed(q)' <=> InSetClosed(q)
    BY <1>u DEF InSetClosed
  <2>3. OpenContentInv'
    <3>1. \A q \in {compCluster, uncompCluster} : q \notin Numbered => clusters'[q] = clusters[q]
      BY <1>b, <1>c DEF IInv, TypeOK
    <3>2. \A q \in {compCluster', uncompCluster'} : q = m + 1 \/ q \in {compCluster, uncompCluster}
      BY <1>o
    <3> QED
      BY <1>c, <1>d, <1>n, <3>1, <3>2 DEF IInv, ContentInv, OpenContentInv
  <2>4. PlaceInv'
    BY <1>u, <1>n, <1>o, <1>p DEF IInv, ContentInv, PlaceInv
  <2>5. HeldInv'
    <3>1. SUFFICES ASSUME NEW q \in Numbered \cup {compCluster', uncompCluster'}
                   PROVE  /\ ~clusters'[q].closed /\ ~InSetClosed(q)' => Holds(clusters[q].content, q)'
                          /\ InSetClosed(q)' => Holds(Payload(clusters[q]), q)'
      BY <1>n DEF HeldInv
    <3>2. CASE q = m + 1
      <4>1. \A b \in Blobs : place'[b].cluster # m + 1
        BY <1>b, <1>u DEF IInv, TypeOK
      <4> QED
        BY <3>2, <4>1 DEF Holds
    <3>3. CASE q # m + 1
      <4>1. q \in 1 .. m /\ q \in Numbered \cup {compCluster, uncompCluster}
        BY <1>b, <1>n, <1>o, <3>3 DEF IInv, TypeOK
      <4>2. clusters'[q] = clusters[q]
        BY <1>c, <4>1
      <4>3. PICK x, y : x = clusters[q].content /\ x = clusters'[q].content
                     /\ y = Payload(clusters[q]) /\ y = Payload(clusters[q])'
        BY <4>2 DEF Payload
      <4>4. (Holds(x, q) => Holds(x, q)') /\ (Holds(y, q) => Holds(y, q)')
        BY <1>u DEF Holds
      <4>5. (Holds(clusters[q].content, q) => Holds(clusters[q].content, q)')
         /\ (Holds(Payload(clusters[q]), q) => Holds(Payload(clusters[q]), q)')
        BY <4>3, <4>4 DEF Holds
      <4> QED
        BY <2>1, <4>1, <4>2, <4>5 DEF IInv, ContentInv, HeldInv
    <3> QED
      BY <3>2, <3>3
  <2>6. ReadyInv'
    <3>2. SUFFICES ASSUME NEW k \in 1 .. Len(clustersList), k > Len(chunks),
                          clusters'[clustersList[k]].closed
                   PROVE  Holds(Payload(clusters[clustersList[k]]), clustersList[k])'
      BY <1>u DEF ReadyInv
    <3>3. PICK q \in 1 .. m : q = clustersList[k] /\ clusters'[q] = clusters[q]
      BY <1>c, <1>l
    <3>4. Holds(Payload(clusters[q]), q)
      BY <3>2, <3>3 DEF IInv, ContentInv, ReadyInv
    <3>a. Payload(clusters[q])' = Payload(clusters[q])
      BY <3>3 DEF Payload
    <3>5. Holds(Payload(clusters[q]), q)'
      BY <1>u, <3>4, <3>a DEF Holds
    <3> QED
      BY <1>u, <3>3, <3>5 DEF Holds
  <2>7. WrittenInv'
    <3>1. \A k \in 1 .. Len(chunks) : k \in 1 .. Len(clustersList)
      BY <1>r
    <3>2. \A k \in 1 .. Len(chunks) : clusters'[clustersList[k]] = clusters[clustersList[k]]
      BY <1>c, <1>l, <3>1
    <3> QED
      BY <1>u, <3>2 DEF IInv, ContentInv, WrittenInv, Holds
  <2> QED
    BY <2>3, <2>4, <2>5, <2>6, <2>7 DEF ContentInv
<1>9. IndexInv'
  <2>1. BeforeIndexTask' <=> BeforeIndexTask
    BY <1>a, <1>p, <1>k, <1>u DEF BeforeIndexTask, IInv, TypeOK
  <2> QED
    BY <1>k, <1>u, <2>1 DEF IInv, IndexInv, Holding
<1>10. OffsetInv'
  BY <1>u DEF IInv, OffsetInv
<1> QED
  BY <1>1, <1>2, <1>3, <1>4, <1>5, <1>6, <1>6a, <1>7, <1>8, <1>9, <1>10 DEF IInv

\* A step of a worker that does not touch a cluster only has to keep track of
\* the tasks: what it leaves alone, and which clusters are being closed.
LEMMA WorkerFrame ==
  ASSUME IInv,
         UNCHANGED <<mainVars, clusters, dataVars, clusterToWrite, writerVars, fileVars, zimName>>,
         \A p : InSetClosed(p)' <=> InSetClosed(p)
  PROVE  /\ MainInv' /\ ClosingInv' /\ OpenInv' /\ QueueInv' /\ WriterInv' /\ ContentInv' /\ OffsetInv'
         /\ Numbered' = Numbered /\ (BeforeIndexTask' <=> BeforeIndexTask)
<1> USE DEF mainVars, dataVars, writerVars, fileVars, NullPtr
<1>1. Numbered' = Numbered
  BY DEF Numbered
<1>2. MainInv' /\ ClosingInv'
  BY DEF IInv, MainInv, ClosingInv, OpenCluster
<1>3. OpenInv'
  BY <1>1 DEF IInv, OpenInv
<1>4. QueueInv' /\ WriterInv'
  BY DEF IInv, QueueInv, WriterInv, InFlight, ToPush, NullAtEnd
<1>5. OpenContentInv' /\ PlaceInv'
  BY <1>1 DEF IInv, ContentInv, OpenContentInv, PlaceInv
<1>6. HeldInv'
  BY <1>1 DEF IInv, ContentInv, HeldInv, Holds, Payload
<1>7. ReadyInv' /\ WrittenInv'
  BY DEF IInv, ContentInv, ReadyInv, WrittenInv, Holds, Payload
<1> QED
  BY <1>1, <1>2, <1>3, <1>4, <1>5, <1>6, <1>7 DEF IInv, ContentInv, OffsetInv, BeforeIndexTask

\* The first task of the queue moves to the hands of one worker.
LEMMA PopTaskStep == ASSUME IInv, NEW w \in Workers, PopTask(w) PROVE IInv'
<1> USE DEF mainVars, dataVars, workerVars, writerVars, queueVars, liveVars, threadVars,
           fileVars, outVars, mainOnly, NullPtr, workerUnchanged
<1>a. /\ taskList \in Seq(TaskType) /\ Head(taskList) \in TaskType
      /\ Head(taskList) = taskList[1]
      /\ Len(taskList) \in Nat /\ Len(taskList) > 0
      /\ taskList' \in Seq(TaskType)
      /\ Len(taskList') = Len(taskList) - 1
      /\ \A k \in 1 .. Len(taskList') : taskList'[k] = taskList[k + 1]
  BY TailSeq DEF IInv, TypeOK, PopTask
<1>t. PICK t \in TaskType : t = taskList[1] /\ t = Head(taskList)
  BY <1>a
<1>i. \A k \in 1 .. Len(taskList') : k + 1 \in 1 .. Len(taskList) /\ k + 1 # 1
  BY <1>a
<1>w. /\ workerTask' = [workerTask EXCEPT ![w] = t] /\ workerPc[w] = "pop"
      /\ workerPc' = [workerPc EXCEPT ![w] = IF t = NullTask THEN "exited" ELSE "run"]
  BY <1>t DEF PopTask
<1>v. /\ workerTask' \in [Workers -> TaskType] /\ workerTask'[w] = t
      /\ workerPc'[w] = IF t = NullTask THEN "exited" ELSE "run"
      /\ \A v \in Workers : v # w => workerTask'[v] = workerTask[v] /\ workerPc'[v] = workerPc[v]
      /\ workerPc' \in [Workers -> {"pop", "run", "setClosed", "addDocument", "delete", "exited"}]
  BY <1>w DEF IInv, TypeOK
<1>u. UNCHANGED <<mainVars, clusters, dataVars, clusterToWrite, writerVars, fileVars, zimName, db, liveVars>>
  BY DEF PopTask
<1>0. \A p : InSetClosed(p)' <=> InSetClosed(p)
  BY <1>v, <1>w DEF InSetClosed
<1>1. /\ MainInv' /\ ClosingInv' /\ OpenInv' /\ QueueInv' /\ WriterInv' /\ ContentInv' /\ OffsetInv'
      /\ Numbered' = Numbered /\ (BeforeIndexTask' <=> BeforeIndexTask)
  BY <1>0, <1>u, WorkerFrame
<1>2. TypeOK'
  BY <1>a, <1>u, <1>v DEF IInv, TypeOK
<1>3. TaskInv'
  <2>1. \A j, k \in 1 .. Len(taskList') : taskList'[j] = taskList'[k] /\ taskList'[j] # NullTask => j = k
    <3>1. SUFFICES ASSUME NEW j \in 1 .. Len(taskList'), NEW k \in 1 .. Len(taskList'),
                          taskList'[j] = taskList'[k], taskList'[j] # NullTask
                   PROVE  j = k
      OBVIOUS
    <3>2. taskList[j + 1] = taskList[k + 1] /\ taskList[j + 1] # NullTask
      BY <1>a, <3>1
    <3>3. j + 1 = k + 1
      BY <1>i, <3>2 DEF IInv, TaskInv
    <3> QED
      BY <3>3
  <2>2. \A k \in 1 .. Len(taskList') : t # NullTask => taskList'[k] # t
    <3>1. 1 \in 1 .. Len(taskList)
      BY <1>a
    <3> QED
      BY <1>a, <1>i, <1>t, <3>1 DEF IInv, TaskInv
  <2>3. \A v \in Workers : Holding(v) => workerTask[v] # t
    <3>1. 1 \in 1 .. Len(taskList)
      BY <1>a
    <3> QED
      BY <1>t, <3>1 DEF IInv, TaskInv
  <2>4. \A v \in Workers : v # w => (Holding(v)' <=> Holding(v))
    BY <1>v DEF Holding
  <2>5. Holding(w)' => t # NullTask
    BY <1>v DEF Holding
  <2>6. \A v \in Workers : Holding(v) => \A k \in 1 .. Len(taskList') : taskList'[k] # workerTask[v]
    BY <1>a, <1>i DEF IInv, TaskInv
  <2>7. mainPc \in {"taskWait", "taskPush"} /\ call.push # NullTask =>
           /\ \A k \in 1 .. Len(taskList') : taskList'[k] # call.push
           /\ t # call.push
    <3>1. 1 \in 1 .. Len(taskList)
      BY <1>a
    <3> QED
      BY <1>a, <1>i, <1>t, <3>1 DEF IInv, TaskInv
  <2>8. ~Holding(w)
    BY <1>w DEF Holding
  <2>9. \A v \in Workers : Holding(v)' =>
           /\ workerTask'[v] # NullTask
           /\ \A k \in 1 .. Len(taskList') : taskList'[k] # workerTask'[v]
           /\ \A x \in Workers : Holding(x)' /\ workerTask'[x] = workerTask'[v] => x = v
    BY <1>v, <2>2, <2>3, <2>4, <2>5, <2>6 DEF IInv, TaskInv
  <2>10. mainPc \in {"taskWait", "taskPush"} /\ call.push # NullTask =>
           \A v \in Workers : Holding(v)' => workerTask'[v] # call.push
    BY <1>v, <2>4, <2>7 DEF IInv, TaskInv
  <2>11. \A v \in Workers : /\ workerPc'[v] = "setClosed" => workerTask'[v].kind = "cluster"
                            /\ workerPc'[v] = "addDocument" => workerTask'[v].kind = "index"
    BY <1>v DEF IInv, TaskInv
  <2> QED
    BY <1>u, <2>1, <2>7, <2>9, <2>10, <2>11 DEF TaskInv
<1>4. TaskClusterInv'
  <2>1. 1 \in 1 .. Len(taskList)
    BY <1>a
  <2>2. \A p : Unprocessed(p)' <=> Unprocessed(p)
    BY <1>u DEF Unprocessed
  <2>3. t.kind = "cluster" => t.of \in Numbered /\ Unprocessed(t.of)
    BY <1>t, <2>1 DEF IInv, TaskClusterInv
  <2>4. \A k \in 1 .. Len(taskList') : taskList'[k].kind = "cluster" =>
          taskList'[k].of \in Numbered /\ Unprocessed(taskList'[k].of)
    BY <1>a, <1>i DEF IInv, TaskClusterInv
  <2>5. \A v \in Workers : workerTask'[v].kind = "cluster" =>
          /\ workerTask'[v].of \in Numbered
          /\ workerPc'[v] = "run" => Unprocessed(workerTask'[v].of)
          /\ workerPc'[v] = "setClosed" => ~clusters[workerTask'[v].of].closed
    BY <1>v, <2>3 DEF IInv, TaskClusterInv
  <2> QED
    BY <1>1, <1>u, <2>4, <2>5 DEF IInv, TaskClusterInv, Unprocessed
<1>5. IndexInv'
  <2>1. 1 \in 1 .. Len(taskList)
    BY <1>a
  <2>2. t.kind = "index" => t.of \in liveIndex
    BY <1>t, <2>1 DEF IInv, IndexInv
  <2>3. \A k \in 1 .. Len(taskList') : taskList'[k].kind = "index" => taskList'[k].of \in liveIndex
    BY <1>a, <1>i DEF IInv, IndexInv
  <2>4. \A v \in Workers : workerTask'[v].kind = "index" /\ Holding(v)' =>
          /\ workerTask'[v].of \in liveIndex
          /\ workerPc'[v] = "addDocument" => workerTask'[v].of \in HasIndexData
          /\ workerPc'[v] = "delete" /\ workerTask'[v].of \in HasIndexData =>
               workerTask'[v].of \in db.documents
    BY <1>v, <2>2 DEF IInv, IndexInv, Holding
  <2> QED
    BY <1>1, <1>u, <2>3, <2>4 DEF IInv, IndexInv
<1> QED
  BY <1>1, <1>2, <1>3, <1>4, <1>5 DEF IInv

\* A task is what its kind and its subject say.
LEMMA TaskEq ==
  ASSUME NEW s \in TaskType, NEW t \in TaskType, s.kind = t.kind, s.of = t.of
  PROVE  s = t
BY DEF TaskType, NullTask

\* A worker moves its program counter and changes nothing but it.
LEMMA WorkerPcFacts ==
  ASSUME IInv, NEW w \in Workers,
         NEW pc \in {"pop", "run", "setClosed", "addDocument", "delete", "exited"},
         workerPc' = [workerPc EXCEPT ![w] = pc], workerTask' = workerTask
  PROVE  /\ workerPc' \in [Workers -> {"pop", "run", "setClosed", "addDocument", "delete", "exited"}]
         /\ workerPc'[w] = pc
         /\ \A v \in Workers : v # w => workerPc'[v] = workerPc[v]
         /\ \A v \in Workers : v # w => (Holding(v)' <=> Holding(v))
         /\ workerTask' \in [Workers -> TaskType]
BY DEF IInv, TypeOK, Holding

\* TaskInv carries over when a worker keeps its task.
LEMMA WorkerTaskInv ==
  ASSUME IInv, NEW w \in Workers,
         \A v \in Workers : v # w => workerPc'[v] = workerPc[v],
         Holding(w),
         workerPc'[w] = "setClosed" => workerTask[w].kind = "cluster",
         workerPc'[w] = "addDocument" => workerTask[w].kind = "index",
         UNCHANGED <<mainPc, call, taskList, workerTask>>
  PROVE  TaskInv'
<1>1. \A v \in Workers : Holding(v)' => Holding(v)
  BY DEF Holding
<1> QED
  BY <1>1 DEF IInv, TaskInv

\* An item without index data goes straight to the delete.
LEMMA RunIndexTaskStep == ASSUME IInv, NEW w \in Workers, RunIndexTask(w) PROVE IInv'
<1> USE DEF mainVars, dataVars, workerVars, writerVars, queueVars, liveVars, threadVars,
           fileVars, outVars, mainOnly, NullPtr, workerUnchanged
<1>w. PICK pc \in {"addDocument", "delete"} :
        /\ workerPc' = [workerPc EXCEPT ![w] = pc]
        /\ pc = IF workerTask[w].of \in HasIndexData THEN "addDocument" ELSE "delete"
  BY DEF RunIndexTask
<1>u. /\ UNCHANGED <<mainVars, clusters, dataVars, clusterToWrite, writerVars, fileVars, zimName, db,
                    liveVars, workerTask, taskList>>
      /\ workerPc[w] = "run" /\ workerTask[w].kind = "index"
  BY DEF RunIndexTask
<1>v. /\ workerPc'[w] = pc
      /\ \A v \in Workers : v # w => workerPc'[v] = workerPc[v]
      /\ workerPc' \in [Workers -> {"pop", "run", "setClosed", "addDocument", "delete", "exited"}]
  BY <1>u, <1>w, WorkerPcFacts
<1>0. \A p : InSetClosed(p)' <=> InSetClosed(p)
  BY <1>u, <1>v DEF InSetClosed
<1>1. /\ MainInv' /\ ClosingInv' /\ OpenInv' /\ QueueInv' /\ WriterInv' /\ ContentInv' /\ OffsetInv'
      /\ Numbered' = Numbered /\ (BeforeIndexTask' <=> BeforeIndexTask)
  BY <1>0, <1>u, WorkerFrame
<1>2. TypeOK'
  BY <1>u, <1>v DEF IInv, TypeOK
<1>3. TaskInv'
  BY <1>u, <1>v, WorkerTaskInv DEF Holding
<1>4. TaskClusterInv'
  BY <1>1, <1>u, <1>v DEF IInv, TaskClusterInv, Unprocessed
<1>5. IndexInv'
  BY <1>1, <1>u, <1>v, <1>w DEF IInv, IndexInv, Holding
<1> QED
  BY <1>1, <1>2, <1>3, <1>4, <1>5 DEF IInv

\* The document is in the database before its task stops being counted.
LEMMA AddDocumentStep == ASSUME IInv, NEW w \in Workers, AddDocument(w) PROVE IInv'
<1> USE DEF mainVars, dataVars, workerVars, writerVars, queueVars, liveVars, threadVars,
           fileVars, outVars, mainOnly, NullPtr, workerUnchanged
<1>w. workerPc' = [workerPc EXCEPT ![w] = "delete"] /\ workerPc[w] = "addDocument"
  BY DEF AddDocument
<1>u. UNCHANGED <<mainVars, clusters, dataVars, clusterToWrite, writerVars, fileVars, zimName,
                  liveVars, workerTask, taskList>>
  BY DEF AddDocument
<1>i. PICK i : i = workerTask[w].of
  OBVIOUS
<1>j. /\ workerTask[w].kind = "index" /\ i \in liveIndex /\ i \in HasIndexData
      /\ i \in added \ Metadata /\ i \in Items
  BY <1>i, <1>w DEF IInv, TypeOK, TaskInv, IndexInv, Holding
<1>d. /\ db' \in [open : BOOLEAN, documents : SUBSET Items] /\ db'.open = db.open
      /\ db'.documents = db.documents \cup {i}
  BY <1>i, <1>j DEF IInv, TypeOK, AddDocument
<1>v. /\ workerPc'[w] = "delete"
      /\ \A v \in Workers : v # w => workerPc'[v] = workerPc[v]
      /\ workerPc' \in [Workers -> {"pop", "run", "setClosed", "addDocument", "delete", "exited"}]
  BY <1>u, <1>w, WorkerPcFacts
<1>0. \A p : InSetClosed(p)' <=> InSetClosed(p)
  BY <1>u, <1>v, <1>w DEF InSetClosed
<1>1. /\ MainInv' /\ ClosingInv' /\ OpenInv' /\ QueueInv' /\ WriterInv' /\ ContentInv' /\ OffsetInv'
      /\ Numbered' = Numbered /\ (BeforeIndexTask' <=> BeforeIndexTask)
  BY <1>0, <1>u, WorkerFrame
<1>2. TypeOK'
  BY <1>d, <1>u, <1>v DEF IInv, TypeOK
<1>3. TaskInv'
  BY <1>u, <1>v, <1>w, WorkerTaskInv DEF Holding
<1>4. TaskClusterInv'
  BY <1>1, <1>u, <1>v DEF IInv, TaskClusterInv, Unprocessed
<1>5. IndexInv'
  BY <1>1, <1>d, <1>i, <1>j, <1>u, <1>v, <1>w DEF IInv, IndexInv, Holding
<1> QED
  BY <1>1, <1>2, <1>3, <1>4, <1>5 DEF IInv

\* A task that stops being counted has done its work.
LEMMA DeleteTaskStep == ASSUME IInv, NEW w \in Workers, DeleteTask(w) PROVE IInv'
<1> USE DEF mainVars, dataVars, workerVars, writerVars, queueVars, liveVars, threadVars,
           fileVars, outVars, mainOnly, NullPtr, workerUnchanged
<1>w. workerPc' = [workerPc EXCEPT ![w] = "pop"] /\ workerPc[w] = "delete"
  BY DEF DeleteTask
<1>u. UNCHANGED <<mainVars, clusters, dataVars, clusterToWrite, writerVars, fileVars, zimName,
                  db, workerTask, taskList>>
  BY DEF DeleteTask
<1>t. PICK t \in TaskType : t = workerTask[w]
  BY DEF IInv, TypeOK
<1>l. /\ liveCluster' \subseteq Nat
      /\ liveIndex' = IF t.kind = "index" THEN liveIndex \ {t.of} ELSE liveIndex
  BY <1>t DEF IInv, TypeOK, DeleteTask
<1>v. /\ workerPc'[w] = "pop"
      /\ \A v \in Workers : v # w => workerPc'[v] = workerPc[v]
      /\ \A v \in Workers : v # w => (Holding(v)' <=> Holding(v))
      /\ workerPc' \in [Workers -> {"pop", "run", "setClosed", "addDocument", "delete", "exited"}]
  BY <1>u, <1>w, WorkerPcFacts
<1>h. Holding(w) /\ ~Holding(w)'
  BY <1>v, <1>w DEF Holding
<1>0. \A p : InSetClosed(p)' <=> InSetClosed(p)
  BY <1>u, <1>v, <1>w DEF InSetClosed
<1>1. /\ MainInv' /\ ClosingInv' /\ OpenInv' /\ QueueInv' /\ WriterInv' /\ ContentInv' /\ OffsetInv'
      /\ Numbered' = Numbered /\ (BeforeIndexTask' <=> BeforeIndexTask)
  BY <1>0, <1>u, WorkerFrame
<1>2. TypeOK'
  BY <1>l, <1>u, <1>v DEF IInv, TypeOK
<1>3. TaskInv'
  BY <1>h, <1>u, <1>v, WorkerTaskInv
<1>4. TaskClusterInv'
  BY <1>1, <1>u, <1>v DEF IInv, TaskClusterInv, Unprocessed
<1>5. IndexInv'
  <2>1. \A k \in 1 .. Len(taskList) : taskList[k].kind = "index" => taskList[k].of \in liveIndex'
    <3>1. \A k \in 1 .. Len(taskList) : taskList[k] \in TaskType /\ taskList[k] # t
      BY <1>h, <1>t DEF IInv, TypeOK, TaskInv
    <3> QED
      BY <1>l, <3>1, TaskEq DEF IInv, IndexInv
  <2>2. \A v \in Workers : workerTask[v].kind = "index" /\ Holding(v)' => workerTask[v].of \in liveIndex'
    <3>1. \A v \in Workers : Holding(v)' => workerTask[v] \in TaskType /\ workerTask[v] # t /\ Holding(v)
      BY <1>h, <1>t, <1>v DEF IInv, TypeOK, TaskInv
    <3> QED
      BY <1>l, <3>1, TaskEq DEF IInv, IndexInv
  <2>3. mainPc \in {"taskWait", "taskPush"} /\ call.push.kind = "index" => call.push.of \in liveIndex'
    <3>1. call.push \in TaskType
      BY DEF IInv, TypeOK, CallType
    <3>2. mainPc \in {"taskWait", "taskPush"} /\ call.push.kind = "index" => call.push # t
      BY <1>h, <1>t DEF IInv, TaskInv, NullTask
    <3> QED
      BY <1>l, <3>1, <3>2, TaskEq DEF IInv, IndexInv
  <2>4. t.kind = "index" /\ t.of \in HasIndexData => t.of \in db.documents
    BY <1>h, <1>t, <1>w DEF IInv, IndexInv
  <2>5. liveIndex' \subseteq liveIndex
    BY <1>l
  <2>6. WithIndex => \A i \in (added \ Metadata) \cap HasIndexData :
          i \in db.documents \/ i \in liveIndex' \/ (i = call.blob /\ BeforeIndexTask)
    BY <1>l, <2>4 DEF IInv, IndexInv
  <2>7. \A v \in Workers : workerTask[v].kind = "index" /\ Holding(v)' =>
          /\ workerPc'[v] = "addDocument" => workerTask[v].of \in HasIndexData
          /\ workerPc'[v] = "delete" /\ workerTask[v].of \in HasIndexData => workerTask[v].of \in db.documents
    BY <1>h, <1>v DEF IInv, IndexInv
  <2> QED
    BY <1>1, <1>u, <2>1, <2>2, <2>3, <2>5, <2>6, <2>7 DEF IInv, IndexInv
<1> QED
  BY <1>1, <1>2, <1>3, <1>4, <1>5 DEF IInv

\* Workers and the writer thread only touch clusters that have a number: the
\* open ones are main's.
LEMMA NumberedUpdate ==
  ASSUME IInv, NEW p \in Numbered, NEW d \in ClusterType,
         clusters' = [clusters EXCEPT ![p] = d], d.index = clusters[p].index,
         UNCHANGED <<mainPc, call, handler, added, compCluster, uncompCluster, clustersList, place>>
  PROVE  /\ p \in 1 .. Len(clusters) /\ clusters[p] \in ClusterType
         /\ clusters' \in Seq(ClusterType) /\ Len(clusters') = Len(clusters)
         /\ clusters'[p] = d
         /\ \A q \in 1 .. Len(clusters) : q # p => clusters'[q] = clusters[q]
         /\ Numbered' = Numbered /\ Numbered \subseteq 1 .. Len(clusters)
         /\ MainInv' /\ ClosingInv' /\ OpenInv' /\ OpenContentInv' /\ PlaceInv'
<1>1. p \in 1 .. Len(clusters) /\ clusters \in Seq(ClusterType) /\ Numbered \subseteq 1 .. Len(clusters)
  <2>1. Numbered \subseteq 1 .. Len(clusters)
    BY SMTT(30) DEF IInv, TypeOK, Numbered
  <2> QED
    BY <2>1 DEF IInv, TypeOK
<1>2. /\ clusters' \in Seq(ClusterType) /\ Len(clusters') = Len(clusters)
      /\ clusters'[p] = d
      /\ \A q \in 1 .. Len(clusters) : q # p => clusters'[q] = clusters[q]
  BY <1>1, UpdateSeq
<1>3. Numbered' = Numbered
  BY DEF Numbered
<1>4. MainInv' /\ ClosingInv'
  BY DEF IInv, MainInv, ClosingInv, OpenCluster
<1>5. OpenInv'
  <2>1. \A q \in Numbered : clusters'[q].index = clusters[q].index
    BY <1>1, <1>2
  <2>2. \A k \in 1 .. Len(clustersList) : clustersList[k] \in Numbered
    BY DEF Numbered
  <2> QED
    BY <1>3, <2>1, <2>2 DEF IInv, OpenInv
<1>6. OpenContentInv' /\ PlaceInv'
  <2>1. \A q \in {compCluster, uncompCluster} : q \notin Numbered => clusters'[q] = clusters[q]
    BY <1>2 DEF IInv, TypeOK
  <2> QED
    BY <1>3, <2>1 DEF IInv, ContentInv, OpenContentInv, PlaceInv
<1> QED
  BY <1>1, <1>2, <1>3, <1>4, <1>5, <1>6

\* No two tasks are about the same cluster.
LEMMA ClusterTaskUnique ==
  ASSUME IInv, NEW w \in Workers, Holding(w), workerTask[w].kind = "cluster"
  PROVE  /\ \A k \in 1 .. Len(taskList) : taskList[k].kind = "cluster" => taskList[k].of # workerTask[w].of
         /\ \A v \in Workers : Holding(v) /\ workerTask[v].kind = "cluster"
              /\ workerTask[v].of = workerTask[w].of => v = w
         /\ mainPc \in {"taskWait", "taskPush"} /\ call.push.kind = "cluster" =>
              call.push.of # workerTask[w].of
<1>1. workerTask[w] \in TaskType
  BY DEF IInv, TypeOK
<1>2. \A k \in 1 .. Len(taskList) : taskList[k] \in TaskType /\ taskList[k] # workerTask[w]
  BY DEF IInv, TypeOK, TaskInv
<1>3. \A v \in Workers : workerTask[v] \in TaskType /\ (Holding(v) /\ workerTask[v] = workerTask[w] => v = w)
  BY DEF IInv, TypeOK, TaskInv
<1>4. mainPc \in {"taskWait", "taskPush"} /\ call.push.kind = "cluster" =>
        call.push \in TaskType /\ call.push # workerTask[w]
  BY DEF IInv, TypeOK, CallType, TaskInv, NullTask
<1> QED
  BY <1>1, <1>2, <1>3, <1>4, TaskEq

\* What Cluster::close does before it sets `closed`.
LEMMA CompressedFacts ==
  ASSUME NEW c \in ClusterType
  PROVE  /\ Compressed(c) \in ClusterType
         /\ Compressed(c).index = c.index /\ Compressed(c).closed = c.closed
         /\ Compressed(c).offset = c.offset /\ Compressed(c).compressed = c.compressed
         /\ Payload(Compressed(c)) = c.content
<1>1. c.content \in Seq(Blobs) /\ <<>> \in Seq(Blobs) /\ <<>> \in Seq(Nat)
  BY DEF ClusterType
<1> QED
  BY <1>1 DEF Compressed, ClusterType, Payload

\* Compressing moves the content of one cluster, which only w has.
LEMMA RunClusterTaskStep == ASSUME IInv, NEW w \in Workers, RunClusterTask(w) PROVE IInv'
<1> USE DEF mainVars, dataVars, workerVars, writerVars, queueVars, liveVars, threadVars,
           fileVars, outVars, mainOnly, NullPtr, workerUnchanged, writerUnchanged
<1>w. /\ workerPc' = [workerPc EXCEPT ![w] = "setClosed"] /\ workerPc[w] = "run"
      /\ workerTask[w].kind = "cluster"
  BY DEF RunClusterTask
<1>u. UNCHANGED <<mainVars, dataVars, clusterToWrite, writerVars, fileVars, zimName,
                  db, liveVars, workerTask, taskList>>
  BY DEF RunClusterTask
<1>h. Holding(w)
  BY <1>w DEF Holding
<1>p. PICK p \in Numbered : p = workerTask[w].of /\ Unprocessed(p)
  BY <1>w DEF IInv, TaskClusterInv
<1>e. p \in 1 .. Len(clusters) /\ clusters[p] \in ClusterType
  BY DEF IInv, TypeOK, Numbered
<1>d. PICK d \in ClusterType :
        /\ d = Compressed(clusters[p])
        /\ d.index = clusters[p].index /\ d.closed = clusters[p].closed
        /\ d.offset = clusters[p].offset
        /\ Payload(d) = clusters[p].content
  BY <1>e, CompressedFacts
<1>c. /\ clusters' \in Seq(ClusterType) /\ Len(clusters') = Len(clusters)
      /\ clusters'[p] = d
      /\ \A q \in 1 .. Len(clusters) : q # p => clusters'[q] = clusters[q]
      /\ Numbered' = Numbered /\ Numbered \subseteq 1 .. Len(clusters)
      /\ MainInv' /\ ClosingInv' /\ OpenInv' /\ OpenContentInv' /\ PlaceInv'
  <2>1. clusters' = [clusters EXCEPT ![p] = d]
    BY <1>d, <1>p DEF RunClusterTask
  <2> QED
    BY <1>d, <1>u, <2>1, NumberedUpdate
<1>v. /\ workerPc'[w] = "setClosed"
      /\ \A v \in Workers : v # w => workerPc'[v] = workerPc[v]
      /\ workerPc' \in [Workers -> {"pop", "run", "setClosed", "addDocument", "delete", "exited"}]
  BY <1>u, <1>w, WorkerPcFacts
<1>x. /\ \A k \in 1 .. Len(taskList) : taskList[k].kind = "cluster" => taskList[k].of # p
      /\ \A v \in Workers : Holding(v) /\ workerTask[v].kind = "cluster" /\ workerTask[v].of = p => v = w
      /\ mainPc \in {"taskWait", "taskPush"} /\ call.push.kind = "cluster" => call.push.of # p
  BY <1>h, <1>p, <1>w, ClusterTaskUnique
<1>f. \A q \in 1 .. Len(clusters) : /\ clusters'[q].closed = clusters[q].closed
                                   /\ clusters'[q].offset = clusters[q].offset
  BY <1>c, <1>d
<1>r. /\ Len(chunks) \in Nat /\ Len(clustersList) \in Nat /\ Len(chunks) <= Len(clustersList)
  BY ChunksNumbered DEF IInv
<1>l. \A k \in 1 .. Len(clustersList) : clustersList[k] \in 1 .. Len(clusters)
  BY DEF IInv, TypeOK
<1>1. TypeOK'
  BY <1>c, <1>u, <1>v DEF IInv, TypeOK
<1>2. TaskInv'
  BY <1>h, <1>u, <1>v, <1>w, WorkerTaskInv
<1>3. TaskClusterInv'
  <2>2. \A k \in 1 .. Len(taskList) : taskList[k].kind = "cluster" =>
          taskList[k].of \in Numbered /\ Unprocessed(taskList[k].of)'
    <3>1. \A k \in 1 .. Len(taskList) : taskList[k].kind = "cluster" =>
            taskList[k].of \in Numbered /\ Unprocessed(taskList[k].of) /\ taskList[k].of # p
      BY <1>x DEF IInv, TaskClusterInv
    <3> QED
      BY <1>c, <1>u, <3>1 DEF Unprocessed
  <2>3. \A v \in Workers : workerTask[v].kind = "cluster" =>
          /\ workerTask[v].of \in Numbered
          /\ workerPc'[v] = "run" => Unprocessed(workerTask[v].of)'
          /\ workerPc'[v] = "setClosed" => ~clusters'[workerTask[v].of].closed
    <3>1. SUFFICES ASSUME NEW v \in Workers, workerTask[v].kind = "cluster"
                   PROVE  /\ workerTask[v].of \in Numbered
                          /\ workerPc'[v] = "run" => Unprocessed(workerTask[v].of)'
                          /\ workerPc'[v] = "setClosed" => ~clusters'[workerTask[v].of].closed
      OBVIOUS
    <3>2. workerTask[v].of \in Numbered
      BY <3>1 DEF IInv, TaskClusterInv
    <3>3. CASE v = w
      BY <1>c, <1>d, <1>p, <1>v, <3>2, <3>3 DEF Unprocessed
    <3>4. CASE v # w
      <4>1. workerPc'[v] = "run" => workerTask[v].of # p
        BY <1>v, <1>x, <3>1, <3>4 DEF Holding
      <4>2. workerPc'[v] = "run" => Unprocessed(workerTask[v].of)
        BY <1>v, <3>1, <3>4 DEF IInv, TaskClusterInv
      <4>3. workerPc'[v] = "setClosed" => ~clusters[workerTask[v].of].closed
        BY <1>v, <3>1, <3>4 DEF IInv, TaskClusterInv
      <4> QED
        BY <1>c, <1>f, <1>u, <3>2, <4>1, <4>2, <4>3 DEF Unprocessed
    <3> QED
      BY <3>3, <3>4
  <2>4. mainPc \in {"taskWait", "taskPush"} /\ call.push.kind = "cluster" =>
          call.push.of \in Numbered /\ Unprocessed(call.push.of)'
    <3>1. mainPc \in {"taskWait", "taskPush"} /\ call.push.kind = "cluster" =>
          call.push.of \in Numbered /\ Unprocessed(call.push.of) /\ call.push.of # p
      BY <1>x DEF IInv, TaskClusterInv
    <3> QED
      BY <1>c, <1>u, <3>1 DEF Unprocessed
  <2> QED
    BY <1>c, <1>u, <2>2, <2>3, <2>4 DEF TaskClusterInv, Unprocessed
<1>4. QueueInv'
  BY <1>u DEF IInv, QueueInv, InFlight, ToPush, NullAtEnd
<1>5. WriterInv'
  <2>1. writerPc \in {"popCluster", "writeCluster", "clearData"} => clusters'[writerCluster].closed
    BY <1>f DEF IInv, TypeOK, WriterInv
  <2> QED
    BY <1>u, <2>1 DEF IInv, WriterInv
<1>6. ContentInv'
  <2>1. \A q : q # p => (InSetClosed(q)' <=> InSetClosed(q))
    BY <1>p, <1>u, <1>v, <1>w DEF InSetClosed
  <2>2. InSetClosed(p)' /\ ~InSetClosed(p)
    BY <1>p, <1>u, <1>v, <1>w, <1>x DEF InSetClosed, Holding, IInv, TaskInv
  <2>3. HeldInv'
    <3>1. SUFFICES ASSUME NEW q \in Numbered \cup {compCluster, uncompCluster}
                   PROVE  /\ ~clusters'[q].closed /\ ~InSetClosed(q)' => Holds(clusters[q].content, q)'
                          /\ InSetClosed(q)' => Holds(Payload(clusters[q]), q)'
      BY <1>c, <1>u DEF HeldInv
    <3>2. CASE q = p
      <4>1. Holds(clusters[p].content, p)
        BY <1>p, <2>2 DEF IInv, ContentInv, HeldInv, Unprocessed
      <4>2. Payload(clusters[p])' = clusters[p].content
        BY <1>c, <1>d DEF Payload
      <4>3. Holds(Payload(clusters[p]), p)'
        BY <1>u, <4>1, <4>2 DEF Holds
      <4> QED
        BY <2>2, <3>2, <4>3
    <3>3. CASE q # p
      <4>1. clusters'[q] = clusters[q]
        BY <1>c, <3>3 DEF IInv, TypeOK
      <4>3. PICK x, y : x = clusters[q].content /\ x = clusters'[q].content
                     /\ y = Payload(clusters[q]) /\ y = Payload(clusters[q])'
        BY <4>1 DEF Payload
      <4>4. (Holds(x, q) => Holds(x, q)') /\ (Holds(y, q) => Holds(y, q)')
        BY <1>u DEF Holds
      <4>5. (Holds(clusters[q].content, q) => Holds(clusters[q].content, q)')
         /\ (Holds(Payload(clusters[q]), q) => Holds(Payload(clusters[q]), q)')
        BY <4>3, <4>4 DEF Holds
      <4> QED
        BY <2>1, <3>3, <4>1, <4>5 DEF IInv, ContentInv, HeldInv
    <3> QED
      BY <3>2, <3>3
  <2>4. ReadyInv'
    <3>2. SUFFICES ASSUME NEW k \in 1 .. Len(clustersList), k > Len(chunks),
                          clusters'[clustersList[k]].closed
                   PROVE  Holds(Payload(clusters[clustersList[k]]), clustersList[k])'
      BY <1>u DEF ReadyInv
    <3>3. PICK q \in 1 .. Len(clusters) : q = clustersList[k] /\ clusters[q].closed
      BY <1>f, <1>l, <3>2
    <3>4. clusters'[q] = clusters[q]
      BY <1>c, <1>p, <3>3 DEF Unprocessed
    <3>5. Holds(Payload(clusters[q]), q)
      BY <3>2, <3>3 DEF IInv, ContentInv, ReadyInv
    <3>6. Payload(clusters[q])' = Payload(clusters[q])
      BY <3>4 DEF Payload
    <3>7. Holds(Payload(clusters[q]), q)'
      BY <1>u, <3>5, <3>6 DEF Holds
    <3> QED
      BY <1>u, <3>3, <3>7 DEF Holds
  <2>5. WrittenInv'
    <3>1. \A k \in 1 .. Len(chunks) : clustersList[k] \in 1 .. Len(clusters)
      BY <1>l, <1>r
    <3> QED
      BY <1>f, <1>u, <3>1 DEF IInv, ContentInv, WrittenInv, Holds
  <2> QED
    BY <1>c, <2>3, <2>4, <2>5 DEF ContentInv
<1>7. IndexInv'
  BY <1>u, <1>v, <1>w DEF IInv, IndexInv, BeforeIndexTask, Holding
<1>8. OffsetInv'
  BY <1>u DEF IInv, OffsetInv
<1> QED
  BY <1>1, <1>2, <1>3, <1>4, <1>5, <1>6, <1>7, <1>8, <1>c DEF IInv

\* The store to Cluster::closed.
LEMMA ClosedFacts ==
  ASSUME NEW c \in ClusterType
  PROVE  LET d == [c EXCEPT !.closed = TRUE]
         IN  /\ d \in ClusterType /\ d.closed
             /\ d.index = c.index /\ d.offset = c.offset
             /\ Payload(d) = Payload(c)
BY DEF ClusterType, Payload

\* The store to closed hands the cluster from the worker to the writer.
LEMMA SetClosedStep == ASSUME IInv, NEW w \in Workers, SetClosed(w) PROVE IInv'
<1> USE DEF mainVars, dataVars, workerVars, writerVars, queueVars, liveVars, threadVars,
           fileVars, outVars, mainOnly, NullPtr, workerUnchanged, writerUnchanged
<1>w. /\ workerPc' = [workerPc EXCEPT ![w] = "delete"] /\ workerPc[w] = "setClosed"
      /\ workerTask[w].kind = "cluster"
  BY DEF SetClosed, IInv, TaskInv
<1>u. UNCHANGED <<mainVars, dataVars, clusterToWrite, writerVars, fileVars, zimName,
                  db, liveVars, workerTask, taskList>>
  BY DEF SetClosed
<1>h. Holding(w)
  BY <1>w DEF Holding
<1>p. PICK p \in Numbered : p = workerTask[w].of /\ InSetClosed(p)
  BY <1>w DEF IInv, TaskClusterInv, InSetClosed
<1>e. p \in 1 .. Len(clusters) /\ clusters[p] \in ClusterType
  BY DEF IInv, TypeOK, Numbered
<1>d. PICK d \in ClusterType :
        /\ d = [clusters[p] EXCEPT !.closed = TRUE] /\ d.closed
        /\ d.index = clusters[p].index /\ d.offset = clusters[p].offset
        /\ Payload(d) = Payload(clusters[p])
  BY <1>e, ClosedFacts
<1>c. /\ clusters' \in Seq(ClusterType) /\ Len(clusters') = Len(clusters)
      /\ clusters'[p] = d
      /\ \A q \in 1 .. Len(clusters) : q # p => clusters'[q] = clusters[q]
      /\ Numbered' = Numbered /\ Numbered \subseteq 1 .. Len(clusters)
      /\ MainInv' /\ ClosingInv' /\ OpenInv' /\ OpenContentInv' /\ PlaceInv'
  <2>1. clusters' = [clusters EXCEPT ![p] = d]
    BY <1>d, <1>p DEF SetClosed
  <2> QED
    BY <1>d, <1>u, <2>1, NumberedUpdate
<1>v. /\ workerPc'[w] = "delete"
      /\ \A v \in Workers : v # w => workerPc'[v] = workerPc[v]
      /\ workerPc' \in [Workers -> {"pop", "run", "setClosed", "addDocument", "delete", "exited"}]
  BY <1>u, <1>w, WorkerPcFacts
<1>x. /\ \A k \in 1 .. Len(taskList) : taskList[k].kind = "cluster" => taskList[k].of # p
      /\ \A v \in Workers : Holding(v) /\ workerTask[v].kind = "cluster" /\ workerTask[v].of = p => v = w
      /\ mainPc \in {"taskWait", "taskPush"} /\ call.push.kind = "cluster" => call.push.of # p
  BY <1>h, <1>p, <1>w, ClusterTaskUnique
<1>f. \A q \in 1 .. Len(clusters) : /\ clusters[q].closed => clusters'[q].closed
                                   /\ clusters'[q].offset = clusters[q].offset
                                   /\ Payload(clusters[q])' = Payload(clusters[q])
  BY <1>c, <1>d DEF Payload
<1>r. /\ Len(chunks) \in Nat /\ Len(clustersList) \in Nat /\ Len(chunks) <= Len(clustersList)
  BY ChunksNumbered DEF IInv
<1>l. \A k \in 1 .. Len(clustersList) : clustersList[k] \in 1 .. Len(clusters)
  BY DEF IInv, TypeOK
<1>1. TypeOK'
  BY <1>c, <1>u, <1>v DEF IInv, TypeOK
<1>2. TaskInv'
  BY <1>h, <1>u, <1>v, <1>w, WorkerTaskInv
<1>3. TaskClusterInv'
  <2>2. \A k \in 1 .. Len(taskList) : taskList[k].kind = "cluster" =>
          taskList[k].of \in Numbered /\ Unprocessed(taskList[k].of)'
    <3>1. \A k \in 1 .. Len(taskList) : taskList[k].kind = "cluster" =>
            taskList[k].of \in Numbered /\ Unprocessed(taskList[k].of) /\ taskList[k].of # p
      BY <1>x DEF IInv, TaskClusterInv
    <3> QED
      BY <1>c, <1>u, <3>1 DEF Unprocessed
  <2>3. \A v \in Workers : workerTask[v].kind = "cluster" =>
          /\ workerTask[v].of \in Numbered
          /\ workerPc'[v] = "run" => Unprocessed(workerTask[v].of)'
          /\ workerPc'[v] = "setClosed" => ~clusters'[workerTask[v].of].closed
    <3>1. SUFFICES ASSUME NEW v \in Workers, workerTask[v].kind = "cluster"
                   PROVE  /\ workerTask[v].of \in Numbered
                          /\ workerPc'[v] = "run" => Unprocessed(workerTask[v].of)'
                          /\ workerPc'[v] = "setClosed" => ~clusters'[workerTask[v].of].closed
      OBVIOUS
    <3>2. workerTask[v].of \in Numbered
      BY <3>1 DEF IInv, TaskClusterInv
    <3>3. CASE v = w
      BY <1>v, <3>2, <3>3
    <3>4. CASE v # w
      <4>1. workerPc'[v] \in {"run", "setClosed"} => workerTask[v].of # p
        BY <1>v, <1>x, <3>1, <3>4 DEF Holding
      <4>2. workerPc'[v] = "run" => Unprocessed(workerTask[v].of)
        BY <1>v, <3>1, <3>4 DEF IInv, TaskClusterInv
      <4>3. workerPc'[v] = "setClosed" => ~clusters[workerTask[v].of].closed
        BY <1>v, <3>1, <3>4 DEF IInv, TaskClusterInv
      <4> QED
        BY <1>c, <1>u, <3>2, <4>1, <4>2, <4>3 DEF Unprocessed
    <3> QED
      BY <3>3, <3>4
  <2>4. mainPc \in {"taskWait", "taskPush"} /\ call.push.kind = "cluster" =>
          call.push.of \in Numbered /\ Unprocessed(call.push.of)'
    <3>1. mainPc \in {"taskWait", "taskPush"} /\ call.push.kind = "cluster" =>
          call.push.of \in Numbered /\ Unprocessed(call.push.of) /\ call.push.of # p
      BY <1>x DEF IInv, TaskClusterInv
    <3> QED
      BY <1>c, <1>u, <3>1 DEF Unprocessed
  <2> QED
    BY <1>c, <1>u, <2>2, <2>3, <2>4 DEF TaskClusterInv, Unprocessed
<1>4. QueueInv'
  BY <1>u DEF IInv, QueueInv, InFlight, ToPush, NullAtEnd
<1>5. WriterInv'
  <2>1. writerPc \in {"popCluster", "writeCluster", "clearData"} => clusters'[writerCluster].closed
    BY <1>f DEF IInv, TypeOK, WriterInv
  <2> QED
    BY <1>u, <2>1 DEF IInv, WriterInv
<1>6. ContentInv'
  <2>1. \A q : q # p => (InSetClosed(q)' <=> InSetClosed(q))
    BY <1>p, <1>u, <1>v, <1>w DEF InSetClosed
  <2>2. Holds(Payload(clusters[p]), p)
    BY <1>p DEF IInv, ContentInv, HeldInv
  <2>6. \A q \in 1 .. Len(clusters) : Holds(Payload(clusters[q]), q) => Holds(Payload(clusters[q]), q)'
    BY <1>f, <1>u DEF Holds
  <2>3. HeldInv'
    <3>1. SUFFICES ASSUME NEW q \in Numbered \cup {compCluster, uncompCluster}
                   PROVE  /\ ~clusters'[q].closed /\ ~InSetClosed(q)' => Holds(clusters[q].content, q)'
                          /\ InSetClosed(q)' => Holds(Payload(clusters[q]), q)'
      BY <1>c, <1>u DEF HeldInv
    <3>2. CASE q = p
      BY <1>c, <1>d, <1>e, <2>2, <2>6, <3>2
    <3>3. CASE q # p
      <4>1. clusters'[q] = clusters[q] /\ q \in 1 .. Len(clusters)
        BY <1>c, <3>3 DEF IInv, TypeOK
      <4>3. PICK x : x = clusters[q].content /\ x = clusters'[q].content
        BY <4>1
      <4>4. Holds(x, q) => Holds(x, q)'
        BY <1>u DEF Holds
      <4>5. Holds(clusters[q].content, q) => Holds(clusters[q].content, q)'
        BY <4>3, <4>4 DEF Holds
      <4> QED
        BY <2>1, <2>6, <3>3, <4>1, <4>5 DEF IInv, ContentInv, HeldInv
    <3> QED
      BY <3>2, <3>3
  <2>4. ReadyInv'
    <3>2. SUFFICES ASSUME NEW k \in 1 .. Len(clustersList), k > Len(chunks),
                          clusters'[clustersList[k]].closed
                   PROVE  Holds(Payload(clusters[clustersList[k]]), clustersList[k])'
      BY <1>u DEF ReadyInv
    <3>3. PICK q \in 1 .. Len(clusters) : q = clustersList[k]
      BY <1>l
    <3>4. q # p => clusters[q].closed
      BY <1>c, <3>2, <3>3
    <3>5. Holds(Payload(clusters[q]), q)
      BY <2>2, <3>2, <3>3, <3>4 DEF IInv, ContentInv, ReadyInv
    <3>7. Holds(Payload(clusters[q]), q)'
      BY <2>6, <3>5
    <3> QED
      BY <1>u, <3>3, <3>7 DEF Holds
  <2>5. WrittenInv'
    <3>1. \A k \in 1 .. Len(chunks) : clustersList[k] \in 1 .. Len(clusters)
      BY <1>l, <1>r
    <3> QED
      BY <1>f, <1>u, <3>1 DEF IInv, ContentInv, WrittenInv, Holds
  <2> QED
    BY <1>c, <2>3, <2>4, <2>5 DEF ContentInv
<1>7. IndexInv'
  BY <1>u, <1>v, <1>w DEF IInv, IndexInv, BeforeIndexTask, Holding
<1>8. OffsetInv'
  BY <1>u DEF IInv, OffsetInv
<1> QED
  BY <1>1, <1>2, <1>3, <1>4, <1>5, <1>6, <1>7, <1>8, <1>c DEF IInv

\* A step of the writer thread that touches neither a cluster nor the file.
LEMMA WriterFrame ==
  ASSUME IInv, UNCHANGED <<mainVars, clusters, dataVars, taskList, liveVars, workerVars, db, fileVars>>
  PROVE  /\ MainInv' /\ ClosingInv' /\ OpenInv' /\ TaskInv' /\ TaskClusterInv' /\ ContentInv'
         /\ IndexInv' /\ OffsetInv'
<1> USE DEF mainVars, dataVars, liveVars, workerVars, fileVars
<1>1. ContentInv' /\ OffsetInv' /\ Numbered' = Numbered
  BY ContentFrame DEF IInv
<1>2. MainInv' /\ ClosingInv'
  BY DEF IInv, MainInv, ClosingInv, OpenCluster
<1>3. OpenInv'
  BY <1>1 DEF IInv, OpenInv
<1>4. TaskInv' /\ IndexInv'
  BY DEF IInv, TaskInv, IndexInv, Holding, BeforeIndexTask
<1>5. TaskClusterInv'
  BY <1>1 DEF IInv, TaskClusterInv, Unprocessed
<1> QED
  BY <1>1, <1>2, <1>3, <1>4, <1>5

\* The writer looks at the head of the queue, which only it will pop.
LEMMA GetHeadStep == ASSUME IInv, GetHead PROVE IInv'
<1> USE DEF mainVars, dataVars, workerVars, writerVars, queueVars, liveVars, threadVars,
           fileVars, outVars, mainOnly, NullPtr, workerUnchanged, writerUnchanged
<1>u. UNCHANGED <<mainVars, clusters, dataVars, taskList, liveVars, workerVars, db, fileVars, clusterToWrite, zimName>>
  BY DEF GetHead
<1>a. /\ Head(clusterToWrite) \in 0 .. Len(clusters) /\ Head(clusterToWrite) = clusterToWrite[1]
      /\ Len(clusterToWrite) \in Nat /\ Len(clusterToWrite) > 0
  BY TailSeq DEF IInv, TypeOK, GetHead
<1>b. /\ writerPc = "getHead" /\ writerCluster' = clusterToWrite[1]
      /\ writerPc' = IF clusterToWrite[1] = 0 THEN "exited" ELSE "isClosed"
  BY <1>a DEF GetHead
<1>1. /\ MainInv' /\ ClosingInv' /\ OpenInv' /\ TaskInv' /\ TaskClusterInv' /\ ContentInv'
      /\ IndexInv' /\ OffsetInv'
  BY <1>u, WriterFrame
<1>2. TypeOK'
  BY <1>a, <1>b, <1>u DEF IInv, TypeOK
<1>3. QueueInv'
  BY <1>b, <1>u DEF IInv, QueueInv, InFlight, ToPush, NullAtEnd
<1>4. WriterInv'
  <2>1. clusterToWrite[1] = 0 => Len(clusterToWrite) = 1
    BY SMTT(30), <1>a DEF IInv, QueueInv
  <2> QED
    BY <1>a, <1>b, <1>u, <2>1 DEF IInv, WriterInv
<1> QED
  BY <1>1, <1>2, <1>3, <1>4 DEF IInv

\* A cluster seen closed stays so: the test is not stale at the pop.
LEMMA IsClosedStep == ASSUME IInv, IsClosed PROVE IInv'
<1> USE DEF mainVars, dataVars, workerVars, writerVars, queueVars, liveVars, threadVars,
           fileVars, outVars, mainOnly, NullPtr, workerUnchanged, writerUnchanged
<1>u. UNCHANGED <<mainVars, clusters, dataVars, taskList, liveVars, workerVars, db, fileVars, clusterToWrite, writerCluster, zimName>>
  BY DEF IsClosed
<1>b. /\ writerPc = "isClosed"
      /\ writerPc' = IF clusters[writerCluster].closed THEN "popCluster" ELSE "getHead"
  BY DEF IsClosed
<1>1. /\ MainInv' /\ ClosingInv' /\ OpenInv' /\ TaskInv' /\ TaskClusterInv' /\ ContentInv'
      /\ IndexInv' /\ OffsetInv'
  BY <1>u, WriterFrame
<1>2. TypeOK'
  BY <1>b, <1>u DEF IInv, TypeOK
<1>3. QueueInv'
  BY <1>b, <1>u DEF IInv, QueueInv, InFlight, ToPush, NullAtEnd
<1>4. WriterInv'
  BY <1>b, <1>u DEF IInv, WriterInv
<1> QED
  BY <1>1, <1>2, <1>3, <1>4 DEF IInv

\* The pop returns the cluster that getHead had returned.
LEMMA PopClusterStep == ASSUME IInv, PopCluster PROVE IInv'
<1> USE DEF mainVars, dataVars, workerVars, writerVars, queueVars, liveVars, threadVars,
           fileVars, outVars, mainOnly, NullPtr, workerUnchanged, writerUnchanged
<1>u. UNCHANGED <<mainVars, clusters, dataVars, taskList, liveVars, workerVars, db, fileVars, zimName>>
  BY DEF PopCluster
<1>b. /\ writerPc = "popCluster" /\ writerPc' = "writeCluster"
      /\ clusterToWrite # <<>> /\ writerCluster = clusterToWrite[1] /\ writerCluster # 0
      /\ clusters[writerCluster].closed
  BY DEF PopCluster, IInv, TypeOK, WriterInv
<1>a. /\ writerCluster' = clusterToWrite[1] /\ writerCluster' \in 0 .. Len(clusters)
      /\ Len(clusterToWrite) \in Nat /\ Len(clusterToWrite) > 0
      /\ clusterToWrite' \in Seq(0 .. Len(clusters))
      /\ Len(clusterToWrite') = Len(clusterToWrite) - 1
      /\ \A k \in 1 .. Len(clusterToWrite') : clusterToWrite'[k] = clusterToWrite[k + 1]
  BY <1>b, TailSeq DEF IInv, TypeOK, PopCluster
<1>n. PICK n \in Nat : n = Len(chunks)
  BY DEF IInv, TypeOK
<1>l. Len(clustersList) \in Nat /\ ToPush \in Nat /\ NullAtEnd \in Nat
  BY DEF IInv, TypeOK, ToPush, NullAtEnd
<1>i. InFlight = 0 /\ InFlight' = 1 /\ ToPush' = ToPush /\ NullAtEnd' = NullAtEnd
  BY <1>b, <1>u DEF InFlight, ToPush, NullAtEnd
<1>q. /\ n + 0 + Len(clusterToWrite) + ToPush = Len(clustersList) + NullAtEnd
      /\ \A k \in 1 .. Len(clusterToWrite) :
           \/ /\ clusterToWrite[k] # 0 /\ n + 0 + k <= Len(clustersList)
              /\ clusterToWrite[k] = clustersList[n + 0 + k]
           \/ clusterToWrite[k] = 0 /\ k = Len(clusterToWrite) /\ mainPc \in Drained
      /\ mainPc \in Drained => clusterToWrite[Len(clusterToWrite)] = 0
  BY <1>i, <1>n DEF IInv, QueueInv
<1>1. /\ MainInv' /\ ClosingInv' /\ OpenInv' /\ TaskInv' /\ TaskClusterInv' /\ ContentInv'
      /\ IndexInv' /\ OffsetInv'
  BY <1>u, WriterFrame
<1>2. TypeOK'
  BY <1>a, <1>b, <1>u DEF IInv, TypeOK
<1>3. QueueInv'
  <2>1. n + 1 + Len(clusterToWrite') + ToPush = Len(clustersList) + NullAtEnd
    <3>1. PICK x \in Nat, y \in Nat, z \in Nat, t \in Nat :
            /\ x = Len(clusterToWrite) /\ y = Len(clustersList) /\ z = ToPush /\ t = NullAtEnd
      BY <1>a, <1>l
    <3>2. n + 0 + x + z = y + t /\ Len(clusterToWrite') = x - 1
      BY <1>a, <1>q, <3>1
    <3>3. n + 1 + (x - 1) + z = y + t
      BY <3>2
    <3> QED
      BY <3>1, <3>2, <3>3
  <2>2. \A k \in 1 .. Len(clusterToWrite') :
           \/ /\ clusterToWrite'[k] # 0 /\ n + 1 + k <= Len(clustersList)
              /\ clusterToWrite'[k] = clustersList[n + 1 + k]
           \/ clusterToWrite'[k] = 0 /\ k = Len(clusterToWrite') /\ mainPc \in Drained
    <3>1. SUFFICES ASSUME NEW k \in 1 .. Len(clusterToWrite')
                   PROVE \/ /\ clusterToWrite'[k] # 0 /\ n + 1 + k <= Len(clustersList)
                            /\ clusterToWrite'[k] = clustersList[n + 1 + k]
                         \/ clusterToWrite'[k] = 0 /\ k = Len(clusterToWrite') /\ mainPc \in Drained
      OBVIOUS
    <3>2. k + 1 \in 1 .. Len(clusterToWrite) /\ n + 0 + (k + 1) = n + 1 + k
          /\ (k + 1 = Len(clusterToWrite) => k = Len(clusterToWrite'))
      BY <1>a
    <3> QED
      BY <1>a, <1>q, <3>2
  <2>3. mainPc \in Drained => Len(clusterToWrite') > 0 /\ clusterToWrite'[Len(clusterToWrite')] = 0
    <3>1. mainPc \in Drained => Len(clusterToWrite) # 1
      BY <1>b, <1>q
    <3>2. Len(clusterToWrite') > 0 => Len(clusterToWrite') \in 1 .. Len(clusterToWrite')
            /\ Len(clusterToWrite') + 1 = Len(clusterToWrite)
      BY <1>a
    <3> QED
      BY <1>a, <1>q, <3>1, <3>2
  <2> QED
    BY <1>i, <1>n, <1>u, <2>1, <2>2, <2>3 DEF QueueInv
<1>4. WriterInv'
  <2>1. n + 1 <= Len(clustersList) /\ clusterToWrite[1] = clustersList[n + 1]
    BY <1>a, <1>b, <1>q
  <2>2. n < Len(clustersList)
    BY <1>l, <2>1
  <2>3. mainPc \notin {"write", "header", "rename", "done"}
    BY <1>b DEF IInv, WriterInv
  <2> QED
    BY <1>a, <1>b, <1>n, <1>u, <2>1, <2>2, <2>3 DEF WriterInv
<1> QED
  BY <1>1, <1>2, <1>3, <1>4 DEF IInv

\* What Cluster::write puts into the file.
LEMMA ClusterChunkFacts ==
  ASSUME NEW c \in ClusterType, fileEnd \in Nat
  PROVE  /\ ClusterChunk(c) \in ChunkType
         /\ ClusterChunk(c).at = fileEnd
         /\ ClusterChunk(c).blobs = Payload(c)
         /\ ClusterLength(c) \in Nat /\ ClusterLength(c) > 0
<1>1. /\ c.content \in Seq(Blobs) /\ c.blobOffsets \in Seq(Nat) /\ c.size \in Nat
      /\ c.zip \in Seq(Blobs) /\ c.extended \in BOOLEAN /\ c.compressed \in BOOLEAN
      /\ <<>> \in Seq(Nat)
  BY DEF ClusterType
<1>2. ClusterChunk(c) \in ChunkType /\ ClusterChunk(c).at = fileEnd /\ ClusterChunk(c).blobs = Payload(c)
  BY <1>1 DEF ClusterChunk, ChunkType, Payload
<1>3. PICK n \in Nat, s \in Nat, o \in Nat, z \in Nat :
        n = Len(c.blobOffsets) /\ s = c.size /\ o = OffsetWidth(c.extended) /\ z = ZipLen
  BY <1>1, ConstantsAssumption DEF OffsetWidth
<1>4. ClusterLength(c) = 1 + IF c.compressed THEN z ELSE n * o + s
  BY <1>3 DEF ClusterLength
<1>5. n * o \in Nat
  BY <1>3
<1> QED
  BY <1>2, <1>4, <1>5

\* setOffset and clear_data leave the rest of the cluster alone.
LEMMA OffsetFacts ==
  ASSUME NEW c \in ClusterType, NEW n \in Nat
  PROVE  LET d == [c EXCEPT !.offset = n]
         IN  /\ d \in ClusterType /\ d.closed = c.closed /\ d.zip = c.zip
             /\ d.index = c.index /\ d.offset = n
             /\ d.content = c.content /\ Payload(d) = Payload(c)
BY DEF ClusterType, Payload

\* Cluster::clear_data keeps the type, the number and the offset.
LEMMA ClearedFacts ==
  ASSUME NEW c \in ClusterType
  PROVE  /\ Cleared(c) \in ClusterType /\ Cleared(c).closed = c.closed
         /\ Cleared(c).index = c.index /\ Cleared(c).offset = c.offset
<1>1. <<>> \in Seq(Blobs) /\ <<>> \in Seq(Nat)
  OBVIOUS
<1> QED
  BY <1>1 DEF Cleared, ClusterType

\* While the writer thread holds a closed cluster nobody has a task for it.
LEMMA ClosedNotInTask ==
  ASSUME IInv, NEW p \in Numbered, clusters[p].closed
  PROVE  /\ \A k \in 1 .. Len(taskList) : taskList[k].kind = "cluster" => taskList[k].of # p
         /\ \A v \in Workers : workerTask[v].kind = "cluster" /\ workerPc[v] \in {"run", "setClosed"} =>
              workerTask[v].of # p
         /\ mainPc \in {"taskWait", "taskPush"} /\ call.push.kind = "cluster" => call.push.of # p
         /\ ~InSetClosed(p)
BY DEF IInv, TaskInv, TaskClusterInv, Unprocessed, InSetClosed

\* The writer thread may do what it likes to a closed cluster as far as the
\* tasks are concerned.
LEMMA ClosedUpdate ==
  ASSUME IInv, NEW p \in Numbered, clusters[p].closed,
         UNCHANGED <<mainPc, call, clustersList, taskList, workerPc, workerTask>>,
         \A q \in 1 .. Len(clusters) : q # p => clusters'[q] = clusters[q]
  PROVE  TaskInv' /\ TaskClusterInv' /\ (\A q : InSetClosed(q)' <=> InSetClosed(q))
<1>1. /\ \A k \in 1 .. Len(taskList) : taskList[k].kind = "cluster" => taskList[k].of # p
      /\ \A v \in Workers : workerTask[v].kind = "cluster" /\ workerPc[v] \in {"run", "setClosed"} =>
           workerTask[v].of # p
      /\ mainPc \in {"taskWait", "taskPush"} /\ call.push.kind = "cluster" => call.push.of # p
  BY ClosedNotInTask
<1>2. Numbered' = Numbered /\ Numbered \subseteq 1 .. Len(clusters)
  BY SMTT(30) DEF Numbered, IInv, TypeOK
<1>3. TaskInv'
  BY DEF IInv, TaskInv, Holding
<1>4. \A k \in 1 .. Len(taskList) : taskList[k].kind = "cluster" =>
        taskList[k].of \in Numbered /\ Unprocessed(taskList[k].of)'
  BY <1>1, <1>2 DEF IInv, TaskClusterInv, Unprocessed
<1>5. \A v \in Workers : workerTask[v].kind = "cluster" =>
        /\ workerTask[v].of \in Numbered
        /\ workerPc[v] = "run" => Unprocessed(workerTask[v].of)'
        /\ workerPc[v] = "setClosed" => ~clusters'[workerTask[v].of].closed
  BY <1>1, <1>2 DEF IInv, TaskClusterInv, Unprocessed
<1>6. mainPc \in {"taskWait", "taskPush"} /\ call.push.kind = "cluster" =>
        call.push.of \in Numbered /\ Unprocessed(call.push.of)'
  BY <1>1, <1>2 DEF IInv, TaskClusterInv, Unprocessed
<1>7. TaskClusterInv'
  BY <1>2, <1>4, <1>5, <1>6 DEF TaskClusterInv, Unprocessed
<1> QED
  BY <1>3, <1>7 DEF InSetClosed

\* The cluster written is the next one in the order of the numbers.
LEMMA WriteClusterStep == ASSUME IInv, WriteCluster PROVE IInv'
<1> USE DEF mainVars, dataVars, workerVars, writerVars, queueVars, liveVars, threadVars,
           fileVars, outVars, mainOnly, NullPtr, workerUnchanged, writerUnchanged
<1>u. /\ UNCHANGED <<mainVars, dataVars, taskList, liveVars, workerVars, db, zimName, writerCluster,
                     clusterToWrite, checksum>>
      /\ writerPc = "writeCluster" /\ writerPc' = "clearData"
  BY DEF WriteCluster
<1>n. PICK n \in Nat : n = Len(chunks)
  BY DEF IInv, TypeOK
<1>a. PICK p : p = writerCluster
  OBVIOUS
<1>l. Len(clustersList) \in Nat /\ \A k \in 1 .. Len(clustersList) : clustersList[k] \in 1 .. Len(clusters)
  BY DEF IInv, TypeOK
<1>p. /\ p # 0 /\ clusters[p].closed /\ n + 1 \in 1 .. Len(clustersList) /\ p = clustersList[n + 1]
      /\ p \in Numbered
  <2>1. p # 0 /\ clusters[p].closed /\ n < Len(clustersList) /\ p = clustersList[n + 1]
    BY <1>a, <1>n, <1>u DEF IInv, WriterInv
  <2> QED
    BY <1>l, <2>1 DEF Numbered
<1>e. p \in 1 .. Len(clusters) /\ clusters[p] \in ClusterType /\ fileEnd \in Nat
  BY <1>l, <1>p DEF IInv, TypeOK
<1>d. PICK d \in ClusterType :
        /\ d = [clusters[p] EXCEPT !.offset = fileEnd] /\ d.closed = clusters[p].closed
        /\ d.index = clusters[p].index /\ d.offset = fileEnd
        /\ d.content = clusters[p].content /\ Payload(d) = Payload(clusters[p])
  BY ZenonT(30), <1>e, OffsetFacts
<1>c. /\ clusters' \in Seq(ClusterType) /\ Len(clusters') = Len(clusters)
      /\ clusters'[p] = d
      /\ \A q \in 1 .. Len(clusters) : q # p => clusters'[q] = clusters[q]
      /\ Numbered' = Numbered /\ Numbered \subseteq 1 .. Len(clusters)
      /\ MainInv' /\ ClosingInv' /\ OpenInv' /\ OpenContentInv' /\ PlaceInv'
  <2>1. clusters' = [clusters EXCEPT ![p] = d]
    BY <1>a, <1>d DEF WriteCluster
  <2> QED
    BY <1>d, <1>p, <1>u, <2>1, NumberedUpdate
<1>f. PICK ch \in ChunkType :
        ch = ClusterChunk(clusters[p]) /\ ch.at = fileEnd /\ ch.blobs = Payload(clusters[p])
  BY <1>e, ClusterChunkFacts
<1>g. /\ chunks' \in Seq(ChunkType) /\ Len(chunks') = n + 1 /\ chunks'[n + 1] = ch
      /\ \A k \in 1 .. n : chunks'[k] = chunks[k]
      /\ \A k \in 1 .. Len(chunks') : k \in 1 .. n \/ k = n + 1
  <2>1. chunks' = Append(chunks, ch) /\ chunks \in Seq(ChunkType)
    BY <1>a, <1>f DEF WriteCluster, IInv, TypeOK
  <2> QED
    BY <1>n, <2>1, AppendSeq
<1>h. fileEnd' \in Nat /\ fileEnd' > fileEnd
  <2>1. PICK x \in Nat : x = ClusterLength(clusters[p]) /\ x > 0
    BY <1>e, ClusterChunkFacts
  <2>2. fileEnd' = fileEnd + x
    BY <1>a, <2>1 DEF WriteCluster
  <2> QED
    BY <1>e, <2>1, <2>2
<1>t. TaskInv' /\ TaskClusterInv' /\ (\A q : InSetClosed(q)' <=> InSetClosed(q))
  BY <1>c, <1>p, <1>u, ClosedUpdate
<1>o. \A k \in 1 .. n : k \in 1 .. Len(clustersList) /\ clustersList[k] # p
  <2>1. \A k \in 1 .. n : k \in 1 .. Len(clustersList) /\ k # n + 1
    BY <1>l, <1>p
  <2> QED
    BY <1>p, <2>1 DEF IInv, OpenInv
<1>1. TypeOK'
  BY <1>c, <1>g, <1>h, <1>u DEF IInv, TypeOK
<1>2. QueueInv'
  <2>1. InFlight = 1 /\ InFlight' = 0 /\ ToPush' = ToPush /\ NullAtEnd' = NullAtEnd
    BY <1>u DEF InFlight, ToPush, NullAtEnd
  <2>2. n + 1 = n + 1 + 0 /\ \A k \in 1 .. Len(clusterToWrite) : n + 1 + k = n + 1 + 0 + k
    BY DEF IInv, TypeOK
  <2> QED
    BY <1>g, <1>n, <1>u, <2>1, <2>2 DEF IInv, QueueInv
<1>3. WriterInv'
  <2>1. mainPc \notin {"write", "header", "rename", "done"}
    BY <1>u DEF IInv, WriterInv
  <2>2. n + 1 > 0
    OBVIOUS
  <2> QED
    BY <1>a, <1>c, <1>d, <1>g, <1>p, <1>u, <2>1, <2>2 DEF WriterInv
<1>4. ContentInv'
  <2>1. HeldInv'
    <3>1. SUFFICES ASSUME NEW q \in Numbered \cup {compCluster, uncompCluster}
                   PROVE  /\ ~clusters'[q].closed /\ ~InSetClosed(q)' => Holds(clusters[q].content, q)'
                          /\ InSetClosed(q)' => Holds(Payload(clusters[q]), q)'
      BY <1>c, <1>u DEF HeldInv
    <3>2. q \in 1 .. Len(clusters)
      BY <1>c DEF IInv, TypeOK
    <3>3. PICK x, y : /\ x = clusters[q].content /\ x = clusters'[q].content
                      /\ y = Payload(clusters[q]) /\ y = Payload(clusters[q])'
      BY ZenonT(30), <1>c, <1>d, <3>2 DEF Payload
    <3>4. (Holds(x, q) => Holds(x, q)') /\ (Holds(y, q) => Holds(y, q)')
      BY <1>u DEF Holds
    <3>5. /\ Holds(clusters[q].content, q) => Holds(clusters[q].content, q)'
          /\ Holds(Payload(clusters[q]), q) => Holds(Payload(clusters[q]), q)'
      BY <3>3, <3>4 DEF Holds
    <3>6. clusters'[q].closed = clusters[q].closed
      BY <1>c, <1>d, <3>2
    <3> QED
      BY <1>t, <3>5, <3>6 DEF IInv, ContentInv, HeldInv
  <2>2. ReadyInv'
    <3>2. SUFFICES ASSUME NEW k \in 1 .. Len(clustersList), k > n + 1,
                          clusters'[clustersList[k]].closed
                   PROVE  Holds(Payload(clusters[clustersList[k]]), clustersList[k])'
      BY <1>g, <1>u DEF ReadyInv
    <3>3. PICK q \in 1 .. Len(clusters) : q = clustersList[k]
      BY <1>l
    <3>a. k > n
      BY <1>l, <3>2
    <3>b. clusters'[q].closed
      BY <3>2, <3>3
    <3>4. clusters[q].closed /\ k > n
      BY <1>c, <1>p, <3>a, <3>b
    <3>5. Holds(Payload(clusters[q]), q)
      BY <1>n, <3>3, <3>4 DEF IInv, ContentInv, ReadyInv
    <3>6. Payload(clusters[q])' = Payload(clusters[q])
      BY <1>c, <1>d DEF Payload
    <3>7. Holds(Payload(clusters[q]), q)'
      BY <1>u, <3>5, <3>6 DEF Holds
    <3> QED
      BY <1>u, <3>3, <3>7 DEF Holds
  <2>3. WrittenInv'
    <3>1. SUFFICES ASSUME NEW k \in 1 .. Len(chunks')
                   PROVE  /\ Holds(chunks[k].blobs, clustersList[k])'
                          /\ clusters'[clustersList[k]].offset = chunks'[k].at
                          /\ clusters'[clustersList[k]].closed
      BY <1>u DEF WrittenInv
    <3>2. CASE k = n + 1
      <4>1. n + 1 > n
        OBVIOUS
      <4>2. Holds(Payload(clusters[p]), p)
        BY <1>n, <1>p, <4>1 DEF IInv, ContentInv, ReadyInv
      <4>3. chunks'[k].blobs = Payload(clusters[p]) /\ clustersList'[k] = p
        BY <1>f, <1>g, <1>p, <1>u, <3>2
      <4>4. Holds(chunks[k].blobs, clustersList[k])'
        BY <1>u, <4>2, <4>3 DEF Holds
      <4> QED
        BY <1>c, <1>d, <1>f, <1>g, <1>p, <3>2, <4>4
    <3>3. CASE k \in 1 .. n
      <4>1. chunks'[k] = chunks[k] /\ clustersList[k] # p /\ clustersList[k] \in 1 .. Len(clusters)
        BY <1>g, <1>l, <1>o, <3>3
      <4>2. clusters'[clustersList[k]] = clusters[clustersList[k]]
        BY <1>c, <4>1
      <4> QED
        BY <1>n, <1>u, <3>3, <4>1, <4>2 DEF IInv, ContentInv, WrittenInv, Holds
    <3> QED
      BY <1>g, <3>2, <3>3
  <2> QED
    BY <1>c, <2>1, <2>2, <2>3 DEF ContentInv
<1>5. IndexInv'
  BY <1>u DEF IInv, IndexInv, BeforeIndexTask, Holding
<1>6. OffsetInv'
  <2>1. \A k \in 1 .. n : chunks[k].at < fileEnd /\ chunks[k].at \in Nat
    <3>1. \A k \in 1 .. n : chunks[k] \in ChunkType
      BY <1>n DEF IInv, TypeOK
    <3>2. \A k \in 1 .. n : chunks[k].at \in Nat
      BY <3>1 DEF ChunkType
    <3> QED
      BY <1>n, <3>2 DEF IInv, OffsetInv
  <2>2. \A j, k \in 1 .. n : j < k => chunks[j].at < chunks[k].at
    BY <1>n DEF IInv, OffsetInv
  <2>3. \A k \in 1 .. n : ~(n + 1 < k) /\ k < n + 1
    OBVIOUS
  <2>4. \A k \in 1 .. Len(chunks') : chunks'[k].at < fileEnd'
    BY <1>e, <1>f, <1>g, <1>h, <2>1
  <2>5. \A j, k \in 1 .. Len(chunks') : j < k => chunks'[j].at < chunks'[k].at
    <3>1. SUFFICES ASSUME NEW j \in 1 .. Len(chunks'), NEW k \in 1 .. Len(chunks'), j < k
                   PROVE  chunks'[j].at < chunks'[k].at
      OBVIOUS
    <3>2. CASE k = n + 1
      <4>1. j \in 1 .. n
        BY <1>g, <3>1, <3>2
      <4> QED
        BY <1>f, <1>g, <2>1, <3>2, <4>1
    <3>3. CASE k \in 1 .. n
      <4>1. j \in 1 .. n
        BY <1>g, <3>1, <3>3
      <4> QED
        BY <1>g, <2>2, <3>1, <3>3, <4>1
    <3> QED
      BY <1>g, <3>2, <3>3
  <2> QED
    BY <2>4, <2>5 DEF OffsetInv
<1> QED
  BY <1>1, <1>2, <1>3, <1>4, <1>5, <1>6, <1>c, <1>t DEF IInv

\* Only a cluster already in the file is cleared.
LEMMA ClearDataStep == ASSUME IInv, ClearData PROVE IInv'
<1> USE DEF mainVars, dataVars, workerVars, writerVars, queueVars, liveVars, threadVars,
           fileVars, outVars, mainOnly, NullPtr, workerUnchanged, writerUnchanged
<1>u. /\ UNCHANGED <<mainVars, dataVars, taskList, liveVars, workerVars, db, zimName, writerCluster,
                     clusterToWrite, chunks, fileEnd, checksum>>
      /\ writerPc = "clearData" /\ writerPc' = "getHead"
  BY DEF ClearData
<1>n. PICK n \in Nat : n = Len(chunks)
  BY DEF IInv, TypeOK
<1>a. PICK p : p = writerCluster
  OBVIOUS
<1>l. Len(clustersList) \in Nat /\ \A k \in 1 .. Len(clustersList) : clustersList[k] \in 1 .. Len(clusters)
  BY DEF IInv, TypeOK
<1>r. n <= Len(clustersList)
  BY <1>n, ChunksNumbered DEF IInv
<1>p. /\ clusters[p].closed /\ n \in 1 .. Len(clustersList) /\ p = clustersList[n] /\ p \in Numbered
  <2>1. clusters[p].closed /\ n > 0 /\ p = clustersList[n]
    BY <1>a, <1>n, <1>u DEF IInv, WriterInv
  <2> QED
    BY <1>l, <1>r, <2>1 DEF Numbered
<1>e. p \in 1 .. Len(clusters) /\ clusters[p] \in ClusterType
  BY <1>l, <1>p DEF IInv, TypeOK
<1>d. PICK d \in ClusterType :
        /\ d = Cleared(clusters[p]) /\ d.closed = clusters[p].closed
        /\ d.index = clusters[p].index /\ d.offset = clusters[p].offset
  BY <1>e, ClearedFacts
<1>c. /\ clusters' \in Seq(ClusterType) /\ Len(clusters') = Len(clusters)
      /\ clusters'[p] = d
      /\ \A q \in 1 .. Len(clusters) : q # p => clusters'[q] = clusters[q]
      /\ Numbered' = Numbered /\ Numbered \subseteq 1 .. Len(clusters)
      /\ MainInv' /\ ClosingInv' /\ OpenInv' /\ OpenContentInv' /\ PlaceInv'
  <2>1. clusters' = [clusters EXCEPT ![p] = d]
    BY <1>a, <1>d DEF ClearData
  <2> QED
    BY <1>d, <1>p, <1>u, <2>1, NumberedUpdate
<1>t. TaskInv' /\ TaskClusterInv' /\ (\A q : InSetClosed(q)' <=> InSetClosed(q))
  BY <1>c, <1>p, <1>u, ClosedUpdate
<1>f. \A q \in 1 .. Len(clusters) : /\ clusters'[q].closed = clusters[q].closed
                                   /\ clusters'[q].offset = clusters[q].offset
  BY <1>c, <1>d
<1>1. TypeOK'
  BY <1>c, <1>u DEF IInv, TypeOK
<1>2. QueueInv' /\ WriterInv'
  BY <1>u DEF IInv, QueueInv, WriterInv, InFlight, ToPush, NullAtEnd
<1>4. ContentInv'
  <2>1. HeldInv'
    <3>1. SUFFICES ASSUME NEW q \in Numbered \cup {compCluster, uncompCluster}
                   PROVE  /\ ~clusters'[q].closed /\ ~InSetClosed(q)' => Holds(clusters[q].content, q)'
                          /\ InSetClosed(q)' => Holds(Payload(clusters[q]), q)'
      BY <1>c, <1>u DEF HeldInv
    <3>2. q \in 1 .. Len(clusters)
      BY <1>c DEF IInv, TypeOK
    <3>3. CASE q = p
      BY <1>f, <1>e, <1>p, <1>t, <3>3, ClosedNotInTask
    <3>4. CASE q # p
      <4>1. clusters'[q] = clusters[q]
        BY <1>c, <3>2, <3>4
      <4>3. PICK x, y : /\ x = clusters[q].content /\ x = clusters'[q].content
                        /\ y = Payload(clusters[q]) /\ y = Payload(clusters[q])'
        BY <4>1 DEF Payload
      <4>4. (Holds(x, q) => Holds(x, q)') /\ (Holds(y, q) => Holds(y, q)')
        BY <1>u DEF Holds
      <4>5. /\ Holds(clusters[q].content, q) => Holds(clusters[q].content, q)'
            /\ Holds(Payload(clusters[q]), q) => Holds(Payload(clusters[q]), q)'
        BY <4>3, <4>4 DEF Holds
      <4> QED
        BY <1>t, <4>1, <4>5 DEF IInv, ContentInv, HeldInv
    <3> QED
      BY <3>3, <3>4
  <2>2. ReadyInv'
    <3>2. SUFFICES ASSUME NEW k \in 1 .. Len(clustersList), k > n,
                          clusters'[clustersList[k]].closed
                   PROVE  Holds(Payload(clusters[clustersList[k]]), clustersList[k])'
      BY <1>n, <1>u DEF ReadyInv
    <3>3. PICK q \in 1 .. Len(clusters) : q = clustersList[k]
      BY <1>l
    <3>4. clusters[q].closed /\ k # n
      BY <1>f, <3>2, <3>3
    <3>a. q # p
      BY <1>p, <3>3, <3>4 DEF IInv, OpenInv
    <3>5. Holds(Payload(clusters[q]), q)
      BY <1>n, <3>2, <3>3, <3>4 DEF IInv, ContentInv, ReadyInv
    <3>6. Payload(clusters[q])' = Payload(clusters[q])
      BY <1>c, <3>a DEF Payload
    <3>7. Holds(Payload(clusters[q]), q)'
      BY <1>u, <3>5, <3>6 DEF Holds
    <3> QED
      BY <1>u, <3>3, <3>7 DEF Holds
  <2>3. WrittenInv'
    <3>1. \A k \in 1 .. n : clustersList[k] \in 1 .. Len(clusters)
      BY <1>l, <1>r
    <3> QED
      BY <1>f, <1>n, <1>u, <3>1 DEF IInv, ContentInv, WrittenInv, Holds
  <2> QED
    BY <1>c, <2>1, <2>2, <2>3 DEF ContentInv
<1>5. IndexInv' /\ OffsetInv'
  BY <1>u DEF IInv, IndexInv, BeforeIndexTask, Holding, OffsetInv
<1> QED
  BY <1>1, <1>2, <1>4, <1>5, <1>c, <1>t DEF IInv

\* A step that changes no variable preserves the invariant.
LEMMA StutterStep == ASSUME IInv, UNCHANGED vars PROVE IInv'
<1>1. UNCHANGED <<mainVars, clusters, dataVars, queueVars, liveVars, threadVars, outVars>>
  BY DEF vars, mainVars, dataVars, workerVars, writerVars, queueVars, liveVars, threadVars,
         fileVars, outVars
<1>2. /\ MainInv' /\ ClosingInv' /\ OpenInv' /\ TaskInv' /\ TaskClusterInv' /\ ContentInv'
      /\ IndexInv' /\ OffsetInv'
  BY <1>1, WriterFrame DEF threadVars, queueVars, outVars
<1>3. TypeOK'
  BY DEF vars, IInv, TypeOK
<1>4. QueueInv' /\ WriterInv'
  BY DEF vars, IInv, QueueInv, WriterInv, InFlight, ToPush, NullAtEnd
<1> QED
  BY <1>2, <1>3, <1>4 DEF IInv

\* IInv is inductive: whatever thread takes the next step, every part of it
\* survives.  One lemma above per action.
THEOREM Invariance == Spec => []IInv
<1>1. IInv /\ [Next]_vars => IInv'
  <2> SUFFICES ASSUME IInv, [Next]_vars PROVE IInv'
    OBVIOUS
  <2>1. CASE Main
    <3>1. ASSUME NEW i \in Items, AddItem(i) PROVE IInv'
      BY <3>1, AddItemStep
    <3> QED
      BY <2>1, <3>1, FinishZimCreationStep, AddItemDataStep, AddItemContentStep, HandleItemStep,
         PcOnlySteps, TaskPushStep, ClusterPushStep, ReopenStep, StopHandlerStep,
         CloseLastCompStep, CloseLastUncompStep, QuitWorkersStep, WriteTablesStep,
         WriteHeaderStep, RenameStep DEF Main
  <2>2. ASSUME NEW w \in Workers, taskRunner(w) PROVE IInv'
    BY <2>2, PopTaskStep, RunClusterTaskStep, SetClosedStep, RunIndexTaskStep, AddDocumentStep,
       DeleteTaskStep DEF taskRunner
  <2>3. CASE clusterWriter
    BY <2>3, GetHeadStep, IsClosedStep, PopClusterStep, WriteClusterStep, ClearDataStep DEF clusterWriter
  <2>4. CASE Terminated \/ UNCHANGED vars
    BY <2>4, StutterStep DEF Terminated
  <2> QED
    BY <2>1, <2>2, <2>3, <2>4 DEF Next
<1> QED
  BY <1>1, InitIInv, PTL DEF Spec

\* Every variable of main, of the workers and of the writer thread keeps its
\* type, for any number of items, workers and any queue size.
THEOREM TypeCorrect == Spec => []TypeOK
<1>1. IInv => TypeOK
  BY DEF IInv
<1> QED
  BY <1>1, Invariance, PTL

\* clusterWriter puts the clusters into the file in the order in which
\* closeCluster numbered them, and every dirent still points to its blob, in
\* whatever order the workers compress.
THEOREM WritesWhereDirentsSay == Spec => []WrittenWhereDirentsSay
<1>1. IInv => WrittenWhereDirentsSay
  <2> SUFFICES ASSUME IInv PROVE WrittenWhereDirentsSay
    OBVIOUS
  <2>1. Len(chunks) \in Nat /\ Len(clustersList) \in Nat /\ Len(chunks) <= Len(clustersList)
    BY ChunksNumbered DEF IInv
  <2>2. \A k \in 1 .. Len(chunks) : k \in 1 .. Len(clustersList)
    BY <2>1
  <2> QED
    BY <2>1, <2>2 DEF IInv, OpenInv, ContentInv, WrittenInv, Holds, WrittenWhereDirentsSay
<1> QED
  BY <1>1, Invariance, PTL

\* FullTextXapianHandler::stop closes the database only when each item that
\* has something to index is in it, and no worker writes to it afterwards.
THEOREM IndexComplete == Spec => []IndexCompleteWhenClosed
<1>1. IInv => IndexCompleteWhenClosed
  <2> SUFFICES ASSUME IInv, ~db.open PROVE /\ db.documents = (added \ Metadata) \cap HasIndexData
                                          /\ \A w \in Workers : workerPc[w] # "addDocument"
    BY DEF IndexCompleteWhenClosed
  <2>1. handler > 0 /\ liveIndex = {} /\ WithIndex /\ handler \in Nat
    BY DEF IInv, IndexInv, TypeOK
  <2>2. ~BeforeIndexTask
    BY <2>1 DEF BeforeIndexTask
  <2>3. db.documents = (added \ Metadata) \cap HasIndexData
    BY <2>1, <2>2 DEF IInv, IndexInv
  <2>4. \A w \in Workers : workerPc[w] # "addDocument"
    BY <2>1 DEF IInv, TaskInv, IndexInv, Holding
  <2> QED
    BY <2>3, <2>4
<1> QED
  BY <1>1, Invariance, PTL

\* A cluster is never worked on by two threads at once, although they share
\* it by pointer and without a lock.
THEOREM OneOwner == Spec => []OneOwnerPerCluster
<1>1. IInv => OneOwnerPerCluster
  <2> SUFFICES ASSUME IInv PROVE OneOwnerPerCluster
    OBVIOUS
  <2>1. ASSUME NEW w \in Workers, NEW v \in Workers \ {w}
        PROVE  WorkingOn(w) \cap WorkingOn(v) = {}
    <3>1. SUFFICES ASSUME Holding(w), Holding(v), workerTask[w].kind = "cluster",
                          workerTask[v].kind = "cluster"
                   PROVE  workerTask[v].of # workerTask[w].of
      BY DEF WorkingOn, Holding
    <3> QED
      BY <3>1, ClusterTaskUnique
  <2>2. ASSUME NEW w \in Workers PROVE WorkingOn(w) \cap WriterOn = {}
    BY DEF IInv, WriterInv, TaskClusterInv, Unprocessed, WorkingOn, WriterOn
  <2>3. ASSUME mainPc = "addContent"
        PROVE  /\ OpenCluster(call.comp) \notin WriterOn
               /\ \A w \in Workers : OpenCluster(call.comp) \notin WorkingOn(w)
    <3>1. /\ OpenCluster(call.comp) \notin Numbered
          /\ OpenCluster(call.comp) \in {compCluster, uncompCluster}
      BY <2>3 DEF IInv, TypeOK, OpenInv, ClosingInv, OpenCluster, NullPtr
    <3>2. ~clusters[OpenCluster(call.comp)].closed
      BY <3>1 DEF IInv, ContentInv, OpenContentInv
    <3>3. OpenCluster(call.comp) \notin WriterOn
      BY <3>2 DEF IInv, WriterInv, WriterOn
    <3>4. \A w \in Workers : OpenCluster(call.comp) \notin WorkingOn(w)
      BY <3>1 DEF IInv, TaskClusterInv, WorkingOn
    <3> QED
      BY <3>3, <3>4
  <2> QED
    BY <2>1, <2>2, <2>3 DEF OneOwnerPerCluster
<1> QED
  BY <1>1, Invariance, PTL

\* The queues between the threads never hold more than MAX_QUEUE_SIZE + 1
\* elements: pushToQueue waits without the lock, but has no rival.
THEOREM QueuesBounded == Spec => []QueueBound
<1> USE DEF mainVars, dataVars, workerVars, writerVars, queueVars, liveVars, threadVars,
           fileVars, outVars, mainOnly, workerUnchanged, writerUnchanged
<1>1. Init => RoomInv
  BY ConstantsAssumption DEF Init, RoomInv, QueueBound
<1>2. IInv /\ RoomInv /\ [Next]_vars => RoomInv'
  <2> SUFFICES ASSUME IInv, RoomInv, [Next]_vars PROVE RoomInv'
    OBVIOUS
  <2>t. /\ taskList \in Seq(TaskType) /\ clusterToWrite \in Seq(0 .. Len(clusters))
        /\ Len(taskList) \in Nat /\ Len(clusterToWrite) \in Nat /\ MaxQueueSize \in Nat
        /\ call.push \in TaskType /\ call.closing \in 0 .. Len(clusters)
    BY ConstantsAssumption DEF IInv, TypeOK, CallType, ClosingInv, OpenCluster, NullPtr
  <2>1. ASSUME UNCHANGED <<taskList, clusterToWrite>>, mainPc' \notin {"taskPush", "clusterPush"} \/ mainPc' = mainPc
        PROVE  RoomInv'
    BY <2>1 DEF RoomInv, QueueBound
  <2>2. CASE TaskWait \/ ClusterWait
    BY <2>2 DEF RoomInv, QueueBound, TaskWait, ClusterWait, HasRoom
  <2>3. CASE TaskPush
    <3>1. Len(taskList') = Len(taskList) + 1 /\ clusterToWrite' = clusterToWrite
          /\ mainPc = "taskPush" /\ mainPc' \notin {"taskPush", "clusterPush"}
      BY <2>t, <2>3, AppendSeq DEF TaskPush
    <3> QED
      BY <2>t, <3>1 DEF RoomInv, QueueBound
  <2>4. CASE ClusterPush
    <3>1. Len(clusterToWrite') = Len(clusterToWrite) + 1 /\ taskList' = taskList
          /\ mainPc = "clusterPush" /\ mainPc' \notin {"taskPush", "clusterPush"}
      BY <2>t, <2>4, AppendSeq DEF ClusterPush
    <3> QED
      BY <2>t, <3>1 DEF RoomInv, QueueBound
  <2>5. CASE Main
    <3>1. ASSUME NEW i \in Items, AddItem(i) PROVE RoomInv'
      BY <2>1, <3>1 DEF AddItem
    <3>2. CASE FinishZimCreation \/ HandleItem \/ StopHandler \/ HandlersStopped \/ WaitClusterTasks
               \/ QuitWorkers \/ JoinWorkers \/ JoinWriter \/ WriteTables \/ WriteHeader \/ Rename
      BY <2>1, <3>2 DEF FinishZimCreation, HandleItem, StopHandler, HandlersStopped, WaitClusterTasks,
         QuitWorkers, JoinWorkers, JoinWriter, WriteTables, WriteHeader, Rename
    <3>3. CASE AddItemData \/ CloseLastComp \/ CloseLastUncomp
      BY <2>1, <3>3 DEF AddItemData, CloseLastComp, CloseLastUncomp, CloseLastCluster, CloseCluster
    <3>4. CASE AddItemContent
      BY <2>1, <3>4 DEF AddItemContent
    <3>5. CASE Reopen
      <4>1. mainPc' \in {"api", "addContent", "closeUncomp", "waitTasks"} /\ UNCHANGED <<taskList, clusterToWrite>>
        BY <3>5 DEF Reopen, IInv, TypeOK, CallType
      <4> QED
        BY <2>1, <4>1
    <3> QED
      BY <2>2, <2>3, <2>4, <2>5, <3>1, <3>2, <3>3, <3>4, <3>5 DEF Main
  <2>6. ASSUME NEW w \in Workers, taskRunner(w) PROVE RoomInv'
    <3>1. CASE PopTask(w)
      <4>1. Len(taskList') = Len(taskList) - 1 /\ UNCHANGED <<clusterToWrite, mainPc>>
        BY <2>t, <3>1, TailSeq DEF PopTask
      <4> QED
        BY <2>t, <4>1 DEF RoomInv, QueueBound
    <3>2. CASE ~PopTask(w)
      BY <2>1, <2>6, <3>2 DEF taskRunner, RunClusterTask, SetClosed, RunIndexTask, AddDocument, DeleteTask
    <3> QED
      BY <3>1, <3>2
  <2>7. CASE clusterWriter
    <3>1. CASE PopCluster
      <4>1. clusterToWrite # <<>>
        BY <3>1, <2>t DEF IInv, WriterInv, PopCluster
      <4>2. Len(clusterToWrite') = Len(clusterToWrite) - 1 /\ UNCHANGED <<taskList, mainPc>>
        BY <2>t, <3>1, <4>1, TailSeq DEF PopCluster
      <4> QED
        BY <2>t, <4>2 DEF RoomInv, QueueBound
    <3>2. CASE ~PopCluster
      BY <2>1, <2>7, <3>2 DEF clusterWriter, GetHead, IsClosed, WriteCluster, ClearData
    <3> QED
      BY <3>1, <3>2
  <2>8. CASE Terminated \/ UNCHANGED vars
    BY <2>1, <2>8 DEF Terminated, vars
  <2> QED
    BY <2>5, <2>6, <2>7, <2>8 DEF Next
<1>3. RoomInv => QueueBound
  BY DEF RoomInv
<1> QED
  BY <1>1, <1>2, <1>3, Invariance, PTL DEF Spec

\* clusterWriter only appends, and has ended before the tables and the header
\* are written.
THEOREM OnlyAppends == Spec => AppendOnly
<1> USE DEF mainVars, dataVars, workerVars, writerVars, queueVars, liveVars, threadVars,
           fileVars, outVars, mainOnly, workerUnchanged, writerUnchanged
<1> DEFINE A == /\ Len(chunks') >= Len(chunks)
                /\ \A k \in 1 .. Len(chunks) : chunks'[k] = chunks[k]
                /\ mainPc \in {"header", "rename", "done"} => chunks' = chunks
<1>1. IInv /\ [Next]_vars => [A]_<<mainPc, chunks>>
  <2> SUFFICES ASSUME IInv, [Next]_vars PROVE A
    OBVIOUS
  <2>0. Len(chunks) \in Nat /\ chunks \in Seq(ChunkType)
    BY DEF IInv, TypeOK
  <2>1. ASSUME chunks' = chunks PROVE A
    BY <2>0, <2>1
  <2>2. CASE WriteCluster
    <3>1. PICK e \in ChunkType : chunks' = Append(chunks, e)
      <4>1. clusters[writerCluster] \in ClusterType /\ fileEnd \in Nat
        BY SMTT(30), <2>2 DEF WriteCluster, IInv, TypeOK, WriterInv, NullPtr
      <4> QED
        BY <2>2, <4>1, ClusterChunkFacts DEF WriteCluster
    <3>2. mainPc \notin {"header", "rename", "done"}
      BY <2>2 DEF WriteCluster, IInv, WriterInv
    <3> QED
      BY <2>0, <3>1, <3>2, AppendSeq
  <2>3. CASE Main
    <3>1. ASSUME NEW i \in Items, AddItem(i) PROVE chunks' = chunks
      BY <3>1 DEF AddItem
    <3>2. chunks' = chunks
      BY <2>3, <3>1 DEF Main, FinishZimCreation, HandleItem, StopHandler, HandlersStopped, WaitClusterTasks,
         QuitWorkers, JoinWorkers, JoinWriter, WriteTables, WriteHeader, Rename, AddItemData, CloseLastComp,
         CloseLastUncomp, CloseLastCluster, AddItemContent, TaskWait, TaskPush, ClusterWait, ClusterPush, Reopen
    <3> QED
      BY <2>1, <3>2
  <2>4. ASSUME NEW w \in Workers, taskRunner(w) PROVE A
    <3>1. chunks' = chunks
      BY <2>4 DEF taskRunner, PopTask, RunClusterTask, SetClosed, RunIndexTask, AddDocument, DeleteTask
    <3> QED
      BY <2>1, <3>1
  <2>5. CASE GetHead \/ IsClosed \/ PopCluster \/ ClearData
    <3>1. chunks' = chunks
      BY <2>5 DEF GetHead, IsClosed, PopCluster, ClearData
    <3> QED
      BY <2>1, <3>1
  <2>6. CASE Terminated \/ UNCHANGED vars
    <3>1. chunks' = chunks
      BY <2>6 DEF Terminated, vars
    <3> QED
      BY <2>1, <3>1
  <2> QED
    BY <2>2, <2>3, <2>4, <2>5, <2>6 DEF Next, clusterWriter
<1> QED
  BY <1>1, Invariance, PTL DEF Spec, AppendOnly
=============================================================================
