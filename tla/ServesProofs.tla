------------------------------- MODULE ServesProofs -------------------------------
(***************************************************************************)
(* What search serves of a document nobody overrode: an indexed one its      *)
(* stored file, one that is gone nothing; and that no active document is     *)
(* left without an owner.                                                    *)
(***************************************************************************)
EXTENDS FlowProofs

-----------------------------------------------------------------------------
(* One row per source, which keeps two doc_ids from sharing a stored file.    *)

OneRow == \A d, e \in DocIds : SourceOf[d] = SourceOf[e] /\ HasRow(d) /\ HasRow(e) => d = e

\* What the event loop's steps do to the stores, the rows and the jobs: only a
\* few of them touch what search serves.
LEMMA LoopTouches ==
  ASSUME TypeOK, Shape, Request \/ Handle \/ Poll \/ Crash \/ \E j \in Jobs : StartTask(j)
  PROVE  /\ chunks' = chunks \/ FailPurge
         /\ s3' = s3 \/ UploadPut
         /\ \A d \in DocIds :
              \/ status'[d] = status[d]
              \/ UploadBegin(d) /\ status'[d] = "uploading"
              \/ HasRow(d) /\ status'[d] \in {"pending", "running"}
              \/ FailMark /\ d = loop.id /\ HasRow(d) /\ status'[d] = "failed"
         /\ \A j \in Jobs : job'[j] = job[j] \/ job'[j].pc \in {"free", "wait", "load"}
         /\ loop'.op = "failMark" => FailPurge /\ loop'.id = loop.id
         /\ overridden \subseteq overridden'
<1>s. {"pending", "running", "failed", "uploading"} \subseteq Status
  BY DEF Status, RowStatus, StableStatus, ActiveStatus
<1>1. CASE Request
  <2>1. ASSUME NEW e \in DocIds, UploadBegin(e)
        PROVE  /\ UNCHANGED <<chunks, s3, job, overridden>> /\ loop'.op = "put"
               /\ status' = [status EXCEPT ![e] = "uploading"] /\ UploadBegin(e)
    BY <2>1 DEF UploadBegin, Begin, IdleLoop, history
  <2>2. ASSUME NEW e \in DocIds, ForceFailBegin(e) \/ RecoverBegin(e)
        PROVE  UNCHANGED <<chunks, s3, job, status>> /\ loop'.op = "failPurge"
               /\ overridden \subseteq overridden'
    BY <2>2 DEF ForceFailBegin, RecoverBegin, Begin, IdleLoop, Supersede, Override, rows
  <2>3. ASSUME NEW e \in DocIds, NEW force \in BOOLEAN,
               DeleteBegin(e, force) \/ ReindexBegin(e, force)
        PROVE  UNCHANGED <<chunks, s3, job, status, overridden>> /\ loop'.op = "enqueue"
    BY <2>3 DEF DeleteBegin, ReindexBegin, Begin, IdleLoop, rows, history
  <2>4. ASSUME NEW force \in BOOLEAN, ReindexKbBegin(force)
        PROVE  UNCHANGED <<chunks, s3, job, status, overridden>> /\ loop'.op = "reindex"
    BY <2>4 DEF ReindexKbBegin, IdleLoop, rows, history
  <2>5. ASSUME NEW e \in DocIds, UploadBegin(e), NEW d \in DocIds
        PROVE  status'[d] = status[d] \/ (UploadBegin(d) /\ status'[d] = "uploading")
    BY <2>1, <2>5 DEF TypeOK
  <2> QED
    BY <1>1, <2>1, <2>2, <2>3, <2>4, <2>5 DEF Request
<1>2. CASE Handle
  <2>0. UNCHANGED job /\ overridden' = overridden
    BY <1>2 DEF Handle, UploadPut, UploadStage, ReindexKbNext, Enqueue, SetPending, Push,
                FailPurge, FailMark, history
  <2>1. (chunks' = chunks \/ FailPurge) /\ (s3' = s3 \/ UploadPut)
    BY <1>2 DEF Handle, UploadStage, ReindexKbNext, Enqueue, SetPending, Push, FailPurge, FailMark,
                UploadPut
  <2>2. ASSUME NEW d \in DocIds
        PROVE  \/ status'[d] = status[d]
               \/ HasRow(d) /\ status'[d] \in {"pending", "running"}
               \/ FailMark /\ d = loop.id /\ HasRow(d) /\ status'[d] = "failed"
    <3>1. CASE UploadStage \/ SetPending
      BY <1>s, <3>1, UpdateTyped DEF UploadStage, SetPending
    <3>2. CASE FailMark
      BY <1>s, <3>2, UpdateTyped DEF FailMark
    <3>3. CASE UploadPut \/ ReindexKbNext \/ Enqueue \/ Push \/ FailPurge
      BY <3>3 DEF UploadPut, ReindexKbNext, Enqueue, Push, FailPurge, rows
    <3> QED
      BY <1>2, <3>1, <3>2, <3>3 DEF Handle
  <2>3. loop'.op = "failMark" => FailPurge /\ loop'.id = loop.id
    <3>0. /\ loop.back \in {"idle", "reindex", "drain"} /\ IdleLoop.op # "failMark"
      BY DEF Shape, LoopShape, IdleLoop
    <3>g. ASSUME NEW op \in {"stage", "enqueue", "push", "setPending", "failMark"}, Goto(op)
          PROVE  loop'.op = op /\ loop'.id = loop.id
      BY <3>g, LoopTyped DEF Goto
    <3>r. ASSUME Return PROVE loop'.op # "failMark"
      BY <3>0, <3>r, LoopTyped DEF Return
    <3>1. CASE UploadPut \/ UploadStage \/ SetPending \/ FailPurge
      BY <3>0, <3>1, <3>g DEF UploadPut, UploadStage, SetPending, FailPurge
    <3>2. CASE Enqueue
      BY <3>2, <3>g, <3>r DEF Enqueue
    <3>3. CASE Push
      BY <3>3, <3>r DEF Push
    <3>4. CASE ReindexKbNext
      BY <3>0, <3>4, LoopTyped DEF ReindexKbNext
    <3>5. CASE FailMark
      BY <3>0, <3>5, LoopTyped DEF FailMark
    <3> QED
      BY <1>2, <3>1, <3>2, <3>3, <3>4, <3>5 DEF Handle
  <2> QED
    BY <2>0, <2>1, <2>2, <2>3
<1>3. CASE Poll
  <2>1. UNCHANGED <<chunks, s3, overridden>>
    BY <1>3 DEF Poll, PollBegin, DrainNext, DrainDone, Take, Claim, ListDone, TakeError, history
  <2>2. loop'.op # "failMark"
    <3>t. ASSUME NEW k, TakeReady(k) PROVE loop'.op = "drain"
      BY <3>t DEF TakeReady, IdleLoop
    <3>n. ASSUME loop.op = "take", NextList PROVE loop'.op # "failMark"
      <4>1. CASE loop.kind = "upload" /\ UNCHANGED delayed
        BY <3>n, <4>1, LoopTyped DEF NextList
      <4>2. CASE loop' = IdleLoop
        BY <4>2 DEF IdleLoop
      <4> QED
        BY <3>n, <3>t, <4>1, <4>2 DEF NextList
    <3>1. CASE PollBegin \/ DrainDone
      BY <3>1, <3>t DEF PollBegin, DrainDone, IdleLoop
    <3>2. CASE DrainNext
      BY <3>2, LoopTyped DEF DrainNext
    <3>3. CASE Take
      BY <3>3, LoopTyped DEF Take
    <3>4. CASE Claim
      BY <3>4, LoopTyped DEF Claim
    <3>5. CASE ListDone \/ TakeError
      BY <3>5, <3>n DEF ListDone, TakeError
    <3> QED
      BY <1>3, <3>1, <3>2, <3>3, <3>4, <3>5 DEF Poll
  <2>3. CASE Claim
    <3>1. \A d \in DocIds : status'[d] = status[d] \/ (HasRow(d) /\ status'[d] = "running")
      BY <1>s, <2>3, UpdateTyped DEF Claim
    <3>2. \A j \in Jobs : job'[j] = job[j] \/ job'[j].pc = "wait"
      <4>1. PICK i \in Jobs : job' = [job EXCEPT ![i] = NewJob(loop.kind, loop)]
        BY <2>3 DEF Claim
      <4>2. NewJob(loop.kind, loop).pc = "wait"
        BY DEF NewJob, FreeJob
      <4> QED
        BY <4>1, <4>2 DEF TypeOK
    <3> QED
      BY <2>1, <2>2, <3>1, <3>2
  <2>4. CASE PollBegin \/ DrainNext \/ DrainDone \/ Take \/ ListDone \/ TakeError
    <3>1. UNCHANGED <<status, job>>
      BY <2>4 DEF PollBegin, DrainNext, DrainDone, Take, ListDone, TakeError, rows
    <3> QED
      BY <2>1, <2>2, <3>1
  <2> QED
    BY <1>3, <2>3, <2>4 DEF Poll
<1>4. CASE Crash
  BY <1>4 DEF Crash, IdleLoop, FreeJob, rows, history
<1>5. ASSUME NEW j \in Jobs, StartTask(j)
      PROVE  /\ UNCHANGED <<chunks, s3, status, overridden, loop>> /\ loop.op = "idle"
             /\ \A i \in Jobs : job'[i] = job[i] \/ job'[i].pc = "load"
  <2>1. Step(j, "load") /\ "load" \in PC
    BY <1>5 DEF StartTask, Step, PC
  <2>2. \A i \in Jobs : job'[i] = job[i] \/ job'[i].pc = "load"
    BY <2>1, StepEffect
  <2> QED
    BY <1>5, <2>2 DEF StartTask, rows, history
<1> QED
  BY <1>1, <1>2, <1>3, <1>4, <1>5

\* Only an upload creates a row.
LEMMA RowsStay ==
  ASSUME TypeOK, Shape, Next, NEW d \in DocIds, status[d] = "none", status'[d] # "none"
  PROVE  UploadBegin(d) /\ status' = [status EXCEPT ![d] = "uploading"]
<1>1. CASE Request \/ Handle \/ Poll \/ Crash \/ \E j \in Jobs : StartTask(j)
  BY <1>1, LoopTouches DEF HasRow, UploadBegin
<1>2. ASSUME NEW j \in Jobs, JobStep(j) PROVE FALSE
  <2>1. JobWrites(j)
    BY <1>2, PipelineWrites
  <2>2. ASSUME NEW e, NEW st, UpdateStatus(e, st) PROVE status'[d] = "none"
    BY <2>2 DEF UpdateStatus, HasRow, TypeOK
  <2> QED
    BY <2>1, <2>2 DEF JobWrites
<1> QED
  BY <1>1, <1>2 DEF Next

\* A new row is created only for a source that has none.
LEMMA OneRowKept ==
  ASSUME TypeOK, Shape, OneRow, [Next]_vars
  PROVE  OneRow'
<1> SUFFICES ASSUME NEW d \in DocIds, NEW e \in DocIds, SourceOf[d] = SourceOf[e],
                    HasRow(d)', HasRow(e)', d # e
             PROVE  FALSE
  BY DEF OneRow
<1>1. CASE UNCHANGED vars
  BY <1>1 DEF vars, rows, OneRow, HasRow
<1>2. CASE Next
  <2>1. ASSUME NEW x \in DocIds, NEW y \in DocIds, SourceOf[x] = SourceOf[y], x # y,
               ~HasRow(x), HasRow(x)', HasRow(y)'
        PROVE  FALSE
    <3>1. UploadBegin(x) /\ status' = [status EXCEPT ![x] = "uploading"]
      BY <1>2, <2>1, RowsStay DEF HasRow
    <3>2. HasRow(y) /\ RowOf(SourceOf[x]) = {}
      BY <2>1, <3>1 DEF UploadBegin, HasRow, TypeOK
    <3> QED
      BY <2>1, <3>2 DEF RowOf
  <2> QED
    BY <2>1 DEF OneRow
<1> QED
  BY <1>1, <1>2

-----------------------------------------------------------------------------
(* What the stores hold at every stage of a document's work.  The file part  *)
(* is about a service without dedup, which hands chunks from one document to *)
(* another; the chunk part about a Qdrant that answers.                      *)

VerdictPC == DupPC \cup {"identical", "indexMoved"}
NoVerdict == \A j \in Jobs : job[j].pc \notin VerdictPC

\* The pipeline positions at which the version read from the file still counts,
\* and those at which the document's chunks have been purged.
ReadPC   == {"dedup", "embed", "clear", "insert", "index"}
PurgedPC == {"failed", "file", "row"}

JobServes(j, d) ==
  /\ job[j].pc \in ReadPC => job[j].ver = s3[SourceOf[d]]
  /\ job[j].pc = "insert" => chunks[d] = {}
  /\ job[j].pc = "index" => chunks[d] = {s3[SourceOf[d]]}

FileServed(d) ==
  /\ status[d] = "indexed" => chunks[d] = {s3[SourceOf[d]]}
  /\ \A j \in JobsOf(d) : JobServes(j, d)

GoneClean(d) ==
  /\ status[d] \in {"none", "deleted", "failed"} => chunks[d] = {}
  /\ \A j \in JobsOf(d) : job[j].pc \in PurgedPC => chunks[d] = {}
  /\ loop.op = "failMark" /\ loop.id = d => chunks[d] = {}

FilesServed == NoVerdict /\ \A d \in DocIds : ~Overridden(d) => FileServed(d)
GonesClean  == \A d \in DocIds : ~Overridden(d) => GoneClean(d)

\* Whoever holds a document of the source of d, another document of that source
\* has no row and no work.
LEMMA SourceIsHeld ==
  ASSUME AskedInv, OneRow, NEW d \in DocIds, NEW e \in DocIds, SourceOf[d] = SourceOf[e], d # e,
         ~Overridden(d), HasRow(e)
  PROVE  status[d] = "none" /\ JobsOf(d) = {}
<1>1. status[d] = "none" /\ Owned(d)
  BY DEF AskedInv, OwnershipInv, OneRow, HasRow
<1>2. ~HasJob(d)
  BY <1>1, RestingIsFree
<1> QED
  BY <1>1, <1>2 DEF HasJob

\* The event loop's steps keep both parts.
LEMMA LoopServes ==
  ASSUME AskedInv, OneRow, Request \/ Handle \/ Poll \/ Crash \/ \E j \in Jobs : StartTask(j),
         NEW d \in DocIds, ~Overridden(d)'
  PROVE  /\ FileServed(d) => FileServed(d)'
         /\ GoneClean(d) /\ ~QdrantFails => GoneClean(d)'
<1>0. TypeOK /\ Shape
  BY DEF AskedInv, OwnershipInv
<1>1. /\ chunks' = chunks \/ FailPurge
      /\ s3' = s3 \/ UploadPut
      /\ \/ status'[d] = status[d]
         \/ UploadBegin(d) /\ status'[d] = "uploading"
         \/ HasRow(d) /\ status'[d] \in {"pending", "running"}
         \/ FailMark /\ d = loop.id /\ HasRow(d) /\ status'[d] = "failed"
      /\ \A j \in Jobs : job'[j] = job[j] \/ job'[j].pc \in {"free", "wait", "load"}
      /\ loop'.op = "failMark" => FailPurge /\ loop'.id = loop.id
  BY <1>0, LoopTouches
<1>2. ~Overridden(d) /\ Owned(d) /\ Asking(d)
  <2>1. ~Overridden(d)
    BY <1>0, LoopTouches DEF Overridden
  <2> QED
    BY <2>1, AskedOne DEF AskedInv, OwnershipInv
<1>3. ASSUME NEW j \in JobsOf(d)', job'[j].pc \in ReadPC \cup PurgedPC
      PROVE  j \in Jobs /\ j \in JobsOf(d) /\ job'[j] = job[j]
  BY <1>1, <1>3 DEF JobsOf, ReadPC, PurgedPC
<1>4. CASE FailPurge
  <2>1. /\ chunks' = [chunks EXCEPT ![loop.id] = IF HasRow(loop.id) THEN {} ELSE @]
           \/ (QdrantFails /\ chunks' = chunks)
        /\ UNCHANGED <<s3, status, job>> /\ loop.op = "failPurge"
    BY <1>4 DEF FailPurge, PurgeChunks, rows
  <2>2. loop.id = d => status[d] # "indexed" /\ JobsOf(d) = {}
    BY <1>2, <2>1 DEF Asking, BeingFailed, FailOp, Owned, HasJob, IsActive, ActiveStatus, StableStatus
  <2>3. loop.id # d => chunks'[d] = chunks[d]
    BY <1>0, <2>1 DEF TypeOK
  <2>4. loop.id = d => chunks'[d] = {} \/ (chunks'[d] = chunks[d] /\ (QdrantFails \/ ~HasRow(d)))
    BY <1>0, <2>1 DEF TypeOK
  <2>5. JobsOf(d)' = JobsOf(d)
    BY <2>1 DEF JobsOf
  <2>6. FileServed(d) => FileServed(d)'
    BY <2>1, <2>2, <2>3, <2>5 DEF FileServed, JobServes
  <2>7. GoneClean(d) /\ ~QdrantFails => GoneClean(d)'
    BY <1>1, <2>1, <2>3, <2>4, <2>5 DEF GoneClean, HasRow
  <2> QED
    BY <2>6, <2>7
<1>5. CASE UploadPut
  <2>1. /\ loop.op = "put" /\ UNCHANGED <<chunks, status, job>>
        /\ s3' = s3 \/ s3' = [s3 EXCEPT ![SourceOf[loop.id]] = uploads]
    BY <1>5 DEF UploadPut, rows
  <2>2. loop.id \in DocIds
    BY <1>0, <2>1 DEF Shape, LoopShape, InHandOp
  <2>3. s3'[SourceOf[d]] = s3[SourceOf[d]] \/ (status[d] # "indexed" /\ JobsOf(d) = {})
    <3>1. CASE SourceOf[loop.id] # SourceOf[d]
      BY <1>0, <2>1, <2>2, <3>1, StoreAssumption DEF TypeOK
    <3>2. CASE SourceOf[loop.id] = SourceOf[d]
      <4>1. Owned(loop.id) /\ InHand(loop.id)
        BY <1>2, <2>1, <2>2, <3>2 DEF AskedInv, OwnershipInv, Overridden, InHand, InHandOp
      <4>2. status[loop.id] = "uploading" /\ ~HasJob(loop.id)
        BY <2>1, <4>1 DEF Owned, HandStatus
      <4>3. d # loop.id => status[d] = "none" /\ JobsOf(d) = {}
        BY <1>2, <2>2, <3>2, <4>2, SourceIsHeld DEF HasRow
      <4> QED
        BY <4>2, <4>3 DEF HasJob
    <3> QED
      BY <3>1, <3>2
  <2>4. JobsOf(d)' = JobsOf(d)
    BY <2>1 DEF JobsOf
  <2>5. FileServed(d) => FileServed(d)'
    BY <2>1, <2>3, <2>4 DEF FileServed, JobServes
  <2>6. GoneClean(d) => GoneClean(d)'
    <3>1. ~FailPurge
      BY <2>1 DEF FailPurge
    <3> QED
      BY <1>1, <2>1, <2>4, <3>1 DEF GoneClean
  <2> QED
    BY <2>5, <2>6
<1>6. CASE ~FailPurge /\ ~UploadPut
  <2>1. UNCHANGED <<chunks, s3>> /\ loop'.op # "failMark"
    BY <1>1, <1>6
  <2>2. status'[d] = "indexed" => status[d] = "indexed"
    BY <1>1
  <2>3. \A j \in JobsOf(d)' : JobServes(j, d) /\ j \in JobsOf(d) => JobServes(j, d)'
    BY <1>3, <2>1 DEF JobServes, ReadPC
  <2>4. \A j \in JobsOf(d)' : j \in JobsOf(d) \/ JobServes(j, d)'
    BY <1>3 DEF JobServes, ReadPC
  <2>5. FileServed(d) => FileServed(d)'
    BY <2>1, <2>2, <2>3, <2>4 DEF FileServed
  <2>6. GoneClean(d) => GoneClean(d)'
    <3>1. GoneClean(d) /\ status'[d] \in {"none", "deleted", "failed"} => chunks[d] = {}
      BY <1>1 DEF GoneClean, FailMark
    <3>2. GoneClean(d) => \A j \in JobsOf(d)' : job'[j].pc \in PurgedPC => chunks[d] = {}
      BY <1>3 DEF GoneClean
    <3> QED
      BY <2>1, <3>1, <3>2 DEF GoneClean
  <2> QED
    BY <2>5, <2>6
<1> QED
  BY <1>4, <1>5, <1>6

-----------------------------------------------------------------------------
(* The pipelines. *)

\* What a thread does to other documents' chunks and to the stored files.
LEMMA PipelineTouches ==
  ASSUME TypeOK, Shape, NEW j \in Jobs, JobStep(j), NEW d \in DocIds, d # job[j].id
  PROVE  /\ \/ chunks'[d] = chunks[d]
            \/ chunks'[d] = {} /\ job[j].pc \in VerdictPC
         /\ s3' = s3 \/ DeleteFile(j)
<1>0. job[j].id \in DocIds
  BY PipelineMoves DEF JobMoves
<1>1. CASE MoveChunks(j) \/ PurgeOther(j)
  <2>1. job[j].dup \in DocIds /\ job[j].pc \in VerdictPC /\ s3' = s3
    BY <1>1 DEF MoveChunks, PurgeOther, At, Shape, JobShape, DupPC, VerdictPC
  <2>2. chunks'[d] = chunks[d] \/ chunks'[d] = {}
    BY <1>0, <1>1, <2>1 DEF MoveChunks, PurgeOther, Dup, Doc, TypeOK
  <2> QED
    BY <2>1, <2>2
<1>2. CASE Clear(j) \/ Insert(j) \/ Fail(j) \/ DeleteChunks(j)
  BY <1>0, <1>2 DEF Clear, Insert, Fail, DeleteChunks, Doc, TypeOK
<1>3. CASE UNCHANGED chunks
  <2>1. s3' = s3 \/ DeleteFile(j)
    BY DEF JobStep, IngestStep, DeleteStep, IngestLoad, IngestBegin, Parse, Detect, Identical,
           Resolve, MoveChunks, PurgeOther, RetireOther, Embed, Clear, Insert, SetIndexed,
           DeleteLoad, SetDeleting, DeleteChunks, DeleteRow, Fail, SetFailed
  <2> QED
    BY <1>3, <2>1
<1> QED
  BY <1>1, <1>2, <1>3 DEF JobStep, IngestStep, DeleteStep, IngestLoad, IngestBegin, Parse, Detect,
     Identical, Resolve, RetireOther, Embed, SetIndexed, DeleteLoad, SetDeleting, DeleteFile,
     DeleteRow, SetFailed

\* A pipeline step as another document sees it.
LEMMA OtherServes ==
  ASSUME AskedInv, OneRow, NEW j \in Jobs, JobStep(j), NEW d \in DocIds, ~Overridden(d)',
         d # job[j].id
  PROVE  /\ FileServed(d) /\ NoVerdict => FileServed(d)'
         /\ GoneClean(d) => GoneClean(d)'
<1>0. TypeOK /\ Shape /\ job[j].id \in DocIds /\ job[j].pc # "free"
  BY PipelineMoves DEF AskedInv, OwnershipInv, JobMoves
<1>1. JobMoves(j) /\ JobWrites(j)
  BY <1>0, PipelineMoves, PipelineWrites
<1>2. ~Overridden(d) /\ Owned(d) /\ loop' = loop
  BY <1>1 DEF JobMoves, Overridden, AskedInv, OwnershipInv
<1>3. /\ chunks'[d] = chunks[d] \/ (chunks'[d] = {} /\ job[j].pc \in VerdictPC)
      /\ s3' = s3 \/ DeleteFile(j)
  BY <1>0, PipelineTouches
<1>4. status'[d] = status[d] \/ (status[d] = "indexed" /\ status'[d] = "outdated")
  BY <1>0, <1>1, OthersStatus
<1>5. JobsOf(d)' = JobsOf(d) /\ \A i \in JobsOf(d) : job'[i] = job[i]
  BY <1>0, <1>1 DEF JobMoves, JobsOf
<1>6. s3'[SourceOf[d]] = s3[SourceOf[d]] \/ (status[d] = "none" /\ JobsOf(d) = {})
  <2>1. ASSUME DeleteFile(j), SourceOf[job[j].id] = SourceOf[d]
        PROVE  status[d] = "none" /\ JobsOf(d) = {}
    <3>1. Owned(job[j].id)
      BY <1>0, <1>2, <2>1 DEF AskedInv, OwnershipInv, Overridden
    <3>2. HasRow(job[j].id)
      BY <1>0, <3>1, WorkedOnIsBusy DEF HasRow, JobStatus
    <3> QED
      BY <1>0, <1>2, <2>1, <3>2, SourceIsHeld
  <2>2. ASSUME DeleteFile(j), SourceOf[job[j].id] # SourceOf[d]
        PROVE  s3'[SourceOf[d]] = s3[SourceOf[d]]
    BY <1>0, <2>2, StoreAssumption DEF DeleteFile, Doc, TypeOK
  <2> QED
    BY <1>3, <2>1, <2>2
<1>7. FileServed(d) /\ NoVerdict => FileServed(d)'
  <2> SUFFICES ASSUME FileServed(d), NoVerdict PROVE FileServed(d)'
    OBVIOUS
  <2>1. chunks'[d] = chunks[d]
    BY <1>3 DEF NoVerdict
  <2>2. status'[d] = "indexed" => status[d] = "indexed"
    BY <1>4
  <2>3. \A i \in JobsOf(d)' : JobServes(i, d)'
    BY <1>5, <1>6, <2>1 DEF FileServed, JobServes
  <2> QED
    BY <1>6, <2>1, <2>2, <2>3 DEF FileServed
<1>8. GoneClean(d) => GoneClean(d)'
  <2>1. chunks[d] = {} => chunks'[d] = {}
    BY <1>3
  <2> QED
    BY <1>2, <1>4, <1>5, <2>1 DEF GoneClean
<1> QED
  BY <1>7, <1>8

\* What a step keeps of the job record besides what StepEffect says.
LEMMA StepKeepsVersion ==
  ASSUME TypeOK, NEW j \in Jobs, NEW pc, Step(j, pc)
  PROVE  job'[j].pc = pc /\ job'[j].ver = job[j].ver
BY JobTyped DEF Step, Job, TypeOK

\* A pipeline step as its own document sees it, in a service without dedup: the
\* version it parsed is the stored file until it is indexed.
LEMMA OwnStepServes ==
  ASSUME TypeOK, Shape, NEW j \in Jobs, JobStep(j), NEW d \in DocIds, d = job[j].id,
         ~DedupOn, job[j].pc \notin VerdictPC, HasRow(d), status[d] # "indexed", JobServes(j, d)
  PROVE  /\ status'[d] = "indexed" => chunks'[d] = {s3'[SourceOf[d]]}
         /\ job'[j].pc = "free" \/ JobServes(j, d)'
<1> USE DEF At, Doc
<1>0. TypeOK /\ Shape /\ JobMoves(j)
  BY PipelineMoves
<1>1. HasRow(d) /\ status[d] # "indexed" /\ job[j].pc \notin VerdictPC
  OBVIOUS
<1>3. JobServes(j, d)
  OBVIOUS
<1>n. UNCHANGED status => status'[d] # "indexed"
  BY <1>1
<1>u. \A st \in {"running", "deleting", "failed", "deleted", "none", "outdated", "indexed"} :
        UpdateStatus(d, st) => status'[d] = st
  <2>1. {"running", "deleting", "failed", "deleted", "none", "outdated", "indexed"} \subseteq Status
    BY DEF Status, RowStatus, StableStatus, ActiveStatus
  <2> QED
    BY <1>0, <1>1, <2>1, UpdateTyped DEF HasRow
<1>e. End(j) => job'[j].pc = "free"
  BY <1>0, EndEffect
<1>k. \A pc : Step(j, pc) => job'[j].pc = pc /\ job'[j].ver = job[j].ver
  BY <1>0, StepKeepsVersion
<1>4. CASE IngestLoad(j) \/ IngestBegin(j) \/ Embed(j)
  BY <1>3, <1>4, <1>n, <1>u, <1>e, <1>k DEF IngestLoad, IngestBegin, Embed, JobServes, ReadPC
<1>5. CASE Parse(j)
  <2>1. CASE Step(j, "fail")
    BY <1>5, <1>n, <1>k, <2>1 DEF Parse, JobServes, ReadPC
  <2>2. CASE job' = [job EXCEPT ![j].pc = "dedup", ![j].ver = s3[SourceOf[Doc(j)]]]
    <3>1. job'[j].pc = "dedup" /\ job'[j].ver = s3[SourceOf[d]]
      BY <1>0, <2>2, JobTyped DEF Job, TypeOK
    <3> QED
      BY <1>5, <1>n, <3>1 DEF Parse, JobServes, ReadPC
  <2> QED
    BY <1>5, <2>1, <2>2 DEF Parse
<1>6. CASE Detect(j)
  BY <1>3, <1>6, <1>n, <1>k DEF Detect, JobServes, ReadPC
<1>7. ~(Identical(j) \/ Resolve(j) \/ MoveChunks(j) \/ PurgeOther(j) \/ RetireOther(j))
  BY <1>1 DEF Identical, Resolve, MoveChunks, PurgeOther, RetireOther, VerdictPC, DupPC
<1>8. CASE Clear(j)
  <2>1. s3' = s3 /\ status' = status
    BY <1>8 DEF Clear
  <2>2. CASE Step(j, "fail")
    BY <1>n, <1>k, <2>1, <2>2 DEF JobServes, ReadPC
  <2>3. CASE chunks' = [chunks EXCEPT ![Doc(j)] = {}] /\ Step(j, "insert")
    <3>1. chunks'[d] = {} /\ job[j].ver = s3[SourceOf[d]]
      BY <1>0, <1>3, <1>8, <2>3 DEF Clear, JobServes, ReadPC, TypeOK
    <3> QED
      BY <1>n, <1>k, <2>1, <2>3, <3>1 DEF JobServes, ReadPC
  <2> QED
    BY <1>8, <2>2, <2>3 DEF Clear
<1>9. CASE Insert(j)
  <2>1. s3' = s3 /\ status' = status
    BY <1>9 DEF Insert
  <2>2. CASE Step(j, "fail")
    BY <1>n, <1>k, <2>1, <2>2 DEF JobServes, ReadPC
  <2>3. CASE chunks' = [chunks EXCEPT ![Doc(j)] = @ \cup {job[j].ver}] /\ Step(j, "index")
    <3>1. chunks'[d] = {s3[SourceOf[d]]} /\ job[j].ver = s3[SourceOf[d]]
      BY <1>0, <1>3, <1>9, <2>3 DEF Insert, JobServes, ReadPC, TypeOK
    <3> QED
      BY <1>n, <1>k, <2>1, <2>3, <3>1 DEF JobServes, ReadPC
  <2> QED
    BY <1>9, <2>2, <2>3 DEF Insert
<1>10. CASE SetIndexed(j)
  <2>1. job[j].pc = "index"
    BY <1>1, <1>10 DEF SetIndexed, VerdictPC
  <2> QED
    BY <1>3, <1>10, <1>e, <2>1 DEF SetIndexed, JobServes
<1>11. CASE Fail(j) \/ SetDeleting(j) \/ DeleteChunks(j) \/ DeleteFile(j)
  <2>1. status'[d] # "indexed"
    BY <1>11, <1>n, <1>u DEF Fail, SetDeleting, DeleteChunks, DeleteFile
  <2>2. \E pc \in {"failed", "purge", "row", "file", "fail"} : Step(j, pc)
    BY <1>11 DEF Fail, SetDeleting, DeleteChunks, DeleteFile
  <2>3. job'[j].pc \in {"failed", "purge", "row", "file", "fail"}
    BY <1>k, <2>2
  <2> QED
    BY <2>1, <2>3 DEF JobServes, ReadPC
<1>12. CASE SetFailed(j) \/ DeleteRow(j)
  <2>1. status'[d] # "indexed" /\ End(j)
    BY <1>12, <1>u DEF SetFailed, DeleteRow
  <2> QED
    BY <1>e, <2>1
<1>13. CASE DeleteLoad(j)
  <2>1. status'[d] # "indexed"
    BY <1>13, <1>n DEF DeleteLoad
  <2>2. job'[j].pc \in {"free", "mark"}
    BY <1>0, <1>13, <1>e, JobTyped DEF DeleteLoad, Job, TypeOK
  <2> QED
    BY <2>1, <2>2 DEF JobServes, ReadPC
<1> QED
  BY <1>4, <1>5, <1>6, <1>7, <1>8, <1>9, <1>10, <1>11, <1>12, <1>13
  DEF JobStep, IngestStep, DeleteStep

\* So the file is served by a pipeline that owns the document.
LEMMA OwnFileServed ==
  ASSUME AskedInv, NEW j \in Jobs, JobStep(j), NEW d \in DocIds, d = job[j].id, ~Overridden(d)',
         ~DedupOn, NoVerdict, FileServed(d)
  PROVE  FileServed(d)'
<1>0. TypeOK /\ Shape /\ JobMoves(j) /\ ~Overridden(d) /\ Owned(d)
  BY PipelineMoves DEF AskedInv, OwnershipInv, JobMoves, Overridden
<1>1. /\ j \in JobsOf(d) /\ JobsOf(d) = {j} /\ status[d] = JobStatus(j) /\ job[j].pc \notin VerdictPC
      /\ status[d] \in {"pending", "running", "deleting"}
  BY <1>0, WorkedOnIsBusy DEF JobMoves, JobsOf, JobStatus, NoVerdict
<1>2. JobsOf(d)' \subseteq {j} /\ (job'[j].pc = "free" => JobsOf(d)' = {})
  BY <1>0, <1>1 DEF JobMoves, JobsOf
<1>3. /\ status'[d] = "indexed" => chunks'[d] = {s3'[SourceOf[d]]}
      /\ job'[j].pc = "free" \/ JobServes(j, d)'
  BY <1>0, <1>1, OwnStepServes DEF FileServed, HasRow
<1> QED
  BY <1>2, <1>3 DEF FileServed

\* The same where Qdrant answers: a failed or deleted document was purged.
LEMMA OwnGoneClean ==
  ASSUME AskedInv, NEW j \in Jobs, JobStep(j), NEW d \in DocIds, d = job[j].id, ~Overridden(d)',
         ~QdrantFails, GoneClean(d)
  PROVE  GoneClean(d)'
<1> USE DEF At, Doc
<1>0. TypeOK /\ Shape /\ JobMoves(j) /\ ~Overridden(d) /\ Owned(d)
  BY PipelineMoves DEF AskedInv, OwnershipInv, JobMoves, Overridden
<1>1. /\ j \in JobsOf(d) /\ JobsOf(d) = {j} /\ status[d] = JobStatus(j) /\ ~BeingFailed(d)
      /\ status[d] \in {"pending", "running", "deleting"}
  BY <1>0, WorkedOnIsBusy DEF JobMoves, JobsOf, JobStatus
<1>2. JobsOf(d)' \subseteq {j} /\ loop' = loop
  BY <1>0, <1>1 DEF JobMoves, JobsOf
<1> SUFFICES /\ status'[d] \in {"none", "deleted", "failed"} => chunks'[d] = {}
             /\ job'[j].pc \in PurgedPC => chunks'[d] = {}
  BY <1>1, <1>2 DEF GoneClean, BeingFailed, FailOp
<1>3. job[j].pc \in PurgedPC => chunks[d] = {}
  BY <1>1 DEF GoneClean
<1>u. \A st \in {"running", "deleting", "failed", "deleted", "none", "outdated", "indexed"} :
        UpdateStatus(d, st) => status'[d] = st
  <2>1. {"running", "deleting", "failed", "deleted", "none", "outdated", "indexed"} \subseteq Status
    BY DEF Status, RowStatus, StableStatus, ActiveStatus
  <2> QED
    BY <1>0, <1>1, <2>1, UpdateTyped DEF HasRow
<1>e. End(j) => job'[j].pc = "free"
  BY <1>0, EndEffect
<1>k. \A pc : Step(j, pc) => job'[j].pc = pc
  BY <1>0, StepKeepsVersion
<1>4. ASSUME NEW pc, Step(j, pc) \/ End(j), pc \notin PurgedPC,
             status'[d] \in {status[d], "running", "deleting", "outdated", "indexed"}
      PROVE  /\ status'[d] \notin {"none", "deleted", "failed"}
             /\ job'[j].pc \notin PurgedPC
  BY <1>1, <1>4, <1>e, <1>k DEF PurgedPC
<1>5. CASE IngestLoad(j) \/ IngestBegin(j) \/ Identical(j) \/ Resolve(j) \/ MoveChunks(j)
             \/ PurgeOther(j) \/ Embed(j) \/ Clear(j) \/ Insert(j) \/ SetIndexed(j) \/ SetDeleting(j)
  <2>1. status'[d] \in {status[d], "running", "deleting", "outdated", "indexed"}
    BY <1>5, <1>u DEF IngestLoad, IngestBegin, Identical, Resolve, MoveChunks, PurgeOther, Embed,
                      Clear, Insert, SetIndexed, SetDeleting, MarkOutdated
  <2>2. End(j) \/ \E pc \in {"begin", "fail", "parse", "moveChunks", "purgeOther", "retireMoved",
                             "retireOther", "clear", "insert", "index", "purge"} : Step(j, pc)
    BY <1>5 DEF IngestLoad, IngestBegin, Identical, Resolve, MoveChunks, PurgeOther, Embed,
                      Clear, Insert, SetIndexed, SetDeleting, MarkOutdated
  <2>3. \A pc \in {"begin", "fail", "parse", "moveChunks", "purgeOther", "retireMoved",
                   "retireOther", "clear", "insert", "index", "purge"} : pc \notin PurgedPC
    BY DEF PurgedPC
  <2> QED
    BY <1>4, <2>1, <2>2, <2>3
<1>6. CASE RetireOther(j)
  <2>1. status'[d] \in {status[d], "outdated"}
    BY <1>0, <1>6 DEF RetireOther, UpdateStatus, TypeOK
  <2>2. Step(j, "indexMoved") \/ Step(j, "embed")
    BY <1>6 DEF RetireOther
  <2> QED
    BY <1>4, <2>1, <2>2 DEF PurgedPC
<1>7. CASE Parse(j) \/ Detect(j) \/ DeleteLoad(j)
  <2>1. status' = status
    BY <1>7 DEF Parse, Detect, DeleteLoad
  <2>2. job'[j].pc \in {"free", "fail", "embed", "dedup", "identical", "resolveMoved",
                        "resolveSimilar", "mark"}
    <3>1. CASE Parse(j)
      BY <1>0, <1>k, <3>1, JobTyped DEF Parse, Job, TypeOK
    <3>2. CASE Detect(j)
      BY <1>0, <1>k, <3>2, JobTyped DEF Detect, Job, TypeOK
    <3>3. CASE DeleteLoad(j)
      BY <1>0, <1>e, <3>3, JobTyped DEF DeleteLoad, Job, TypeOK
    <3> QED
      BY <1>7, <3>1, <3>2, <3>3
  <2> QED
    BY <1>1, <2>1, <2>2 DEF PurgedPC
<1>8. CASE Fail(j) \/ DeleteChunks(j)
  <2>1. chunks'[d] = {}
    BY <1>0, <1>1, <1>8 DEF Fail, DeleteChunks, HasRow, TypeOK
  <2> QED
    BY <2>1
<1>9. CASE DeleteFile(j) \/ DeleteRow(j) \/ SetFailed(j)
  BY <1>3, <1>9 DEF DeleteFile, DeleteRow, SetFailed, PurgedPC
<1> QED
  BY <1>5, <1>6, <1>7, <1>8, <1>9 DEF JobStep, IngestStep, DeleteStep

\* Without dedup no thread ever acts on a verdict.
LEMMA NoVerdictKept ==
  ASSUME ~DedupOn, TypeOK, Shape, NoVerdict, [Next]_vars
  PROVE  NoVerdict'
<1> SUFFICES ASSUME NEW i \in Jobs PROVE job'[i].pc \notin VerdictPC
  BY DEF NoVerdict
<1>0. job[i].pc \notin VerdictPC
  BY DEF NoVerdict
<1>1. CASE UNCHANGED vars
  BY <1>0, <1>1 DEF vars
<1>2. CASE Request \/ Handle \/ Poll \/ Crash \/ \E j \in Jobs : StartTask(j)
  <2>1. job'[i] = job[i] \/ job'[i].pc \in {"free", "wait", "load"}
    BY <1>2, LoopTouches
  <2> QED
    BY <1>0, <2>1 DEF VerdictPC, DupPC
<1>3. ASSUME NEW j \in Jobs, JobStep(j) PROVE job'[i].pc \notin VerdictPC
  <2>1. CASE i # j
    BY <1>0, <1>3, <2>1, PipelineMoves DEF JobMoves
  <2>2. CASE i = j
    <3>e. End(j) => job'[j].pc = "free"
      BY EndEffect
    <3>k. \A pc : Step(j, pc) => job'[j].pc = pc
      BY StepKeepsVersion
    <3>1. job[j].pc \notin VerdictPC
      BY <1>0, <2>2
    <3>2. CASE Parse(j)
      BY <2>2, <3>2, <3>k, JobTyped DEF Parse, Job, TypeOK, VerdictPC, DupPC
    <3>3. CASE DeleteLoad(j)
      BY <2>2, <3>3, <3>e, JobTyped, SMTT(60) DEF DeleteLoad, Job, TypeOK, VerdictPC, DupPC
    <3>4. CASE Identical(j) \/ Resolve(j) \/ MoveChunks(j) \/ PurgeOther(j) \/ RetireOther(j)
      BY <3>1, <3>4 DEF Identical, Resolve, MoveChunks, PurgeOther, RetireOther, At, VerdictPC, DupPC
    <3>5. CASE IngestLoad(j) \/ IngestBegin(j) \/ Detect(j) \/ Embed(j) \/ Clear(j) \/ Insert(j)
                 \/ SetIndexed(j) \/ SetDeleting(j) \/ DeleteChunks(j) \/ DeleteFile(j)
                 \/ DeleteRow(j) \/ Fail(j) \/ SetFailed(j)
      <4>1. End(j) \/ \E pc \in {"begin", "fail", "parse", "embed", "clear", "insert", "index",
                                 "purge", "row", "file", "failed"} : Step(j, pc)
        BY <3>5 DEF IngestLoad, IngestBegin, Detect, Embed, Clear, Insert, SetIndexed, SetDeleting,
                    DeleteChunks, DeleteFile, DeleteRow, Fail, SetFailed
      <4> QED
        BY <2>2, <3>e, <3>k, <4>1 DEF VerdictPC, DupPC
    <3> QED
      BY <1>3, <3>2, <3>3, <3>4, <3>5 DEF JobStep, IngestStep, DeleteStep
  <2> QED
    BY <2>1, <2>2
<1> QED
  BY <1>1, <1>2, <1>3 DEF Next

ServesInv ==
  /\ AskedInv
  /\ OneRow
  /\ DedupOn \/ FilesServed
  /\ QdrantFails \/ GonesClean

\* The two parts are inductive.
LEMMA FilesServedKept ==
  ASSUME AskedInv, OneRow, ~DedupOn, FilesServed, [Next]_vars
  PROVE  FilesServed'
<1>0. TypeOK /\ Shape /\ NoVerdict /\ NoVerdict'
  BY NoVerdictKept DEF AskedInv, OwnershipInv, FilesServed
<1> SUFFICES ASSUME NEW d \in DocIds, ~Overridden(d)' PROVE FileServed(d)'
  BY <1>0 DEF FilesServed
<1>1. CASE UNCHANGED vars
  <2>1. FileServed(d)
    BY <1>1 DEF FilesServed, Overridden, vars, history
  <2> QED
    BY <1>1, <2>1 DEF FileServed, JobServes, JobsOf, vars, rows
<1>2. CASE Request \/ Handle \/ Poll \/ Crash \/ \E j \in Jobs : StartTask(j)
  <2>1. FileServed(d)
    BY <1>0, <1>2, LoopTouches DEF FilesServed, Overridden
  <2> QED
    BY <1>2, <2>1, LoopServes
<1>3. ASSUME NEW j \in Jobs, JobStep(j) PROVE FileServed(d)'
  <2>1. FileServed(d)
    BY <1>0, <1>3, PipelineMoves DEF FilesServed, Overridden, JobMoves
  <2> QED
    BY <1>0, <1>3, <2>1, OtherServes, OwnFileServed
<1> QED
  BY <1>1, <1>2, <1>3 DEF Next

\* So is what is said of documents that are gone.
LEMMA GonesCleanKept ==
  ASSUME AskedInv, OneRow, ~QdrantFails, GonesClean, [Next]_vars
  PROVE  GonesClean'
<1>0. TypeOK /\ Shape
  BY DEF AskedInv, OwnershipInv
<1> SUFFICES ASSUME NEW d \in DocIds, ~Overridden(d)' PROVE GoneClean(d)'
  BY DEF GonesClean
<1>1. CASE UNCHANGED vars
  <2>1. GoneClean(d)
    BY <1>1 DEF GonesClean, Overridden, vars, history
  <2> QED
    BY <1>1, <2>1 DEF GoneClean, JobsOf, vars, rows
<1>2. CASE Request \/ Handle \/ Poll \/ Crash \/ \E j \in Jobs : StartTask(j)
  <2>1. GoneClean(d)
    BY <1>0, <1>2, LoopTouches DEF GonesClean, Overridden
  <2> QED
    BY <1>2, <2>1, LoopServes
<1>3. ASSUME NEW j \in Jobs, JobStep(j) PROVE GoneClean(d)'
  <2>1. GoneClean(d)
    BY <1>0, <1>3, PipelineMoves DEF GonesClean, Overridden, JobMoves
  <2> QED
    BY <1>3, <2>1, OtherServes, OwnGoneClean
<1> QED
  BY <1>1, <1>2, <1>3 DEF Next

\* ServesInv is an invariant of the service.
LEMMA ServesInvHolds == Spec => []ServesInv
<1>1. Init => OneRow /\ FilesServed /\ GonesClean
  BY DEF Init, OneRow, HasRow, FilesServed, GonesClean, NoVerdict, VerdictPC, DupPC, FileServed,
         GoneClean, JobsOf, FreeJob, IdleLoop
<1>2. Init /\ AskedInv => ServesInv
  BY <1>1 DEF ServesInv
<1>3. ServesInv /\ [Next]_vars /\ AskedInv' => ServesInv'
  <2> SUFFICES ASSUME ServesInv, [Next]_vars, AskedInv' PROVE ServesInv'
    OBVIOUS
  <2>1. OneRow'
    BY OneRowKept DEF ServesInv, AskedInv, OwnershipInv
  <2>2. (DedupOn \/ FilesServed) => (DedupOn \/ FilesServed)'
    BY FilesServedKept DEF ServesInv
  <2>3. (QdrantFails \/ GonesClean) => (QdrantFails \/ GonesClean)'
    BY GonesCleanKept DEF ServesInv
  <2> QED
    BY <2>1, <2>2, <2>3 DEF ServesInv
<1> QED
  BY AskedInvHolds, <1>2, <1>3, PTL DEF Spec

\* In a service without dedup, search serves of an indexed document exactly what
\* its stored file holds: a re-upload, a failed Qdrant call, a crash between any
\* two steps, or another doc_id of the source never leaves it older chunks.
THEOREM IndexedServesFileHolds == ASSUME ~DedupOn PROVE Spec => []IndexedServesFile
<1>1. ServesInv => IndexedServesFile
  BY DEF ServesInv, FilesServed, FileServed, IndexedServesFile
<1> QED
  BY ServesInvHolds, <1>1, PTL

\* While Qdrant answers, a document that is gone, deleted or failed is served by
\* nobody, with dedup handing its chunks around or without.
THEOREM GoneServesNothingHolds == ASSUME ~QdrantFails PROVE Spec => []GoneServesNothing
<1>1. ServesInv => GoneServesNothing
  BY DEF ServesInv, GonesClean, GoneClean, GoneServesNothing
<1> QED
  BY ServesInvHolds, <1>1, PTL

-----------------------------------------------------------------------------
(* An active document has an owner: the invariant looks at what holds its     *)
(* work besides the event loop's hand, so that the hand may open.             *)

Kept(d)      == Queued(d) \/ Delayed(d) \/ HasJob(d)
Unsettled(d) == status[d] \in {"pending", "running", "deleting"}

\* Somebody moves an unsettled document on; for one that is being uploaded
\* anew while work that an override left behind still runs, that is the work
\* and not the upload, which may fail and let it go.
Attended(d) ==
  /\ Unsettled(d) => HasWork(d) \/ BeingFailed(d)
  /\ loop.op = "put" /\ loop.id = d /\ Unsettled(d) => Kept(d)

ActiveInv == crashes = 0 => \A d \in DocIds : Attended(d)

\* LREM of one document's events leaves another's in the list.
LEMMA WithoutKeeps ==
  ASSUME NEW q \in Seq(Item), NEW e, NEW d, d # e, Positions(q, d) # {}
  PROVE  Positions(Without(q, e), d) # {}
<1>1. PICK i \in 1 .. Len(q) : q[i].id = d
  BY DEF Positions
<1> DEFINE R == Rank(q, e, Len(q))
           n == Rank(q, e, i)
           Pick(m) == CHOOSE k \in DOMAIN q : q[k].id # e /\ Rank(q, e, k) = m
<1>2. n \in Nat /\ R \in Nat /\ Rank(q, e, 0) \in Nat
  BY OthersFinite
<1>3. n \in 1 .. R
  <2>1. Rank(q, e, 0) < n
    BY <1>1, RankGrows
  <2>2. Others(q, e, i) \in SUBSET Others(q, e, Len(q))
    BY DEF Others
  <2>3. IsFiniteSet(Others(q, e, Len(q)))
    <3>1. Len(q) \in Nat
      OBVIOUS
    <3> QED
      BY <3>1, OthersFinite
  <2>4. n <= R
    BY <2>2, <2>3, FS_Subset DEF Rank
  <2> QED
    BY <1>2, <2>1, <2>4
<1>4. Pick(n) \in 1 .. Len(q) /\ q[Pick(n)].id # e /\ Rank(q, e, Pick(n)) = n
  <2>1. \E k \in DOMAIN q : q[k].id # e /\ Rank(q, e, k) = n
    BY <1>1
  <2> HIDE DEF n
  <2>2. Pick(n) \in DOMAIN q /\ q[Pick(n)].id # e /\ Rank(q, e, Pick(n)) = n
    BY <2>1, Zenon
  <2> QED
    BY <2>2
<1>5. Without(q, e) = [m \in 1 .. R |-> q[Pick(m)]]
  BY DEF Without
<1> HIDE DEF Pick, n, R
<1>6. Pick(n) = i
  <2>1. n = Rank(q, e, i)
    BY DEF n
  <2>2. Pick(n) < i => FALSE
    BY <1>1, <1>2, <1>4, <2>1, RankGrows
  <2>3. i < Pick(n) => FALSE
    BY <1>1, <1>2, <1>4, <2>1, RankGrows
  <2> QED
    BY <1>4, <2>2, <2>3
<1> QED
  BY <1>1, <1>3, <1>5, <1>6 DEF Positions

\* An entry other than the head stays in the list when the head is popped.
LEMMA TailKeeps ==
  ASSUME NEW q \in Seq(Item), q # <<>>, NEW d, Head(q).id # d, Positions(q, d) # {}
  PROVE  Positions(Tail(q), d) # {}
<1>1. PICK i \in 1 .. Len(q) : q[i].id = d
  BY DEF Positions
<1>2. i # 1
  BY <1>1
<1>3. i - 1 \in DOMAIN Tail(q) /\ Tail(q)[i - 1] = q[i]
  BY <1>1, <1>2
<1> QED
  BY <1>1, <1>3 DEF Positions

\* Putting an entry at the end of a list takes none away.
LEMMA AppendKeeps ==
  ASSUME NEW q \in Seq(Item), NEW e \in Item, NEW d
  PROVE  /\ Positions(q, d) # {} => Positions(Append(q, e), d) # {}
         /\ Positions(Append(q, e), e.id) # {}
<1>1. /\ DOMAIN Append(q, e) = 1 .. Len(q) + 1 /\ Append(q, e)[Len(q) + 1] = e
      /\ \A i \in 1 .. Len(q) : Append(q, e)[i] = q[i]
  OBVIOUS
<1> QED
  BY <1>1 DEF Positions

\* With the lists, the delay sets and the jobs unchanged nothing is dropped.
LEMMA KeptSame ==
  ASSUME NEW d, UNCHANGED <<queue, delayed, job>>
  PROVE  Kept(d)' <=> Kept(d)
BY DEF Kept, Queued, Delayed, HasJob, JobsOf, Positions

\* Outside the drain, what is in neither the loop's hand nor being failed is
\* kept elsewhere.
LEMMA KeptOrHeld ==
  ASSUME TypeOK, Shape, NEW d \in DocIds, Attended(d), Unsettled(d), loop.back # "drain",
         loop.id = d => loop.op \notin InHandOp \cup FailOp
  PROVE  Kept(d)
BY DEF Attended, Kept, HasWork, Draining, InHand, BeingFailed

\* Clients' requests.
LEMMA RequestOwner ==
  ASSUME TypeOK, Shape, Request, NEW d \in DocIds, Attended(d)
  PROVE  Attended(d)'
<1>0. loop.op = "idle"
  BY DEF Request, UploadBegin, ForceFailBegin, RecoverBegin, DeleteBegin, ReindexBegin,
         ReindexKbBegin, Idle
<1>1. Unsettled(d) => Kept(d)
  BY <1>0, KeptOrHeld DEF Shape, LoopShape, InHandOp, FailOp
<1>2. ASSUME NEW e \in DocIds, UploadBegin(e) PROVE Attended(d)'
  <2>1. UNCHANGED <<queue, delayed, job>> /\ status' = [status EXCEPT ![e] = "uploading"]
        /\ loop'.id = e
    BY <1>2 DEF UploadBegin, redis, Begin, IdleLoop
  <2>2. Kept(d)' <=> Kept(d)
    BY <2>1, KeptSame
  <2>3. Unsettled(d)' => Unsettled(d) /\ d # e
    BY <2>1 DEF Unsettled, TypeOK
  <2> QED
    BY <1>1, <2>1, <2>2, <2>3 DEF Attended, HasWork, Kept
<1>3. ASSUME NEW e \in DocIds, ForceFailBegin(e) PROVE Attended(d)'
  <2>1. UNCHANGED <<status, job>> /\ loop'.op = "failPurge" /\ loop'.id = e
    BY <1>3 DEF ForceFailBegin, Begin, IdleLoop, rows
  <2>2. CASE d = e
    BY <2>1, <2>2 DEF Attended, BeingFailed, FailOp
  <2>3. CASE d # e
    <3>1. /\ queue["upload"] \in Seq(Item)
          /\ queue'["upload"] = Without(queue["upload"], e)
          /\ queue'["delete"] = queue["delete"]
          /\ delayed'["upload"] = {it \in delayed["upload"] : it.id # e}
          /\ delayed'["delete"] = delayed["delete"]
      BY <1>3 DEF ForceFailBegin, DequeueUploads, TypeOK, Kind
    <3>2. Positions(queue["upload"], d) # {} => Positions(queue'["upload"], d) # {}
      BY <2>3, <3>1, WithoutKeeps
    <3>3. Queued(d) => Queued(d)'
      <4>1. Positions(queue["delete"], d) = Positions(queue'["delete"], d)
        BY <3>1
      <4>2. \A k \in Kind : Positions(queue[k], d)' = Positions(queue'[k], d)
        BY DEF Positions
      <4> QED
        BY <3>2, <4>1, <4>2 DEF Queued, Kind
    <3>4. Delayed(d) => Delayed(d)'
      BY <2>3, <3>1 DEF Delayed, Kind
    <3>5. HasJob(d) => HasJob(d)'
      BY <2>1 DEF HasJob, JobsOf
    <3> QED
      BY <1>1, <2>1, <3>3, <3>4, <3>5 DEF Attended, HasWork, Kept, Unsettled
  <2> QED
    BY <2>2, <2>3
<1>4. ASSUME UNCHANGED <<status, queue, delayed, job>> PROVE Attended(d)'
  BY <1>1, <1>4, KeptSame DEF Attended, HasWork, Kept, Unsettled
<1>5. ASSUME NEW e \in DocIds, RecoverBegin(e) PROVE Attended(d)'
  BY <1>4, <1>5 DEF RecoverBegin, rows, redis
<1>6. ASSUME NEW e \in DocIds, NEW force \in BOOLEAN, DeleteBegin(e, force) \/ ReindexBegin(e, force)
      PROVE  Attended(d)'
  BY <1>4, <1>6 DEF DeleteBegin, ReindexBegin, rows, redis
<1>7. ASSUME NEW force \in BOOLEAN, ReindexKbBegin(force) PROVE Attended(d)'
  BY <1>4, <1>7 DEF ReindexKbBegin, rows, redis
<1> QED
  BY <1>2, <1>3, <1>5, <1>6, <1>7 DEF Request

\* The other steps of a handler.
LEMMA HandleOwner ==
  ASSUME TypeOK, Shape, Handle, NEW d \in DocIds, Attended(d)
  PROVE  Attended(d)'
<1> USE DEF InHandOp, FailOp
<1>0. loop.back \in {"idle", "reindex", "drain"}
  BY DEF Shape, LoopShape
<1>g. ASSUME NEW op \in {"stage", "enqueue", "push", "setPending", "failMark"}, Goto(op)
      PROVE  loop'.op = op /\ loop'.id = loop.id /\ loop'.back = loop.back /\ loop'.todo = loop.todo
  BY <1>g, LoopTyped DEF Goto
<1>r. ASSUME Return
      PROVE  /\ Draining(d) => Draining(d)'
             /\ loop'.op # "put"
  BY <1>r, <1>0, LoopTyped DEF Return, IdleLoop, Draining
<1>k. UNCHANGED <<queue, delayed, job>> => (Kept(d)' <=> Kept(d))
  BY KeptSame
<1>1. CASE UploadPut
  <2>1. UNCHANGED <<status, queue, delayed, job>> /\ loop.op = "put" /\ loop.back = "idle"
    BY <1>1 DEF UploadPut, rows, redis, Shape, LoopShape
  <2>2. Unsettled(d) => Kept(d)
    BY <2>1, KeptOrHeld DEF Attended
  <2> QED
    BY <1>k, <2>1, <2>2 DEF Attended, HasWork, Kept, Unsettled
<1>2. CASE UploadStage
  <2>1. /\ UNCHANGED <<queue, delayed, job>> /\ loop.op = "stage" /\ loop.back = "idle"
        /\ UpdateStatus(loop.id, "pending") /\ Goto("enqueue")
    BY <1>2 DEF UploadStage, redis, Shape, LoopShape
  <2>2. CASE d = loop.id
    BY <1>g, <2>1, <2>2 DEF Attended, HasWork, InHand
  <2>3. CASE d # loop.id
    <3>1. status'[d] = status[d]
      BY <2>1, <2>3 DEF UpdateStatus, TypeOK
    <3>2. Unsettled(d) => Kept(d)
      BY <2>1, <2>3, KeptOrHeld
    <3> QED
      BY <1>k, <2>1, <3>1, <3>2 DEF Attended, HasWork, Kept, Unsettled
  <2> QED
    BY <2>2, <2>3
<1>3. CASE ReindexKbNext
  <2>1. UNCHANGED <<status, queue, delayed, job>> /\ loop.op = "reindex" /\ loop.back = "reindex"
    BY <1>3 DEF ReindexKbNext, rows, redis, Shape, LoopShape
  <2>2. Unsettled(d) => Kept(d)
    BY <2>1, KeptOrHeld
  <2> QED
    BY <1>k, <2>1, <2>2 DEF Attended, HasWork, Kept, Unsettled
<1>4. CASE Enqueue
  <2>1. UNCHANGED <<status, queue, delayed, job>> /\ loop.op = "enqueue"
    BY <1>4 DEF Enqueue, rows, redis
  <2>2. Unsettled(d) => Kept(d) \/ Draining(d) \/ d = loop.id
    BY <2>1 DEF Attended, HasWork, Kept, InHand, BeingFailed
  <2>3. CASE status[loop.id] \in {"none", "deleted"} /\ Return
    <3>1. Unsettled(d) => d # loop.id
      BY <2>3 DEF Unsettled
    <3> QED
      BY <1>k, <1>r, <2>1, <2>2, <2>3, <3>1 DEF Attended, HasWork, Kept, Unsettled
  <2>4. ASSUME NEW op \in {"push", "setPending"}, Goto(op) PROVE Attended(d)'
    <3>1. InHand(d)' \/ d # loop.id
      BY <1>g, <2>4 DEF InHand
    <3>2. Draining(d)' <=> Draining(d)
      BY <1>g, <2>4 DEF Draining
    <3> QED
      BY <1>g, <1>k, <2>1, <2>2, <2>4, <3>1, <3>2 DEF Attended, HasWork, Kept, Unsettled
  <2> QED
    BY <1>4, <2>3, <2>4 DEF Enqueue
<1>5. CASE SetPending
  <2>1. /\ UNCHANGED <<queue, delayed, job>> /\ loop.op = "setPending"
        /\ UpdateStatus(loop.id, "pending") /\ Goto("push")
    BY <1>5 DEF SetPending, redis
  <2>2. d # loop.id => status'[d] = status[d]
    BY <2>1 DEF UpdateStatus, TypeOK
  <2>3. Unsettled(d) => Kept(d) \/ Draining(d) \/ d = loop.id
    BY <2>1 DEF Attended, HasWork, Kept, InHand, BeingFailed
  <2>4. Draining(d)' <=> Draining(d)
    BY <1>g, <2>1 DEF Draining
  <2> QED
    BY <1>g, <1>k, <2>1, <2>2, <2>3, <2>4 DEF Attended, HasWork, Kept, Unsettled, InHand
<1>6. CASE Push
  <2> DEFINE e == [id |-> loop.id, force |-> loop.force]
  <2>1. /\ UNCHANGED <<status, delayed, job>> /\ loop.op = "push" /\ Return
        /\ queue' = [queue EXCEPT ![loop.kind] = Append(@, e)]
    BY <1>6 DEF Push, rows
  <2>2. loop.id \in DocIds /\ e \in Item /\ e.id = loop.id
    BY <2>1, LoopTyped DEF Shape, LoopShape, Item
  <2> HIDE DEF e
  <2>3. \A k \in Kind : /\ Positions(queue[k], d) # {} => Positions(queue'[k], d) # {}
                        /\ k = loop.kind /\ d = loop.id => Positions(queue'[k], d) # {}
    BY <2>1, <2>2, AppendKeeps DEF TypeOK
  <2>4. \A k \in Kind : Positions(queue[k], d)' = Positions(queue'[k], d)
    BY DEF Positions
  <2>5. (Queued(d) => Queued(d)') /\ (d = loop.id => Queued(d)')
    BY <2>3, <2>4, LoopTyped DEF Queued
  <2>6. (Delayed(d)' <=> Delayed(d)) /\ (HasJob(d)' <=> HasJob(d))
    BY <2>1 DEF Delayed, HasJob, JobsOf
  <2>7. Unsettled(d) => Kept(d) \/ Draining(d) \/ d = loop.id
    BY <2>1 DEF Attended, HasWork, Kept, InHand, BeingFailed
  <2> QED
    BY <1>r, <2>1, <2>5, <2>6, <2>7 DEF Attended, HasWork, Kept, Unsettled
<1>7. CASE FailPurge
  <2>1. /\ UNCHANGED <<status, queue, delayed, job>> /\ loop.op = "failPurge" /\ loop.back = "idle"
        /\ Goto("failMark")
    BY <1>7 DEF FailPurge, rows, redis, Shape, LoopShape
  <2>2. Unsettled(d) => Kept(d) \/ d = loop.id
    BY <2>1, KeptOrHeld
  <2> QED
    BY <1>g, <1>k, <2>1, <2>2 DEF Attended, HasWork, Kept, Unsettled, BeingFailed
<1>8. CASE FailMark
  <2>1. /\ UNCHANGED <<queue, delayed, job>> /\ loop.op = "failMark" /\ loop.back = "idle"
        /\ UpdateStatus(loop.id, "failed")
        /\ loop' = IF loop.force THEN [loop EXCEPT !.op = "enqueue"] ELSE IdleLoop
    BY <1>8 DEF FailMark, redis, Shape, LoopShape
  <2>2. Unsettled(d)' => Unsettled(d) /\ d # loop.id
    BY <2>1 DEF UpdateStatus, TypeOK, Unsettled, HasRow
  <2>3. loop'.op # "put"
    BY <2>1, LoopTyped DEF IdleLoop
  <2>4. Unsettled(d) => Kept(d) \/ d = loop.id
    BY <2>1, KeptOrHeld
  <2> QED
    BY <1>k, <2>1, <2>2, <2>3, <2>4 DEF Attended, HasWork, Kept
<1> QED
  BY <1>1, <1>2, <1>3, <1>4, <1>5, <1>6, <1>7, <1>8 DEF Handle

\* What becomes ready moves from the delay set to the drain.
LEMMA ReadyKept ==
  ASSUME TypeOK, NEW kind \in Kind, TakeReady(kind), UNCHANGED <<queue, job>>,
         NEW d \in DocIds, Kept(d)
  PROVE  HasWork(d)' /\ loop'.op = "drain"
<1>1. PICK ready \in SUBSET delayed[kind] :
        /\ delayed' = [delayed EXCEPT ![kind] = @ \ ready]
        /\ loop' = [IdleLoop EXCEPT !.op = "drain", !.kind = kind, !.back = "drain", !.todo = ready]
  BY DEF TakeReady
<1>2. loop'.op = "drain" /\ loop'.back = "drain" /\ loop'.todo = ready
  BY <1>1 DEF IdleLoop
<1>3. Queued(d) \/ HasJob(d) => Queued(d)' \/ HasJob(d)'
  BY DEF Queued, HasJob, JobsOf, Positions
<1>4. ASSUME NEW k \in Kind, NEW it \in delayed[k], it.id = d PROVE Delayed(d)' \/ Draining(d)'
  BY <1>1, <1>2, <1>4 DEF TypeOK, Delayed, Draining
<1> QED
  BY <1>2, <1>3, <1>4 DEF Kept, Delayed, HasWork

\* The queue worker's poll.
LEMMA PollOwner ==
  ASSUME TypeOK, Shape, Poll, NEW d \in DocIds, Attended(d)
  PROVE  Attended(d)'
<1> USE DEF InHandOp, FailOp
<1>k. UNCHANGED <<queue, delayed, job>> => (Kept(d)' <=> Kept(d))
  BY KeptSame
<1>u. UNCHANGED status => (Unsettled(d)' <=> Unsettled(d))
  BY DEF Unsettled
<1>w. ASSUME Unsettled(d)' => HasWork(d)', loop'.op # "put" PROVE Attended(d)'
  BY <1>w DEF Attended
<1>n. ASSUME NextList, loop.op = "take", UNCHANGED <<queue, job>>, Kept(d)
      PROVE  HasWork(d)'
  BY <1>n, <1>k, ReadyKept DEF NextList, Kind, Kept, HasWork
<1>p. ASSUME NextList, loop.op = "take" PROVE loop'.op # "put"
  <2>1. \A k : TakeReady(k) => loop'.op = "drain"
    BY DEF TakeReady, IdleLoop
  <2>2. IdleLoop.op # "put"
    BY DEF IdleLoop
  <2>3. loop' = [loop EXCEPT !.kind = "delete", !.n = 0, !.more = (loop.n = MaxPerPoll)]
          => loop'.op # "put"
    BY <1>p, LoopTyped
  <2> QED
    BY <1>p, <2>1, <2>2, <2>3 DEF NextList
<1>t. loop.op = "take" => loop.back = "idle" /\ (Unsettled(d) => Kept(d))
  BY KeptOrHeld DEF Shape, LoopShape
<1>1. CASE PollBegin
  <2>1. UNCHANGED <<status, queue, job>> /\ TakeReady("upload") /\ loop.op = "idle" /\ loop.back = "idle"
    BY <1>1 DEF PollBegin, rows, Shape, LoopShape
  <2>2. Unsettled(d) => Kept(d)
    BY <2>1, KeptOrHeld
  <2>3. loop'.op = "drain"
    BY <2>1 DEF TakeReady, IdleLoop
  <2> QED
    BY <1>u, <1>w, <2>1, <2>2, <2>3, ReadyKept DEF Kind
<1>2. CASE DrainNext
  <2>1. UNCHANGED <<status, queue, delayed, job>> /\ loop.op = "drain"
    BY <1>2 DEF DrainNext, rows, redis
  <2>2. PICK it \in loop.todo, op \in {"push", "setPending"} :
          loop' = [loop EXCEPT !.id = it.id, !.force = it.force, !.todo = @ \ {it}, !.op = op]
    BY <1>2 DEF DrainNext
  <2>3. /\ loop'.id = it.id /\ loop'.op = op /\ loop'.todo = loop.todo \ {it}
        /\ loop'.back = loop.back
    BY <2>2, LoopTyped
  <2>4. Unsettled(d) => Kept(d) \/ Draining(d)
    BY <2>1 DEF Attended, HasWork, Kept, InHand, BeingFailed
  <2>5. Draining(d) => Draining(d)' \/ InHand(d)'
    BY <2>3 DEF Draining, InHand
  <2> QED
    BY <1>k, <1>u, <1>w, <2>1, <2>3, <2>4, <2>5 DEF HasWork, Kept
<1>3. CASE DrainDone
  <2>1. UNCHANGED <<status, queue, job>> /\ loop.op = "drain" /\ loop.todo = {}
    BY <1>3 DEF DrainDone, rows
  <2>2. Unsettled(d) => Kept(d)
    BY <2>1 DEF Attended, HasWork, Kept, InHand, BeingFailed, Draining
  <2>3. CASE TakeReady("delete")
    BY <1>u, <1>w, <2>1, <2>2, <2>3, ReadyKept DEF Kind, TakeReady, IdleLoop
  <2>4. CASE UNCHANGED delayed /\ loop' = [IdleLoop EXCEPT !.op = "take"]
    <3>1. loop'.op = "take"
      BY <2>4 DEF IdleLoop
    <3> QED
      BY <1>k, <1>u, <1>w, <2>1, <2>2, <2>4, <3>1 DEF HasWork, Kept
  <2> QED
    BY <1>3, <2>3, <2>4 DEF DrainDone
<1>4. CASE Take
  <2> DEFINE q == queue[loop.kind]
             e == Head(q)
  <2>1. /\ UNCHANGED <<status, job>> /\ loop.op = "take" /\ q # <<>>
        /\ queue' = [queue EXCEPT ![loop.kind] = Tail(@)]
        /\ \/ /\ delayed' = [delayed EXCEPT ![loop.kind] = @ \cup {e}] /\ loop' = loop
           \/ /\ delayed' = delayed
              /\ loop' = [loop EXCEPT !.op = "claim", !.id = e.id, !.force = e.force]
    BY <1>4 DEF Take, rows
  <2>2. q \in Seq(Item) /\ loop.kind \in Kind
    BY LoopTyped DEF TypeOK
  <2> HIDE DEF e, q
  <2>3. loop'.op # "put"
    BY <2>1, LoopTyped
  <2>4. CASE d = e.id
    <3>1. CASE delayed' = [delayed EXCEPT ![loop.kind] = @ \cup {e}]
      BY <1>w, <2>2, <2>3, <2>4, <3>1 DEF TypeOK, Delayed, HasWork
    <3>2. CASE loop' = [loop EXCEPT !.op = "claim", !.id = e.id, !.force = e.force]
      BY <1>w, <2>3, <2>4, <3>2, LoopTyped DEF InHand, HasWork
    <3> QED
      BY <2>1, <3>1, <3>2
  <2>5. CASE d # e.id
    <3>1. Positions(q, d) # {} => Positions(Tail(q), d) # {}
      BY <2>1, <2>2, <2>5, TailKeeps DEF e
    <3>2. queue'[loop.kind] = Tail(q) /\ \A k \in Kind \ {loop.kind} : queue'[k] = queue[k]
      BY <2>1, <2>2 DEF TypeOK, q
    <3>3. \A k \in Kind : Positions(queue[k], d)' = Positions(queue'[k], d)
      BY DEF Positions
    <3>4. Queued(d) => Queued(d)'
      BY <2>2, <3>1, <3>2, <3>3 DEF Queued, q
    <3>5. Delayed(d) => Delayed(d)'
      BY <2>1, <2>2 DEF Delayed, TypeOK
    <3>6. HasJob(d) => HasJob(d)'
      BY <2>1 DEF HasJob, JobsOf
    <3> QED
      BY <1>t, <1>u, <1>w, <2>1, <2>3, <3>4, <3>5, <3>6 DEF Kept, HasWork
  <2> QED
    BY <2>4, <2>5
<1>5. CASE Claim
  <2>1. UNCHANGED <<queue, delayed>> /\ loop.op = "claim" /\ loop.back = "idle" /\ loop.id \in DocIds
    BY <1>5 DEF Claim, redis, Shape, LoopShape
  <2>2. loop'.op # "put"
    BY <1>5, LoopTyped DEF Claim
  <2>3. PICK j \in Jobs : job[j].pc = "free" /\ job' = [job EXCEPT ![j] = NewJob(loop.kind, loop)]
    BY <1>5 DEF Claim
  <2>4. /\ job'[j].pc # "free" /\ job'[j].id = loop.id
        /\ \A i \in Jobs \ {j} : job'[i] = job[i]
    BY <2>3 DEF NewJob, FreeJob, TypeOK
  <2>5. CASE d = loop.id
    <3>1. HasJob(d)'
      BY <2>4, <2>5 DEF HasJob, JobsOf
    <3> QED
      BY <1>w, <2>2, <3>1 DEF HasWork
  <2>6. CASE d # loop.id
    <3>1. status'[d] = status[d]
      BY <1>5, <2>6 DEF Claim, UpdateStatus, TypeOK
    <3>2. Unsettled(d) => Kept(d)
      BY <2>1, <2>6, KeptOrHeld
    <3>3. HasJob(d) => HasJob(d)'
      BY <2>3, <2>4 DEF HasJob, JobsOf
    <3>4. (Queued(d)' <=> Queued(d)) /\ (Delayed(d)' <=> Delayed(d))
      BY <2>1 DEF Queued, Delayed, Positions
    <3> QED
      BY <1>w, <2>2, <3>1, <3>2, <3>3, <3>4 DEF Kept, HasWork, Unsettled
  <2> QED
    BY <2>5, <2>6
<1>6. CASE ListDone
  BY <1>6, <1>n, <1>p, <1>t, <1>u, <1>w DEF ListDone, rows
<1>7. CASE TakeError
  <2> DEFINE q == queue[loop.kind]
  <2>1. /\ UNCHANGED <<status, job>> /\ loop.op = "take" /\ q # <<>> /\ NextList
        /\ queue' = [queue EXCEPT ![loop.kind] = Append(Tail(@), Head(@))]
    BY <1>7 DEF TakeError, rows
  <2>2. /\ q \in Seq(Item) /\ loop.kind \in Kind /\ Head(q) \in Item /\ Tail(q) \in Seq(Item)
    BY <2>1, LoopTyped, HeadTyped
  <2> HIDE DEF q
  <2>3. Positions(q, d) # {} => Positions(Append(Tail(q), Head(q)), d) # {}
    BY <2>1, <2>2, TailKeeps, AppendKeeps
  <2>4. queue'[loop.kind] = Append(Tail(q), Head(q)) /\ \A k \in Kind \ {loop.kind} : queue'[k] = queue[k]
    BY <2>1, <2>2 DEF TypeOK, q
  <2>5. \A k \in Kind : Positions(queue[k], d)' = Positions(queue'[k], d)
    BY DEF Positions
  <2>6. Queued(d) => Queued(d)'
    BY <2>2, <2>3, <2>4, <2>5 DEF Queued, q
  <2>7. HasJob(d) => HasJob(d)'
    BY <2>1 DEF HasJob, JobsOf
  <2>8. Delayed(d) => HasWork(d)'
    <3>1. CASE UNCHANGED delayed
      BY <3>1 DEF Delayed, HasWork
    <3>2. CASE TakeReady("upload")
      <4>1. PICK ready \in SUBSET delayed["upload"] :
              /\ delayed' = [delayed EXCEPT !["upload"] = @ \ ready]
              /\ loop' = [IdleLoop EXCEPT !.op = "drain", !.kind = "upload", !.back = "drain",
                                          !.todo = ready]
        BY <3>2 DEF TakeReady
      <4>2. loop'.back = "drain" /\ loop'.todo = ready
        BY <4>1 DEF IdleLoop
      <4> QED
        BY <4>1, <4>2 DEF TypeOK, Delayed, Draining, HasWork, Kind
    <3> QED
      BY <2>1, <3>1, <3>2 DEF NextList
  <2> QED
    BY <1>p, <1>t, <1>u, <1>w, <2>1, <2>6, <2>7, <2>8 DEF Kept, HasWork
<1> QED
  BY <1>1, <1>2, <1>3, <1>4, <1>5, <1>6, <1>7 DEF Poll

\* A pipeline step: a job that ends leaves its document settled or gone, and of
\* other documents it only retires one.
LEMMA PipelineOwner ==
  ASSUME TypeOK, Shape, NEW j \in Jobs, JobStep(j), NEW d \in DocIds, Attended(d)
  PROVE  Attended(d)'
<1> USE DEF At, Doc
<1>1. JobMoves(j) /\ JobWrites(j)
  BY PipelineMoves, PipelineWrites
<1>2. UNCHANGED <<queue, delayed, loop>> /\ job[j].pc # "free" /\ job[j].id \in DocIds
      /\ \A i \in Jobs \ {j} : job'[i] = job[i]
  BY <1>1 DEF JobMoves
<1>3. /\ Queued(d)' <=> Queued(d)
      /\ Delayed(d)' <=> Delayed(d)
      /\ Draining(d)' <=> Draining(d)
      /\ InHand(d)' <=> InHand(d)
      /\ BeingFailed(d)' <=> BeingFailed(d)
  BY <1>2 DEF Queued, Delayed, Draining, InHand, BeingFailed, Positions
<1>4. CASE d # job[j].id
  <2>1. HasJob(d) => HasJob(d)'
    BY <1>2, <1>4 DEF HasJob, JobsOf
  <2>2. Unsettled(d)' => Unsettled(d)
    <3>1. \A e, st : UpdateStatus(e, st) => \/ status'[d] = status[d]
                                            \/ d = e /\ status'[d] = st
      BY DEF UpdateStatus, TypeOK
    <3> QED
      BY <1>1, <1>4, <3>1 DEF JobWrites, Unsettled
  <2> QED
    BY <1>2, <1>3, <2>1, <2>2 DEF Attended, HasWork, Kept
<1>5. CASE d = job[j].id /\ job'[j].pc # "free"
  <2>1. HasJob(d)'
    BY <1>1, <1>5 DEF JobMoves, HasJob, JobsOf
  <2> QED
    BY <2>1 DEF Attended, HasWork, Kept
<1>6. CASE d = job[j].id /\ job'[j].pc = "free"
  <2>o. ~Unsettled(d)' => Attended(d)'
    BY DEF Attended
  <2>0. ASSUME NEW st \in {"outdated", "indexed", "failed", "deleted", "none"},
               UpdateStatus(job[j].id, st)
        PROVE  ~Unsettled(d)'
    BY <1>6, <2>0 DEF UpdateStatus, TypeOK, Unsettled, HasRow
  <2>1. CASE Identical(j) \/ SetIndexed(j) \/ SetFailed(j) \/ DeleteRow(j)
    BY <2>o, <2>0, <2>1 DEF Identical, SetIndexed, SetFailed, DeleteRow, MarkOutdated
  <2>k. ASSUME NEW pc \in PC \ {"free"}, Step(j, pc) PROVE FALSE
    BY <1>6, <2>k, StepEffect
  <2>2. CASE Resolve(j)
    <3>1. MarkOutdated(j)
      BY <2>2, <2>k DEF Resolve, PC, IngestPC
    <3> QED
      BY <2>o, <2>0, <3>1 DEF MarkOutdated
  <2>3. CASE IngestLoad(j)
    <3>1. ~HasRow(d) /\ status' = status
      BY <1>6, <2>3, <2>k DEF IngestLoad, PC, IngestPC, FailPC
    <3> QED
      BY <2>o, <3>1 DEF HasRow, Unsettled
  <2>4. CASE DeleteLoad(j)
    <3>1. job' = [job EXCEPT ![j].pc = "mark", ![j].was = status[Doc(j)]] => job'[j].pc = "mark"
      BY JobTyped DEF TypeOK, Job
    <3>2. status[d] \in {"none", "deleted"} /\ status' = status
      BY <1>6, <2>4, <3>1 DEF DeleteLoad
    <3> QED
      BY <2>o, <3>2 DEF Unsettled
  <2>5. CASE Parse(j) \/ Detect(j)
    <3>1. CASE Parse(j)
      <4>1. job' = [job EXCEPT ![j].pc = "dedup", ![j].ver = s3[SourceOf[Doc(j)]]] => job'[j].pc = "dedup"
        BY JobTyped DEF TypeOK, Job
      <4> QED
        BY <1>6, <2>k, <3>1, <4>1 DEF Parse, PC, FailPC
    <3>2. CASE Detect(j)
      <4>1. \A e, pc : job' = [job EXCEPT ![j].pc = pc, ![j].dup = e] => job'[j].pc = pc
        BY JobTyped DEF TypeOK, Job
      <4> QED
        BY <1>6, <2>k, <3>2, <4>1 DEF Detect, PC, FailPC, IngestPC
    <3> QED
      BY <2>5, <3>1, <3>2
  <2>6. CASE IngestBegin(j) \/ MoveChunks(j) \/ PurgeOther(j) \/ RetireOther(j) \/ Embed(j) \/ Clear(j)
               \/ Insert(j) \/ SetDeleting(j) \/ DeleteChunks(j) \/ DeleteFile(j) \/ Fail(j)
    <3>1. \E pc \in {"parse", "retireMoved", "retireOther", "indexMoved", "embed", "clear", "insert",
                     "index", "purge", "row", "file", "fail", "failed"} : Step(j, pc)
      BY <2>6 DEF IngestBegin, MoveChunks, PurgeOther, RetireOther, Embed, Clear, Insert, SetDeleting,
                  DeleteChunks, DeleteFile, Fail
    <3> QED
      BY <2>k, <3>1 DEF PC, IngestPC, DeletePC, FailPC
  <2> QED
    BY <2>1, <2>2, <2>3, <2>4, <2>5, <2>6 DEF JobStep, IngestStep, DeleteStep
<1> QED
  BY <1>4, <1>5, <1>6

\* Every step keeps an owner; after a crash nothing is claimed.
LEMMA ActiveInvKept ==
  ASSUME TypeOK, Shape, ActiveInv, [Next]_vars
  PROVE  ActiveInv'
<1> SUFFICES ASSUME crashes' = 0, NEW d \in DocIds PROVE Attended(d)'
  BY DEF ActiveInv
<1>1. CASE UNCHANGED vars
  <2>1. UNCHANGED <<crashes, status, queue, delayed, loop, job>>
    BY <1>1 DEF vars, rows, redis, counters
  <2> QED
    BY <2>1 DEF ActiveInv, Attended, Unsettled, HasWork, Kept, Queued, Delayed, Draining, InHand, HasJob,
                JobsOf, Positions, BeingFailed
<1>2. CASE Request
  <2>1. crashes' = crashes
    BY <1>2 DEF Request, UploadBegin, ForceFailBegin, RecoverBegin, DeleteBegin, ReindexBegin,
                ReindexKbBegin, counters
  <2> QED
    BY <1>2, <2>1, RequestOwner DEF ActiveInv
<1>3. CASE Handle
  <2>1. crashes' = crashes
    BY <1>3 DEF Handle, UploadPut, UploadStage, ReindexKbNext, Enqueue, SetPending, Push, FailPurge,
                FailMark, counters
  <2> QED
    BY <1>3, <2>1, HandleOwner DEF ActiveInv
<1>4. CASE Poll
  <2>1. crashes' = crashes
    BY <1>4 DEF Poll, PollBegin, DrainNext, DrainDone, Take, Claim, ListDone, TakeError, counters
  <2> QED
    BY <1>4, <2>1, PollOwner DEF ActiveInv
<1>5. ASSUME NEW j \in Jobs, StartTask(j) PROVE Attended(d)'
  <2>1. crashes' = crashes /\ UNCHANGED <<status, queue, delayed, loop>>
    BY <1>5 DEF StartTask, counters, rows, redis
  <2>2. job[j].pc = "wait" /\ Step(j, "load")
    BY <1>5 DEF StartTask, Step
  <2>3. JobsOf(d)' = JobsOf(d)
    BY <2>2, StepEffect DEF JobsOf, PC
  <2> QED
    BY <2>1, <2>3 DEF ActiveInv, Attended, Unsettled, HasWork, Kept, Queued, Delayed, Draining, InHand,
                      HasJob, Positions, BeingFailed
<1>6. ASSUME NEW j \in Jobs, JobStep(j) PROVE Attended(d)'
  <2>1. crashes' = crashes
    BY <1>6 DEF JobStep, IngestStep, DeleteStep, IngestLoad, IngestBegin, Parse, Detect, Identical,
                Resolve, MoveChunks, PurgeOther, RetireOther, Embed, Clear, Insert, SetIndexed,
                DeleteLoad, SetDeleting, DeleteChunks, DeleteFile, DeleteRow, Fail, SetFailed,
                apiVars, counters
  <2> QED
    BY <1>6, <2>1, PipelineOwner DEF ActiveInv
<1>7. ~Crash
  BY DEF Crash, TypeOK
<1> QED
  BY <1>1, <1>2, <1>3, <1>4, <1>5, <1>6, <1>7 DEF Next

\* ActiveInv is an invariant of the service.
LEMMA ActiveInvHolds == Spec => []ActiveInv
<1>1. Init => TypeOK /\ Shape /\ ActiveInv
  BY InitTyped DEF Init, ActiveInv, Attended, Unsettled
<1>2. TypeOK /\ Shape /\ ActiveInv /\ [Next]_vars => (TypeOK /\ Shape /\ ActiveInv)'
  BY NextTyped, ActiveInvKept
<1> QED
  BY <1>1, <1>2, PTL DEF Spec

\* Whatever is accepted, overridden, retired or failing at the database, a
\* document that waits or is processed is in a list, a delay set, a task or the
\* loop's hand as long as the process does not crash.
THEOREM ActiveIsOwnedHolds == Spec => []ActiveIsOwned
<1>1. ActiveInv => ActiveIsOwned
  BY DEF ActiveInv, ActiveIsOwned, Attended, Unsettled
<1> QED
  BY ActiveInvHolds, <1>1, PTL

=============================================================================
