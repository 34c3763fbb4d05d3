----------------------------- MODULE OwnershipProofs -----------------------------
(***************************************************************************)
(* A document that nobody overrides is worked on by one actor at a time:    *)
(* the proof that OwnershipInv is inductive, and that OneWorkItem follows.  *)
(***************************************************************************)
EXTENDS DocSystemProofs

\* A step that leaves the lists, delay sets and jobs alone: what remains to be
\* shown concerns the loop and the status only.
LEMMA LoopStepOwned ==
  ASSUME NEW d \in DocIds, Owned(d), UNCHANGED <<queue, delayed, job>>,
         Queued(d) \/ HasJob(d) => status'[d] = status[d],
         InHand(d)' => ~Queued(d) /\ ~HasJob(d) /\ status'[d] \in HandStatus',
         BeingFailed(d)' => ~Queued(d) /\ ~HasJob(d),
         ~Draining(d)',
         Listed(d)' => /\ status'[d] \in StableStatus
                       /\ ~InHand(d)'
                       /\ \A x, y \in loop'.todo : x.id = d /\ y.id = d => x = y
  PROVE  Owned(d)'
<1>1. (Queued(d)' <=> Queued(d)) /\ (OneQueued(d)' <=> OneQueued(d)) /\ (Delayed(d)' <=> Delayed(d))
  BY DEF Queued, OneQueued, Delayed
<1>2. JobsOf(d)' = JobsOf(d) /\ \A j \in Jobs : JobStatus(j)' = JobStatus(j)
  BY DEF JobsOf, JobStatus
<1>3. (HasJob(d)' <=> HasJob(d)) /\ (OneJob(d)' <=> OneJob(d))
  BY <1>2 DEF HasJob, OneJob
<1>4. \A j \in JobsOf(d)' : status'[d] = JobStatus(j)'
  BY <1>2 DEF Owned, HasJob, JobsOf
<1> QED
  BY <1>1, <1>3, <1>4 DEF Owned

\* What ownership says of a document at rest, and of one in the loop's hands.
LEMMA RestingIsFree ==
  ASSUME NEW d \in DocIds, Owned(d), status[d] \in StableStatus \cup {"none", "uploading"}
  PROVE  ~Queued(d) /\ ~HasJob(d)
<1>1. status[d] \notin {"pending", "running", "deleting"}
  BY DEF StableStatus
<1>2. \A j \in Jobs : JobStatus(j) \in {"pending", "running", "deleting"}
  BY DEF JobStatus
<1>3. JobsOf(d) \subseteq Jobs
  BY DEF JobsOf
<1> QED
  BY <1>1, <1>2, <1>3 DEF Owned, HasJob

\* The handlers' first steps accept only a document at rest, which has no work.
LEMMA RequestOwned ==
  ASSUME OwnershipInv, Request, NEW d \in DocIds, ~Overridden(d)'
  PROVE  Owned(d)'
<1>0. TypeOK /\ Shape
  BY DEF OwnershipInv
<1>1. ASSUME NEW e \in DocIds, UploadBegin(e) PROVE Owned(d)'
  <2>1. Owned(d)
    BY <1>1 DEF OwnershipInv, UploadBegin, Overridden, history
  <2>2. loop.op = "idle" /\ UNCHANGED <<queue, delayed, job>>
    BY <1>1 DEF UploadBegin, Idle, redis
  <2>3. loop'.op = "put" /\ loop'.id = e /\ loop'.back = "idle"
    BY <1>1 DEF UploadBegin, Begin, IdleLoop
  <2>4. status' = [status EXCEPT ![e] = "uploading"] /\ status \in [DocIds -> Status]
    BY <1>0, <1>1 DEF UploadBegin, TypeOK
  <2>5. d = e => ~Queued(d) /\ ~HasJob(d)
    <3>1. \/ RowOf(SourceOf[e]) = {}
          \/ HasRow(e) /\ ~IsActive(e)
      BY <1>1 DEF UploadBegin
    <3>2. status[e] \in StableStatus \cup {"none"}
      BY <3>1, <2>4 DEF RowOf, HasRow, IsActive, Status
    <3> QED
      BY <2>1, <3>2, RestingIsFree
  <2>6. "uploading" \in HandStatus'
    BY <2>3 DEF HandStatus
  <2> QED
    BY <2>1, <2>2, <2>3, <2>4, <2>5, <2>6, LoopStepOwned
    DEF InHand, BeingFailed, Draining, Listed, InHandOp, FailOp
<1>2. ASSUME NEW e \in DocIds, NEW force \in BOOLEAN,
             DeleteBegin(e, force) \/ ReindexBegin(e, force)
      PROVE  Owned(d)'
  <2>1. Owned(d)
    BY <1>2 DEF OwnershipInv, DeleteBegin, ReindexBegin, Overridden, history
  <2>2. UNCHANGED <<queue, delayed, job, status>>
    BY <1>2 DEF DeleteBegin, ReindexBegin, redis, rows
  <2>3. loop'.op = "enqueue" /\ loop'.id = e /\ loop'.back = "idle"
    BY <1>2 DEF DeleteBegin, ReindexBegin, Begin, IdleLoop
  <2>4. status[e] \in StableStatus
    BY <1>0, <1>2 DEF DeleteBegin, ReindexBegin, HasRow, IsActive, TypeOK, Status
  <2>5. d = e => ~Queued(d) /\ ~HasJob(d)
    BY <2>1, <2>4, RestingIsFree
  <2>6. StableStatus \subseteq HandStatus'
    BY <2>3 DEF HandStatus, StableStatus, Status, RowStatus
  <2> QED
    BY <2>1, <2>2, <2>3, <2>4, <2>5, <2>6, LoopStepOwned
    DEF InHand, BeingFailed, Draining, Listed, InHandOp, FailOp
<1>3. ASSUME NEW force \in BOOLEAN, ReindexKbBegin(force) PROVE Owned(d)'
  <2>1. Owned(d)
    BY <1>3 DEF OwnershipInv, ReindexKbBegin, Overridden, history
  <2>2. UNCHANGED <<queue, delayed, job, status>>
    BY <1>3 DEF ReindexKbBegin, redis, rows
  <2>3. /\ loop'.op = "reindex" /\ loop'.back = "reindex"
        /\ \A it \in loop'.todo : /\ it \in Item /\ it.force = force
                                  /\ status[it.id] \in {"indexed", "failed"}
    BY <1>3 DEF ReindexKbBegin, IdleLoop
  <2>4. \A x, y \in loop'.todo : x.id = d /\ y.id = d => x = y
    BY <2>3 DEF Item
  <2> QED
    BY <2>1, <2>2, <2>3, <2>4, LoopStepOwned
    DEF InHand, BeingFailed, Draining, Listed, InHandOp, FailOp, StableStatus
<1>4. ASSUME NEW e \in DocIds, RecoverBegin(e) PROVE Owned(d)'
  <2>1. Owned(d)
    BY <1>4 DEF OwnershipInv, RecoverBegin, Supersede, Override, Overridden
  <2>2. UNCHANGED <<queue, delayed, job, status>>
    BY <1>4 DEF RecoverBegin, redis, rows
  <2>3. loop'.op = "failPurge" /\ loop'.id = e /\ loop'.back = "idle"
    BY <1>4 DEF RecoverBegin, IdleLoop
  <2>4. d = e => ~HasWork(d)
    BY <1>4 DEF RecoverBegin, Supersede, Override, Overridden
  <2> QED
    BY <2>1, <2>2, <2>3, <2>4, LoopStepOwned
    DEF InHand, BeingFailed, Draining, Listed, InHandOp, FailOp, HasWork
<1>5. ASSUME NEW e \in DocIds, ForceFailBegin(e) PROVE Owned(d)'
  <2>1. Owned(d)
    BY <1>5 DEF OwnershipInv, ForceFailBegin, Supersede, Override, Overridden
  <2>2. UNCHANGED <<job, status>>
    BY <1>5 DEF ForceFailBegin, rows
  <2>3. loop'.op = "failPurge" /\ loop'.id = e /\ loop'.back = "idle"
    BY <1>5 DEF ForceFailBegin, Begin, IdleLoop
  <2>4. d = e => ~Unreachable(d)
    BY <1>5 DEF ForceFailBegin, Supersede, Override, Overridden
  <2>q. /\ queue["upload"] \in Seq(Item)
        /\ queue'["upload"] = Without(queue["upload"], e) /\ queue'["delete"] = queue["delete"]
        /\ delayed'["upload"] \subseteq delayed["upload"] /\ delayed'["delete"] = delayed["delete"]
    BY <1>0, <1>5 DEF ForceFailBegin, DequeueUploads, TypeOK, Kind
  <2>5. \A n \in Positions(queue'["upload"], d) :
          \E i \in Positions(queue["upload"], d) : Rank(queue["upload"], e, i) = n /\ d # e
    BY <2>q, WithoutEntries, SMTT(60) DEF Positions
  <2>6. Queued(d)' => Queued(d) /\ d # e
    BY <2>4, <2>5, <2>q DEF Queued, Kind, Unreachable
  <2>7. OneQueued(d)'
    <3>1. OneQueued(d)
      BY <2>1 DEF Owned
    <3> QED
      BY <2>5, <2>q, <3>1 DEF OneQueued, Kind
  <2>8. ~Delayed(d)'
    BY <2>1, <2>q DEF Owned, Delayed, Kind
  <2>9. JobsOf(d)' = JobsOf(d) /\ \A j \in Jobs : JobStatus(j)' = JobStatus(j)
    BY <2>2 DEF JobsOf, JobStatus
  <2>10. /\ (HasJob(d)' <=> HasJob(d)) /\ (OneJob(d)' <=> OneJob(d))
         /\ \A j \in JobsOf(d)' : status'[d] = JobStatus(j)'
    BY <2>1, <2>2, <2>9 DEF HasJob, OneJob, Owned, JobsOf
  <2>11. ~InHand(d)' /\ ~Draining(d)' /\ ~Listed(d)' /\ (BeingFailed(d)' => d = e)
    BY <2>3 DEF InHand, BeingFailed, Draining, Listed, InHandOp
  <2>12. d = e => ~HasJob(d)
    BY <2>4 DEF Unreachable
  <2> QED
    BY <2>1, <2>2, <2>6, <2>7, <2>8, <2>10, <2>11, <2>12 DEF Owned
<1> QED
  BY <1>1, <1>2, <1>3, <1>4, <1>5 DEF Request

\* Where Return goes: never to an operation that holds a document.
LEMMA ReturnReleases ==
  ASSUME TypeOK, Shape, Return, NEW d \in DocIds
  PROVE  /\ ~InHand(d)' /\ ~BeingFailed(d)'
         /\ Draining(d)' => Draining(d)
         /\ Listed(d)' => Listed(d) /\ loop'.todo = loop.todo
<1>1. loop.back \in {"idle", "reindex", "drain"}
  BY DEF Shape, LoopShape
<1>2. CASE loop.back = "idle"
  BY <1>2 DEF Return, IdleLoop, InHand, BeingFailed, Draining, Listed, InHandOp, FailOp
<1>3. CASE loop.back # "idle"
  <2>1. /\ loop'.op = loop.back /\ loop'.back = loop.back /\ loop'.todo = loop.todo
    BY <1>3, LoopTyped DEF Return
  <2> QED
    BY <1>1, <1>3, <2>1 DEF InHand, BeingFailed, Draining, Listed, InHandOp, FailOp
<1> QED
  BY <1>2, <1>3

\* The push of an event hands the document from the handler to a list.
LEMMA PushOwned ==
  ASSUME OwnershipInv, Push, NEW d \in DocIds, Owned(d)
  PROVE  Owned(d)'
<1>0. TypeOK /\ Shape
  BY DEF OwnershipInv
<1> DEFINE k0 == loop.kind
           e  == [id |-> loop.id, force |-> loop.force]
<1>1. loop.op = "push" /\ k0 \in Kind /\ loop.id \in DocIds /\ UNCHANGED <<delayed, job, status>>
  BY <1>0, LoopTyped DEF Push, Shape, LoopShape, InHandOp, rows
<1>2. /\ queue'[k0] = Append(queue[k0], e) /\ queue[k0] \in Seq(Item) /\ e \in Item
      /\ \A k \in Kind \ {k0} : queue'[k] = queue[k]
  BY <1>0, <1>1, LoopTyped DEF Push, TypeOK, Item
<1>3. Positions(queue'[k0], d) = IF d = loop.id THEN Positions(queue[k0], d) \cup {Len(queue[k0]) + 1}
                                 ELSE Positions(queue[k0], d)
  <2>1. /\ DOMAIN queue'[k0] = 1 .. (Len(queue[k0]) + 1) /\ DOMAIN queue[k0] = 1 .. Len(queue[k0])
        /\ queue'[k0][Len(queue[k0]) + 1] = e
        /\ \A i \in 1 .. Len(queue[k0]) : queue'[k0][i] = queue[k0][i]
    BY <1>2
  <2> HIDE DEF k0
  <2>2. e.id = loop.id
    OBVIOUS
  <2> HIDE DEF e
  <2>3. Len(queue[k0]) \in Nat
    BY <1>2
  <2> QED
    BY <2>1, <2>2, <2>3 DEF Positions
<1>4. (d = loop.id <=> InHand(d)) /\ (d = loop.id => status[d] = "pending")
  BY <1>1 DEF InHand, InHandOp, Owned, HandStatus
<1>5. ~InHand(d)' /\ ~BeingFailed(d)' /\ ~Draining(d)' /\ (Listed(d)' => Listed(d) /\ loop'.todo = loop.todo)
  BY <1>0, ReturnReleases DEF Push, Owned
<1>6. Queued(d)' <=> Queued(d) \/ d = loop.id
  <2> HIDE DEF k0
  <2> QED
    BY <1>1, <1>2, <1>3 DEF Queued
<1>7. OneQueued(d)'
  <2>1. OneQueued(d)
    BY DEF Owned
  <2>2. CASE d = loop.id
    <3>1. \A k \in Kind : Positions(queue[k], d) = {}
      BY <1>4, <2>2 DEF Owned, Queued
    <3> HIDE DEF k0
    <3>2. \A k \in Kind \ {k0} : Positions(queue'[k], d) = {}
      BY <1>2, <3>1
    <3>3. Positions(queue'[k0], d) = {Len(queue[k0]) + 1}
      BY <1>1, <1>3, <2>2, <3>1
    <3> QED
      BY <3>2, <3>3 DEF OneQueued
  <2>3. CASE d # loop.id
    <3> HIDE DEF k0
    <3>1. \A k \in Kind : Positions(queue'[k], d) = Positions(queue[k], d)
      BY <1>2, <1>3, <2>3
    <3> QED
      BY <2>1, <3>1 DEF OneQueued
  <2> QED
    BY <2>2, <2>3
<1>8. JobsOf(d)' = JobsOf(d) /\ \A j \in Jobs : JobStatus(j)' = JobStatus(j)
  BY <1>1 DEF JobsOf, JobStatus
<1>9. /\ (HasJob(d)' <=> HasJob(d)) /\ (OneJob(d)' <=> OneJob(d))
      /\ \A j \in JobsOf(d)' : status'[d] = JobStatus(j)'
  BY <1>1, <1>8 DEF HasJob, OneJob, Owned, JobsOf
<1>10. ~Delayed(d)'
  BY <1>1 DEF Delayed, Owned
<1> QED
  BY <1>1, <1>4, <1>5, <1>6, <1>7, <1>9, <1>10 DEF Owned

\* The handlers' later steps keep the document in the loop's hands or release it at rest.
LEMMA HandleOwned ==
  ASSUME OwnershipInv, Handle, NEW d \in DocIds, ~Overridden(d)'
  PROVE  Owned(d)'
<1>0. TypeOK /\ Shape /\ loop.back \in {"idle", "reindex", "drain"}
  BY DEF OwnershipInv, Shape, LoopShape
<1>1. Owned(d) /\ UNCHANGED job
  BY DEF Handle, OwnershipInv, Overridden, history, UploadPut, UploadStage, ReindexKbNext,
         Enqueue, SetPending, Push, FailPurge, FailMark
<1>2. CASE UploadPut
  <2>1. loop.op = "put" /\ loop.back = "idle" /\ UNCHANGED <<queue, delayed, status>>
    BY <1>0, <1>2 DEF UploadPut, rows, redis, Shape, LoopShape
  <2>2. CASE loop' = IdleLoop
    BY <1>1, <2>1, <2>2, LoopStepOwned
    DEF IdleLoop, InHand, BeingFailed, Draining, Listed, InHandOp, FailOp
  <2>3. CASE Goto("stage")
    <3>1. loop'.op = "stage" /\ loop'.id = loop.id /\ loop'.back = "idle"
      BY <1>0, <2>1, <2>3, LoopTyped DEF Goto
    <3>2. InHand(d)' => InHand(d) /\ status'[d] \in HandStatus'
      BY <1>1, <2>1, <3>1 DEF InHand, InHandOp, HandStatus, Owned
    <3> QED
      BY <1>1, <2>1, <3>1, <3>2, LoopStepOwned DEF BeingFailed, Draining, Listed, FailOp, Owned
  <2> QED
    BY <1>2, <2>2, <2>3 DEF UploadPut
<1>3. CASE UploadStage
  <2>1. loop.op = "stage" /\ loop.back = "idle" /\ UNCHANGED <<queue, delayed>>
    BY <1>0, <1>3 DEF UploadStage, redis, Shape, LoopShape
  <2>2. loop'.op = "enqueue" /\ loop'.id = loop.id /\ loop'.back = "idle"
    BY <1>0, <1>3, <2>1, LoopTyped DEF UploadStage, Goto
  <2>3. InHand(d)' <=> InHand(d)
    BY <2>1, <2>2 DEF InHand, InHandOp
  <2>4. status'[d] = IF d = loop.id /\ HasRow(d) THEN "pending" ELSE status[d]
    BY <1>0, <1>3, UpdateTyped DEF UploadStage, Status, RowStatus, ActiveStatus
  <2>5. InHand(d) <=> d = loop.id
    BY <2>1 DEF InHand, InHandOp
  <2>6. InHand(d) => status'[d] \in HandStatus'
    BY <1>1, <2>1, <2>2, <2>4, <2>5 DEF Owned, HandStatus, HasRow, Status, RowStatus, ActiveStatus
  <2> QED
    BY <1>1, <2>1, <2>2, <2>3, <2>4, <2>5, <2>6, LoopStepOwned
    DEF BeingFailed, Draining, Listed, FailOp, Owned
<1>4. CASE ReindexKbNext
  <2>1. loop.op = "reindex" /\ loop.back = "reindex" /\ UNCHANGED <<queue, delayed, status>>
    BY <1>0, <1>4 DEF ReindexKbNext, rows, redis, Shape, LoopShape
  <2>2. CASE loop' = IdleLoop
    BY <1>1, <2>1, <2>2, LoopStepOwned
    DEF IdleLoop, InHand, BeingFailed, Draining, Listed, InHandOp, FailOp
  <2>3. ASSUME NEW it \in loop.todo,
               loop' = [loop EXCEPT !.op = "enqueue", !.id = it.id, !.force = it.force,
                                    !.todo = @ \ {it}]
        PROVE  Owned(d)'
    <3>2. /\ loop'.op = "enqueue" /\ loop'.id = it.id /\ loop'.back = "reindex"
          /\ loop'.todo = loop.todo \ {it}
      BY <1>0, <2>1, <2>3, LoopTyped
    <3>3. it.id = d => status[d] \in StableStatus /\ ~Listed(d)'
      BY <1>1, <2>1, <3>2 DEF Owned, Listed
    <3>4. it.id = d => ~Queued(d) /\ ~HasJob(d)
      BY <1>1, <3>3, RestingIsFree
    <3>5. StableStatus \subseteq HandStatus'
      BY <3>2 DEF HandStatus, StableStatus, Status, RowStatus
    <3>6. Listed(d)' => Listed(d)
      BY <2>1, <3>2 DEF Listed
    <3>7. /\ InHand(d)' <=> it.id = d
          /\ ~BeingFailed(d)' /\ ~Draining(d)'
      BY <3>2 DEF InHand, InHandOp, BeingFailed, FailOp, Draining
    <3> QED
      BY <1>1, <2>1, <3>2, <3>3, <3>4, <3>5, <3>6, <3>7, LoopStepOwned DEF Owned
  <2>4. ASSUME NEW it \in loop.todo, loop' = [loop EXCEPT !.todo = @ \ {it}]
        PROVE  Owned(d)'
    <3>1. /\ loop'.op = "reindex" /\ loop'.back = "reindex" /\ loop'.todo = loop.todo \ {it}
      BY <1>0, <2>1, <2>4, LoopTyped
    <3>2. ~InHand(d)' /\ ~BeingFailed(d)' /\ ~Draining(d)' /\ (Listed(d)' => Listed(d))
      BY <2>1, <3>1 DEF InHand, InHandOp, BeingFailed, FailOp, Draining, Listed
    <3> QED
      BY <1>1, <2>1, <3>1, <3>2, LoopStepOwned DEF Owned
  <2> QED
    BY <1>4, <2>2, <2>3, <2>4 DEF ReindexKbNext
<1>5. CASE Enqueue
  <2>1. loop.op = "enqueue" /\ UNCHANGED <<queue, delayed, status>>
    BY <1>5 DEF Enqueue, rows, redis
  <2>2. CASE Return
    BY <1>0, <1>1, <2>1, <2>2, ReturnReleases, LoopStepOwned DEF Owned
  <2>3. ASSUME NEW op \in {"push", "setPending"}, loop' = [loop EXCEPT !.op = op],
               status[loop.id] \notin {"none", "deleted"},
               op = "push" => status[loop.id] \in {"running", "deleting"}
        PROVE  Owned(d)'
    <3>1. loop'.op = op /\ loop'.id = loop.id /\ loop'.back = loop.back /\ loop'.todo = loop.todo
      BY <1>0, <2>3, LoopTyped
    <3>2. InHand(d)' <=> InHand(d)
      BY <2>1, <3>1 DEF InHand, InHandOp
    <3>3. ~BeingFailed(d)' /\ (Draining(d)' <=> Draining(d)) /\ (Listed(d)' <=> Listed(d))
      BY <3>1 DEF BeingFailed, FailOp, Draining, Listed
    <3>4. InHand(d) => status[d] \in Status \ {"running", "deleting", "none"} /\ d = loop.id
      BY <1>1, <2>1, <2>3 DEF Owned, HandStatus, InHand
    <3>5. InHand(d) => status[d] \in HandStatus'
      BY <2>3, <3>1, <3>4 DEF HandStatus
    <3> QED
      BY <1>1, <2>1, <3>1, <3>2, <3>3, <3>5, LoopStepOwned DEF Owned
  <2> QED
    BY <1>5, <2>2, <2>3 DEF Enqueue, Goto
<1>6. CASE SetPending
  <2>1. loop.op = "setPending" /\ UNCHANGED <<queue, delayed>>
    BY <1>6 DEF SetPending, redis
  <2>2. loop'.op = "push" /\ loop'.id = loop.id /\ loop'.back = loop.back /\ loop'.todo = loop.todo
    BY <1>0, <1>6, LoopTyped DEF SetPending, Goto
  <2>3. (InHand(d)' <=> InHand(d)) /\ (InHand(d) <=> d = loop.id)
    BY <2>1, <2>2 DEF InHand, InHandOp
  <2>4. status'[d] = IF d = loop.id /\ HasRow(d) THEN "pending" ELSE status[d]
    BY <1>0, <1>6, UpdateTyped DEF SetPending, Status, RowStatus, ActiveStatus
  <2>5. ~BeingFailed(d)' /\ (Draining(d)' <=> Draining(d)) /\ (Listed(d)' <=> Listed(d))
    BY <2>2 DEF BeingFailed, FailOp, Draining, Listed
  <2>6. InHand(d) => status[d] # "none"
    BY <1>1, <2>1 DEF Owned, HandStatus
  <2>7. "pending" \in HandStatus'
    BY <2>2 DEF HandStatus
  <2> QED
    BY <1>1, <2>1, <2>2, <2>3, <2>4, <2>5, <2>6, <2>7, LoopStepOwned DEF Owned, HasRow
<1>7. CASE Push
  BY <1>1, <1>7, PushOwned
<1>8. CASE FailPurge
  <2>1. loop.op = "failPurge" /\ loop.back = "idle" /\ UNCHANGED <<queue, delayed, status>>
    BY <1>0, <1>8 DEF FailPurge, rows, redis, Shape, LoopShape, FailOp
  <2>2. loop'.op = "failMark" /\ loop'.id = loop.id /\ loop'.back = "idle"
    BY <1>0, <1>8, <2>1, LoopTyped DEF FailPurge, Goto
  <2>3. BeingFailed(d)' <=> BeingFailed(d)
    BY <2>1, <2>2 DEF BeingFailed, FailOp
  <2> QED
    BY <1>1, <2>1, <2>2, <2>3, LoopStepOwned DEF InHand, InHandOp, Draining, Listed, Owned
<1>9. CASE FailMark
  <2>1. loop.op = "failMark" /\ loop.back = "idle" /\ UNCHANGED <<queue, delayed>>
    BY <1>0, <1>9 DEF FailMark, redis, Shape, LoopShape, FailOp
  <2>2. status'[d] = IF d = loop.id /\ HasRow(d) THEN "failed" ELSE status[d]
    BY <1>0, <1>9, UpdateTyped DEF FailMark, Status, RowStatus, StableStatus
  <2>3. d = loop.id => ~Queued(d) /\ ~HasJob(d)
    BY <1>1, <2>1 DEF Owned, BeingFailed, FailOp
  <2>4. CASE loop' = IdleLoop
    BY <1>1, <2>1, <2>2, <2>3, <2>4, LoopStepOwned
    DEF IdleLoop, InHand, BeingFailed, Draining, Listed, InHandOp, FailOp
  <2>5. CASE loop' = [loop EXCEPT !.op = "enqueue"]
    <3>1. loop'.op = "enqueue" /\ loop'.id = loop.id /\ loop'.back = "idle"
      BY <1>0, <2>1, <2>5, LoopTyped
    <3>2. d = loop.id => status'[d] \in HandStatus'
      BY <2>2, <3>1 DEF HandStatus, HasRow, Status, RowStatus, StableStatus
    <3> QED
      BY <1>1, <2>1, <2>2, <2>3, <3>1, <3>2, LoopStepOwned
      DEF InHand, BeingFailed, Draining, Listed, InHandOp, FailOp
  <2> QED
    BY <1>9, <2>4, <2>5 DEF FailMark
<1> QED
  BY <1>2, <1>3, <1>4, <1>5, <1>6, <1>7, <1>8, <1>9 DEF Handle

-----------------------------------------------------------------------------
(* The worker. *)

\* A document nobody overrode is in no delay set, so no poll holds it while it
\* drains.
LEMMA DrainOwnsNothing ==
  ASSUME TypeOK, NEW kind \in Kind, TakeReady(kind), NEW d \in DocIds, Owned(d)
  PROVE  ~InHand(d)' /\ ~BeingFailed(d)' /\ ~Draining(d)' /\ ~Listed(d)' /\ ~Delayed(d)'
<1>1. PICK ready \in SUBSET delayed[kind] :
        /\ delayed' = [delayed EXCEPT ![kind] = @ \ ready]
        /\ loop' = [IdleLoop EXCEPT !.op = "drain", !.kind = kind, !.back = "drain", !.todo = ready]
  BY DEF TakeReady
<1>2. loop'.op = "drain" /\ loop'.back = "drain" /\ loop'.todo = ready
  BY <1>1 DEF IdleLoop
<1>3. \A it \in ready : it.id # d
  BY DEF Owned, Delayed
<1>4. ~Delayed(d)'
  BY <1>1 DEF Owned, Delayed, TypeOK
<1> QED
  BY <1>2, <1>3, <1>4 DEF InHand, BeingFailed, Draining, Listed, InHandOp, FailOp

\* A step of the worker that moves no event of document d and no job.
LEMMA WorkerStepOwned ==
  ASSUME NEW d \in DocIds, Owned(d), UNCHANGED <<job, status>>,
         OneQueued(d)', Queued(d)' => Queued(d), ~Delayed(d)',
         ~InHand(d)', ~BeingFailed(d)', ~Draining(d)', ~Listed(d)'
  PROVE  Owned(d)'
<1>1. JobsOf(d)' = JobsOf(d) /\ \A j \in Jobs : JobStatus(j)' = JobStatus(j)
  BY DEF JobsOf, JobStatus
<1>2. /\ (HasJob(d)' <=> HasJob(d)) /\ (OneJob(d)' <=> OneJob(d))
      /\ \A j \in JobsOf(d)' : status'[d] = JobStatus(j)'
  BY <1>1 DEF HasJob, OneJob, Owned, JobsOf
<1> QED
  BY <1>2 DEF Owned

\* The same when the lists are as before.
LEMMA SameLists ==
  ASSUME NEW d \in DocIds, Owned(d), UNCHANGED queue
  PROVE  OneQueued(d)' /\ (Queued(d)' <=> Queued(d))
BY DEF Owned, OneQueued, Queued

\* When the worker turns from one list to the next it holds no document.
LEMMA NextListOwned ==
  ASSUME TypeOK, Shape, NEW d \in DocIds, Owned(d), loop.op = "take", NextList
  PROVE  ~InHand(d)' /\ ~BeingFailed(d)' /\ ~Draining(d)' /\ ~Listed(d)' /\ ~Delayed(d)'
<1>1. CASE TakeReady("upload")
  BY <1>1, DrainOwnsNothing DEF Kind
<1>2. CASE loop' = IdleLoop /\ UNCHANGED delayed
  BY <1>2 DEF IdleLoop, InHand, BeingFailed, Draining, Listed, InHandOp, FailOp, Owned, Delayed
<1>3. CASE /\ loop' = [loop EXCEPT !.kind = "delete", !.n = 0, !.more = (loop.n = MaxPerPoll)]
           /\ UNCHANGED delayed
  <2>1. loop'.op = "take" /\ loop'.back = "idle"
    BY <1>3, LoopTyped DEF Shape, LoopShape
  <2> QED
    BY <1>3, <2>1 DEF InHand, BeingFailed, Draining, Listed, InHandOp, FailOp, Owned, Delayed
<1> QED
  BY <1>1, <1>2, <1>3 DEF NextList

\* Popping the head moves every other event up by one.
LEMMA TailPositions ==
  ASSUME NEW q \in Seq(Item), q # <<>>, NEW d
  PROVE  /\ \A i \in Positions(Tail(q), d) : i + 1 \in Positions(q, d) /\ i \in Nat /\ i # 0
         /\ Head(q).id = d <=> 1 \in Positions(q, d)
<1>1. DOMAIN q = 1 .. Len(q) /\ Len(q) \in Nat /\ Len(q) # 0 /\ Head(q) = q[1]
  OBVIOUS
<1>2. DOMAIN Tail(q) = 1 .. (Len(q) - 1) /\ \A i \in 1 .. (Len(q) - 1) : Tail(q)[i] = q[i + 1]
  OBVIOUS
<1> QED
  BY <1>1, <1>2 DEF Positions

\* A pop takes the event off its list and claims it, re-queues it or drops it.
LEMMA TakeOwned ==
  ASSUME OwnershipInv, Take, NEW d \in DocIds, Owned(d)
  PROVE  Owned(d)'
<1> DEFINE k0 == loop.kind
           q == queue[k0]
           e == Head(q)
           busy == \/ status[e.id] = "running"
                   \/ k0 = "upload" /\ status[e.id] = "deleting"
<1>0. TypeOK /\ Shape /\ loop.op = "take" /\ loop.back = "idle"
  BY DEF OwnershipInv, Take, Shape, LoopShape
<1>1. k0 \in Kind /\ q \in Seq(Item) /\ q # <<>> /\ UNCHANGED <<job, status>>
  BY <1>0, LoopTyped, HeadTyped DEF Take, rows
<1>2. queue'[k0] = Tail(q) /\ \A k \in Kind \ {k0} : queue'[k] = queue[k]
  BY <1>0, <1>1 DEF Take, TypeOK
<1>3. /\ \A i \in Positions(Tail(q), d) : i + 1 \in Positions(q, d) /\ i \in Nat /\ i # 0
      /\ e.id = d <=> 1 \in Positions(q, d)
  BY <1>1, TailPositions
<1>4. OneQueued(d)
  BY DEF Owned
<1>5. OneQueued(d)' /\ (Queued(d)' => Queued(d) /\ e.id # d)
  <2> HIDE DEF k0, q, e
  <2>1. q = queue[k0]
    BY DEF q
  <2>2. \A k \in Kind : \A i \in Positions(queue'[k], d) :
          (IF k = k0 THEN i + 1 ELSE i) \in Positions(queue[k], d)
    BY <1>2, <1>3, <2>1
  <2>3. \A i \in Positions(queue'[k0], d) : i \in Nat /\ i # 0
    BY <1>2, <1>3
  <2>4. \A k, l \in Kind :
          \A i \in Positions(queue'[k], d), m \in Positions(queue'[l], d) : k = l /\ i = m
    <3> SUFFICES ASSUME NEW k \in Kind, NEW l \in Kind, NEW i \in Positions(queue'[k], d),
                        NEW m \in Positions(queue'[l], d)
                 PROVE  k = l /\ i = m
      OBVIOUS
    <3>1. k = l
      BY <1>4, <2>2 DEF OneQueued
    <3>2. CASE k = k0
      <4>1. i + 1 = m + 1
        BY <1>4, <2>2, <3>1, <3>2 DEF OneQueued
      <4> QED
        BY <2>3, <3>1, <3>2, <4>1
    <3>3. CASE k # k0
      BY <1>4, <2>2, <3>1, <3>3 DEF OneQueued
    <3> QED
      BY <3>1, <3>2, <3>3
  <2>5. Queued(d)' => Queued(d)
    BY <2>2 DEF Queued
  <2>6. e.id = d => ~Queued(d)'
    <3> SUFFICES ASSUME e.id = d, NEW k \in Kind, NEW i \in Positions(queue'[k], d) PROVE FALSE
      BY DEF Queued
    <3>1. 1 \in Positions(queue[k0], d)
      BY <1>3, <2>1
    <3>2. k = k0
      BY <1>1, <1>4, <2>2, <3>1 DEF OneQueued
    <3>3. i + 1 = 1
      BY <1>4, <2>2, <3>1, <3>2 DEF OneQueued
    <3> QED
      BY <2>3, <3>2, <3>3
  <2> QED
    BY <2>4, <2>5, <2>6 DEF OneQueued
<1>6. e.id = d => Queued(d) /\ status[d] = "pending" /\ ~HasJob(d)
  <2>1. e.id = d => Positions(queue[k0], d) # {}
    BY <1>3
  <2> QED
    BY <1>1, <2>1 DEF Queued, Owned
<1>7. /\ delayed' = IF busy THEN [delayed EXCEPT ![k0] = @ \cup {e}] ELSE delayed
      /\ loop' = IF busy THEN loop ELSE [loop EXCEPT !.op = "claim", !.id = e.id, !.force = e.force]
  BY DEF Take
<1>8. CASE e.id = d
  <2>1. ~busy
    BY <1>6, <1>8
  <2>2. UNCHANGED delayed /\ loop'.op = "claim" /\ loop'.id = d /\ loop'.back = "idle"
    <3> HIDE DEF e, busy
    <3> QED
      BY <1>0, <1>7, <1>8, <2>1, LoopTyped
  <2>3. ~Delayed(d)'
    BY <2>2 DEF Delayed, Owned
  <2>4. ~BeingFailed(d)' /\ ~Draining(d)' /\ ~Listed(d)' /\ HandStatus' = {"pending"}
    BY <2>2 DEF BeingFailed, Draining, Listed, FailOp, HandStatus
  <2>5. JobsOf(d)' = {} /\ ~HasJob(d)'
    BY <1>1, <1>6, <1>8 DEF HasJob, JobsOf
  <2>6. ~Queued(d)' /\ OneQueued(d)'
    BY <1>5, <1>8
  <2>7. OneJob(d)'
    BY <2>5 DEF OneJob
  <2>8. status'[d] = "pending"
    BY <1>1, <1>6, <1>8
  <2> QED
    BY <2>3, <2>4, <2>5, <2>6, <2>7, <2>8 DEF Owned
<1>9. CASE e.id # d
  <2>1. loop'.back = "idle" /\ (loop'.op = "take" \/ (loop'.op = "claim" /\ loop'.id # d))
    <3> HIDE DEF e, busy
    <3> QED
      BY <1>0, <1>7, <1>9, LoopTyped
  <2>2. ~Delayed(d)'
    <3>1. \A k \in Kind : delayed'[k] \subseteq delayed[k] \cup {e}
      <4> HIDE DEF e, busy
      <4> QED
        BY <1>0, <1>1, <1>7 DEF TypeOK
    <3> QED
      BY <1>9, <3>1 DEF Delayed, Owned
  <2>3. ~InHand(d)' /\ ~BeingFailed(d)' /\ ~Draining(d)' /\ ~Listed(d)'
    BY <2>1 DEF InHand, InHandOp, BeingFailed, Draining, Listed, FailOp
  <2> QED
    BY <1>1, <1>5, <2>2, <2>3, WorkerStepOwned
<1> QED
  BY <1>8, <1>9

\* An event put back at the far end is still there once.
LEMMA TakeErrorOwned ==
  ASSUME OwnershipInv, TakeError, NEW d \in DocIds, Owned(d)
  PROVE  Owned(d)'
<1> DEFINE k0 == loop.kind
           q == queue[k0]
           r == Append(Tail(q), Head(q))
           From(i) == IF i = Len(q) THEN 1 ELSE i + 1
<1>0. TypeOK /\ Shape /\ loop.op = "take"
  BY DEF OwnershipInv, TakeError
<1>1. k0 \in Kind /\ q \in Seq(Item) /\ q # <<>> /\ UNCHANGED <<job, status>>
  BY <1>0, LoopTyped, HeadTyped DEF TakeError, rows
<1>2. queue'[k0] = r /\ \A k \in Kind \ {k0} : queue'[k] = queue[k]
  BY <1>0, <1>1 DEF TakeError, TypeOK
<1>3. \A i \in Positions(r, d) : From(i) \in Positions(q, d) /\ i \in 1 .. Len(q)
  <2>1. DOMAIN q = 1 .. Len(q) /\ Len(q) \in Nat \ {0} /\ Head(q) = q[1]
    BY <1>1
  <2>2. Tail(q) \in Seq(Item) /\ Len(Tail(q)) = Len(q) - 1
        /\ \A i \in 1 .. (Len(q) - 1) : Tail(q)[i] = q[i + 1]
    BY <1>1
  <2>3. /\ DOMAIN r = 1 .. Len(q) /\ r[Len(q)] = q[1]
        /\ \A i \in 1 .. (Len(q) - 1) : r[i] = q[i + 1]
    <3> HIDE DEF q
    <3> QED
      BY <1>1, <2>1, <2>2
  <2> HIDE DEF q, r
  <2> QED
    BY <2>1, <2>3 DEF Positions
<1>4. Len(q) \in Nat
  BY <1>1
<1>5. OneQueued(d) /\ q = queue[k0]
  BY DEF Owned
<1>6. OneQueued(d)' /\ (Queued(d)' => Queued(d))
  <2> HIDE DEF k0, q, r
  <2>1. \A k \in Kind : \A i \in Positions(queue'[k], d) :
          (IF k = k0 THEN From(i) ELSE i) \in Positions(queue[k], d)
    BY <1>2, <1>3, <1>5
  <2>2. \A i \in Positions(queue'[k0], d) : i \in 1 .. Len(q)
    BY <1>2, <1>3
  <2>3. \A k, l \in Kind :
          \A i \in Positions(queue'[k], d), m \in Positions(queue'[l], d) : k = l /\ i = m
    <3> SUFFICES ASSUME NEW k \in Kind, NEW l \in Kind, NEW i \in Positions(queue'[k], d),
                        NEW m \in Positions(queue'[l], d)
                 PROVE  k = l /\ i = m
      OBVIOUS
    <3>1. k = l
      <4> HIDE DEF From
      <4> QED
        BY <1>5, <2>1 DEF OneQueued
    <3>2. CASE k = k0
      <4>1. From(i) = From(m)
        <5> HIDE DEF From
        <5> QED
          BY <1>5, <2>1, <3>1, <3>2 DEF OneQueued
      <4> QED
        BY <1>4, <2>2, <3>1, <3>2, <4>1
    <3>3. CASE k # k0
      BY <1>5, <2>1, <3>1, <3>3, ZenonT(60) DEF OneQueued
    <3> QED
      BY <3>1, <3>2, <3>3
  <2>4. Queued(d)' => Queued(d)
    <3> HIDE DEF From
    <3> QED
      BY <2>1 DEF Queued
  <2> QED
    BY <2>3, <2>4 DEF OneQueued
<1> QED
  BY <1>0, <1>1, <1>6, NextListOwned, WorkerStepOwned DEF TakeError

\* The event in hand becomes a job of its own.
LEMMA ClaimOwned ==
  ASSUME OwnershipInv, Claim, NEW d \in DocIds, Owned(d)
  PROVE  Owned(d)'
<1>0. TypeOK /\ Shape /\ loop.op = "claim" /\ loop.back = "idle" /\ loop.id \in DocIds
  BY DEF OwnershipInv, Claim, Shape, LoopShape, InHandOp
<1>1. UNCHANGED <<queue, delayed>>
  BY DEF Claim, redis
<1>2. loop'.op = "take" /\ loop'.back = "idle"
  BY <1>0, LoopTyped DEF Claim
<1>3. PICK k \in Jobs : job[k].pc = "free" /\ job' = [job EXCEPT ![k] = NewJob(loop.kind, loop)]
  BY DEF Claim
<1>4. /\ \A j \in Jobs \ {k} : job'[j] = job[j]
      /\ job'[k].pc = "wait" /\ job'[k].id = loop.id /\ job'[k].kind = loop.kind
  BY <1>0, <1>3 DEF TypeOK, NewJob, FreeJob
<1>5. ~InHand(d)' /\ ~BeingFailed(d)' /\ ~Draining(d)' /\ ~Listed(d)'
  BY <1>2 DEF InHand, BeingFailed, Draining, Listed, InHandOp, FailOp
<1>6. OneQueued(d)' /\ (Queued(d)' <=> Queued(d)) /\ ~Delayed(d)'
  BY <1>1, SameLists DEF Owned, Delayed
<1>7. status'[d] = IF d = loop.id /\ HasRow(d) /\ loop.kind = "upload" THEN "running" ELSE status[d]
  <2>1. "running" \in Status
    BY DEF Status, RowStatus, ActiveStatus
  <2> QED
    BY <1>0, <2>1, UpdateTyped DEF Claim
<1>8. CASE d = loop.id
  <2>1. ~Queued(d) /\ JobsOf(d) = {} /\ status[d] = "pending"
    BY <1>0, <1>8 DEF Owned, InHand, InHandOp, HandStatus, HasJob
  <2>2. JobsOf(d)' = {k}
    BY <1>4, <1>8, <2>1 DEF JobsOf
  <2>3. OneJob(d)'
    BY <2>2 DEF OneJob
  <2>4. loop.kind \in Kind
    BY <1>0, LoopTyped
  <2>5. status'[d] = JobStatus(k)'
    BY <1>4, <1>7, <1>8, <2>1, <2>4 DEF JobStatus, HasRow, Kind
  <2>6. \A j \in JobsOf(d)' : status'[d] = JobStatus(j)'
    BY <2>2, <2>5
  <2> QED
    BY <1>5, <1>6, <2>1, <2>3, <2>6 DEF Owned
<1>9. CASE d # loop.id
  <2>1. JobsOf(d)' = JobsOf(d)
    BY <1>3, <1>4, <1>9 DEF JobsOf
  <2>2. \A j \in JobsOf(d) : JobStatus(j)' = JobStatus(j)
    BY <1>3, <1>4 DEF JobStatus, JobsOf
  <2>3. /\ (HasJob(d)' <=> HasJob(d)) /\ OneJob(d)'
        /\ \A j \in JobsOf(d)' : status'[d] = JobStatus(j)'
    BY <1>7, <1>9, <2>1, <2>2 DEF HasJob, OneJob, Owned
  <2> QED
    BY <1>5, <1>6, <1>7, <1>9, <2>3 DEF Owned
<1> QED
  BY <1>8, <1>9

\* The steps of draining and polling.
LEMMA PollOwned ==
  ASSUME OwnershipInv, Poll, NEW d \in DocIds, ~Overridden(d)'
  PROVE  Owned(d)'
<1>0. TypeOK /\ Shape
  BY DEF OwnershipInv
<1>1. Owned(d)
  BY DEF Poll, OwnershipInv, Overridden, history, PollBegin, DrainNext, DrainDone, Take, Claim,
         ListDone, TakeError
<1>2. CASE PollBegin
  <2>1. TakeReady("upload") /\ UNCHANGED <<queue, job, status>>
    BY <1>2 DEF PollBegin, rows
  <2> QED
    BY <1>0, <1>1, <2>1, DrainOwnsNothing, SameLists, WorkerStepOwned DEF Kind
<1>3. CASE DrainNext
  <2>1. UNCHANGED <<queue, delayed, job, status>> /\ loop.op = "drain"
    BY <1>3 DEF DrainNext, rows, redis
  <2>2. PICK it \in loop.todo, op \in {"push", "setPending"} :
          loop' = [loop EXCEPT !.id = it.id, !.force = it.force, !.todo = @ \ {it}, !.op = op]
    BY <1>3 DEF DrainNext
  <2>3. /\ loop'.id = it.id /\ loop'.op = op /\ loop'.back = loop.back
        /\ loop'.todo = loop.todo \ {it} /\ loop.back = "drain"
    BY <1>0, <2>1, <2>2, LoopTyped DEF Shape, LoopShape
  <2>4. it.id # d
    BY <1>1, <2>3 DEF Owned, Draining
  <2>5. ~InHand(d)' /\ ~BeingFailed(d)' /\ ~Draining(d)' /\ ~Listed(d)'
    BY <1>1, <2>3, <2>4 DEF InHand, BeingFailed, Draining, Listed, Owned
  <2>6. ~Delayed(d)'
    BY <1>1, <2>1 DEF Delayed, Owned
  <2> QED
    BY <1>1, <2>1, <2>5, <2>6, SameLists, WorkerStepOwned
<1>4. CASE DrainDone
  <2>1. UNCHANGED <<queue, job, status>>
    BY <1>4 DEF DrainDone, rows
  <2>2. CASE TakeReady("delete")
    BY <1>0, <1>1, <2>1, <2>2, DrainOwnsNothing, SameLists, WorkerStepOwned DEF Kind
  <2>3. CASE UNCHANGED delayed /\ loop' = [IdleLoop EXCEPT !.op = "take"]
    <3>1. ~InHand(d)' /\ ~BeingFailed(d)' /\ ~Draining(d)' /\ ~Listed(d)'
      BY <2>3 DEF IdleLoop, InHand, BeingFailed, Draining, Listed, InHandOp, FailOp
    <3>2. ~Delayed(d)'
      BY <1>1, <2>3 DEF Delayed, Owned
    <3> QED
      BY <1>1, <2>1, <3>1, <3>2, SameLists, WorkerStepOwned
  <2> QED
    BY <1>4, <2>2, <2>3 DEF DrainDone
<1>5. CASE Take
  BY <1>1, <1>5, TakeOwned
<1>6. CASE Claim
  BY <1>1, <1>6, ClaimOwned
<1>7. CASE ListDone
  <2>1. UNCHANGED <<queue, job, status>> /\ loop.op = "take" /\ NextList
    BY <1>7 DEF ListDone, rows
  <2> QED
    BY <1>0, <1>1, <2>1, NextListOwned, SameLists, WorkerStepOwned
<1>8. CASE TakeError
  BY <1>1, <1>8, TakeErrorOwned
<1> QED
  BY <1>2, <1>3, <1>4, <1>5, <1>6, <1>7, <1>8 DEF Poll

\* A crash takes every task and the loop's hands; the lists survive it.
LEMMA CrashOwned ==
  ASSUME OwnershipInv, Crash, NEW d \in DocIds, ~Overridden(d)'
  PROVE  Owned(d)'
<1>1. Owned(d)
  BY DEF OwnershipInv, Crash, Overridden, history
<1>2. UNCHANGED <<queue, delayed, status>> /\ loop' = IdleLoop /\ \A j \in Jobs : job'[j] = FreeJob
  BY DEF Crash, rows, redis
<1>3. JobsOf(d)' = {}
  BY <1>2 DEF JobsOf, FreeJob
<1>4. OneJob(d)' /\ ~HasJob(d)'
  BY <1>3 DEF OneJob, HasJob
<1>5. ~InHand(d)' /\ ~BeingFailed(d)' /\ ~Draining(d)' /\ ~Listed(d)'
  BY <1>2 DEF IdleLoop, InHand, BeingFailed, Draining, Listed, InHandOp, FailOp
<1>6. OneQueued(d)' /\ (Queued(d)' <=> Queued(d)) /\ ~Delayed(d)'
  BY <1>1, <1>2, SameLists DEF Owned, Delayed
<1> QED
  BY <1>1, <1>2, <1>3, <1>4, <1>5, <1>6 DEF Owned

-----------------------------------------------------------------------------
(* The pipelines. *)

\* What a document that a job works on cannot be doing besides.
LEMMA WorkedOnIsBusy ==
  ASSUME TypeOK, NEW j \in Jobs, job[j].pc # "free", job[j].id \in DocIds, Owned(job[j].id)
  PROVE  /\ JobsOf(job[j].id) = {j} /\ status[job[j].id] = JobStatus(j)
         /\ ~Queued(job[j].id) /\ ~InHand(job[j].id) /\ ~BeingFailed(job[j].id)
         /\ ~Listed(job[j].id)
<1>1. j \in JobsOf(job[j].id) /\ JobsOf(job[j].id) \subseteq Jobs
  BY DEF JobsOf
<1>2. JobsOf(job[j].id) = {j} /\ status[job[j].id] = JobStatus(j) /\ HasJob(job[j].id)
  BY <1>1 DEF Owned, OneJob, HasJob
<1>3. JobStatus(j) \notin StableStatus
  BY DEF JobStatus, StableStatus
<1> QED
  BY <1>2, <1>3 DEF Owned

\* A pipeline step as its document sees it: its job moves on or ends.
LEMMA OwnStepOwned ==
  ASSUME TypeOK, NEW j \in Jobs, job[j].pc # "free", NEW d \in DocIds, d = job[j].id, Owned(d),
         UNCHANGED <<queue, delayed, loop>>,
         \A i \in Jobs \ {j} : job'[i] = job[i],
         \/ job'[j].pc = "free"
         \/ /\ job'[j].pc # "free" /\ job'[j].id = job[j].id
            /\ status'[d] = JobStatus(j)'
  PROVE  Owned(d)'
<1>1. /\ JobsOf(d) = {j} /\ status[d] = JobStatus(j)
      /\ ~Queued(d) /\ ~InHand(d) /\ ~BeingFailed(d) /\ ~Listed(d)
  BY WorkedOnIsBusy
<1>2. /\ ~InHand(d)' /\ ~BeingFailed(d)' /\ ~Listed(d)' /\ ~Draining(d)'
  BY <1>1 DEF InHand, BeingFailed, Listed, Draining, Owned
<1>3. OneQueued(d)' /\ ~Queued(d)' /\ ~Delayed(d)'
  BY <1>1 DEF OneQueued, Queued, Delayed, Owned
<1>4. JobsOf(d)' = {} \/ (JobsOf(d)' = {j} /\ status'[d] = JobStatus(j)')
  <2>1. \A i \in Jobs \ {j} : ~(job[i].pc # "free" /\ job[i].id = d)
    BY <1>1 DEF JobsOf
  <2> QED
    BY <2>1 DEF JobsOf
<1>5. OneJob(d)' /\ \A i \in JobsOf(d)' : status'[d] = JobStatus(i)'
  BY <1>4 DEF OneJob
<1> QED
  BY <1>2, <1>3, <1>5 DEF Owned

\* A pipeline step as another document sees it.
LEMMA OtherStepOwned ==
  ASSUME TypeOK, NEW j \in Jobs, job[j].pc # "free", NEW d \in DocIds, d # job[j].id, Owned(d),
         UNCHANGED <<queue, delayed, loop>>,
         \A i \in Jobs \ {j} : job'[i] = job[i],
         \/ job'[j].pc = "free"
         \/ job'[j].id = job[j].id,
         \/ status'[d] = status[d]
         \/ ~HasWork(d) /\ status'[d] = "outdated"
  PROVE  Owned(d)'
<1>1. JobsOf(d)' = JobsOf(d) /\ \A i \in JobsOf(d) : JobStatus(i)' = JobStatus(i)
  BY DEF JobsOf, JobStatus
<1>2. (HasJob(d)' <=> HasJob(d)) /\ OneJob(d)'
  BY <1>1 DEF HasJob, OneJob, Owned
<1>3. OneQueued(d)' /\ (Queued(d)' <=> Queued(d)) /\ ~Delayed(d)'
  BY DEF OneQueued, Queued, Delayed, Owned
<1>4. /\ (InHand(d)' <=> InHand(d)) /\ (BeingFailed(d)' <=> BeingFailed(d))
      /\ (Listed(d)' <=> Listed(d)) /\ ~Draining(d)' /\ HandStatus' = HandStatus
  BY DEF InHand, BeingFailed, Listed, Draining, Owned, HandStatus
<1>5. CASE status'[d] = status[d]
  <2>1. \A i \in JobsOf(d)' : status'[d] = JobStatus(i)'
    BY <1>1, <1>5 DEF Owned
  <2> QED
    BY <1>2, <1>3, <1>4, <1>5, <2>1 DEF Owned
<1>6. CASE ~HasWork(d) /\ status'[d] = "outdated"
  <2>1. ~Queued(d) /\ ~InHand(d) /\ ~HasJob(d)
    BY <1>6 DEF HasWork
  <2>2. JobsOf(d)' = {}
    BY <1>1, <2>1 DEF HasJob
  <2>3. "outdated" \in StableStatus
    BY DEF StableStatus
  <2> QED
    BY <1>2, <1>3, <1>4, <1>6, <2>1, <2>2, <2>3 DEF Owned
<1> QED
  BY <1>5, <1>6

\* A step of a pipeline keeps every document's work in one place.
LEMMA PipelineOwned ==
  ASSUME OwnershipInv, NEW j \in Jobs, JobStep(j), NEW d \in DocIds, ~Overridden(d)'
  PROVE  Owned(d)'
<1> USE DEF At, Doc
<1>0. TypeOK /\ Shape /\ (~Overridden(d) => Owned(d))
  BY DEF OwnershipInv
<1>1. UNCHANGED <<queue, delayed, loop>>
  BY DEF JobStep, IngestStep, DeleteStep, IngestLoad, IngestBegin, Parse, Detect, Identical,
         Resolve, MoveChunks, PurgeOther, RetireOther, Embed, Clear, Insert, SetIndexed,
         DeleteLoad, SetDeleting, DeleteChunks, DeleteFile, DeleteRow, Fail, SetFailed,
         apiVars, redis
<1>2. job[j].pc # "free" /\ job[j].id \in DocIds
  <2>1. job[j].pc # "free"
    BY DEF JobStep, IngestStep, DeleteStep, IngestLoad, IngestBegin, Parse, Detect, Identical,
           Resolve, MoveChunks, PurgeOther, RetireOther, Embed, Clear, Insert, SetIndexed,
           DeleteLoad, SetDeleting, DeleteChunks, DeleteFile, DeleteRow, Fail, SetFailed
  <2> QED
    BY <1>0, <2>1 DEF Shape, JobShape
<1>3. Owned(d)
  BY <1>0 DEF Overridden, Override, JobStep, IngestStep, DeleteStep, IngestLoad, IngestBegin,
         Parse, Detect, Identical, Resolve, MoveChunks, PurgeOther, RetireOther, Embed, Clear,
         Insert, SetIndexed, DeleteLoad, SetDeleting, DeleteChunks, DeleteFile, DeleteRow, Fail,
         SetFailed
<1>4. d = job[j].id => status[d] = JobStatus(j)
  BY <1>0, <1>2, <1>3, WorkedOnIsBusy
<1>5. \A st \in {"running", "outdated", "indexed", "failed", "deleting", "deleted", "none"} :
        st \in Status
  BY DEF Status, RowStatus, StableStatus, ActiveStatus
\* The three shapes of a step.
<1>e. ASSUME End(j), \A e \in DocIds \ {job[j].id} : status'[e] = status[e] PROVE Owned(d)'
  BY <1>0, <1>1, <1>2, <1>3, <1>e, EndEffect, OwnStepOwned, OtherStepOwned
<1>s. ASSUME NEW pc \in PC \ {"free"}, Step(j, pc), UNCHANGED status,
             \/ job[j].kind = "upload"
             \/ (pc \in {"wait", "load", "mark"} <=> job[j].pc \in {"wait", "load", "mark"})
      PROVE  Owned(d)'
  <2>1. /\ \A i \in Jobs \ {j} : job'[i] = job[i]
        /\ job'[j].pc = pc /\ job'[j].kind = job[j].kind /\ job'[j].id = job[j].id
    BY <1>0, <1>s, StepEffect
  <2>2. JobStatus(j)' = JobStatus(j)
    BY <1>s, <2>1 DEF JobStatus
  <2> QED
    BY <1>0, <1>1, <1>2, <1>3, <1>4, <1>s, <2>1, <2>2, OwnStepOwned, OtherStepOwned
<1>r. ASSUME NEW r, job' = [job EXCEPT ![j] = r], UNCHANGED status,
             r.pc # "free", r.id = job[j].id, r.kind = job[j].kind,
             \/ job[j].kind = "upload"
             \/ (r.pc \in {"wait", "load", "mark"} <=> job[j].pc \in {"wait", "load", "mark"})
      PROVE  Owned(d)'
  <2>1. job'[j] = r /\ \A i \in Jobs \ {j} : job'[i] = job[i]
    BY <1>0, <1>r DEF TypeOK
  <2>2. JobStatus(j)' = JobStatus(j)
    BY <1>r, <2>1 DEF JobStatus
  <2> QED
    BY <1>0, <1>1, <1>2, <1>3, <1>4, <1>r, <2>1, <2>2, OwnStepOwned, OtherStepOwned
<1>k. job[j].pc \in IngestPC => job[j].kind = "upload"
  BY <1>0 DEF Shape, JobShape
<1>l. job[j].pc \in DeletePC => job[j].kind = "delete"
  BY <1>0 DEF Shape, JobShape
<1>6. CASE IngestLoad(j)
  BY <1>6, <1>e, <1>s DEF IngestLoad, PC, IngestPC, FailPC
<1>7. CASE IngestBegin(j)
  <2>1. job[j].kind = "upload" /\ Step(j, "parse") /\ "parse" \in PC
    BY <1>7, <1>k DEF IngestBegin, PC, IngestPC
  <2>2. /\ \A i \in Jobs \ {j} : job'[i] = job[i]
        /\ job'[j].pc = "parse" /\ job'[j].kind = job[j].kind /\ job'[j].id = job[j].id
    BY <1>0, <2>1, StepEffect
  <2>3. status'[d] = IF d = job[j].id /\ HasRow(d) THEN "running" ELSE status[d]
    BY <1>0, <1>5, <1>7, UpdateTyped DEF IngestBegin
  <2>4. d = job[j].id => status'[d] = JobStatus(j)'
    BY <1>4, <2>1, <2>2, <2>3 DEF JobStatus, HasRow
  <2> QED
    BY <1>0, <1>1, <1>2, <1>3, <2>2, <2>3, <2>4, OwnStepOwned, OtherStepOwned
<1>8. CASE Parse(j)
  <2>1. CASE Step(j, "fail")
    BY <1>8, <1>k, <1>s, <2>1 DEF Parse, PC, IngestPC, FailPC
  <2>2. CASE job' = [job EXCEPT ![j].pc = "dedup", ![j].ver = s3[SourceOf[Doc(j)]]]
    <3> DEFINE r == [job[j] EXCEPT !.pc = "dedup", !.ver = s3[SourceOf[Doc(j)]]]
    <3>1. job' = [job EXCEPT ![j] = r]
      BY <2>2
    <3>2. r.pc = "dedup" /\ r.id = job[j].id /\ r.kind = job[j].kind
      BY <1>0, JobTyped DEF Job
    <3> HIDE DEF r
    <3> QED
      BY <1>8, <1>k, <1>r, <3>1, <3>2 DEF Parse, IngestPC
  <2> QED
    BY <1>8, <2>1, <2>2 DEF Parse
<1>9. CASE Detect(j)
  <2>0. job[j].kind = "upload" /\ UNCHANGED status
    BY <1>9, <1>k DEF Detect, Candidates, IngestPC
  <2>1. CASE Step(j, "fail") \/ Step(j, "embed")
    BY <2>0, <1>s, <2>1 DEF PC, IngestPC, FailPC
  <2>2. ASSUME NEW e \in DocIds, NEW pc \in {"identical", "resolveMoved", "resolveSimilar"},
               job' = [job EXCEPT ![j].pc = pc, ![j].dup = e]
        PROVE  Owned(d)'
    <3> DEFINE r == [job[j] EXCEPT !.pc = pc, !.dup = e]
    <3>1. job' = [job EXCEPT ![j] = r]
      BY <2>2
    <3>2. r.pc = pc /\ r.id = job[j].id /\ r.kind = job[j].kind
      BY <1>0, JobTyped DEF Job
    <3> HIDE DEF r
    <3> QED
      BY <2>0, <1>r, <3>1, <3>2
  <2> QED
    BY <1>9, <2>1, <2>2 DEF Detect, Candidates
<1>10. CASE Identical(j)
  BY <1>0, <1>5, <1>10, <1>e, UpdateTyped DEF Identical, MarkOutdated
<1>11. CASE Resolve(j)
  <2>1. CASE MarkOutdated(j)
    BY <1>0, <1>5, <1>e, <2>1, UpdateTyped DEF MarkOutdated
  <2>2. CASE UNCHANGED status /\ (Step(j, "moveChunks") \/ Step(j, "purgeOther"))
    BY <1>11, <1>k, <1>s, <2>2 DEF Resolve, PC, IngestPC
  <2> QED
    BY <1>11, <2>1, <2>2 DEF Resolve
<1>12. CASE MoveChunks(j)
  BY <1>12, <1>k, <1>s DEF MoveChunks, PC, IngestPC, FailPC
<1>13. CASE PurgeOther(j)
  BY <1>13, <1>k, <1>s DEF PurgeOther, PC, IngestPC, FailPC
<1>14. CASE RetireOther(j)
  <2>1. PICK pc \in {"indexMoved", "embed"} : Step(j, pc)
    BY <1>14 DEF RetireOther
  <2>2. job[j].kind = "upload" /\ pc \in PC /\ pc # "free"
    BY <1>14, <1>k DEF RetireOther, PC, IngestPC
  <2>3. /\ \A i \in Jobs \ {j} : job'[i] = job[i]
        /\ job'[j].pc = pc /\ job'[j].kind = job[j].kind /\ job'[j].id = job[j].id
    BY <1>0, <2>1, <2>2, StepEffect
  <2>4. status'[d] = IF d = job[j].dup /\ HasRow(d) THEN "outdated" ELSE status[d]
    BY <1>0, <1>5, <1>14, UpdateTyped DEF RetireOther, Dup
  <2>5. d = job[j].dup => ~HasWork(d)
    BY <1>14 DEF RetireOther, Override, Overridden, Dup, Stale
  <2>6. d = job[j].id => HasWork(d)
    BY <1>2 DEF HasWork, HasJob, JobsOf
  <2>7. JobStatus(j)' = JobStatus(j)
    BY <2>2, <2>3 DEF JobStatus
  <2> QED
    BY <1>0, <1>1, <1>2, <1>3, <1>4, <2>2, <2>3, <2>4, <2>5, <2>6, <2>7, OwnStepOwned,
       OtherStepOwned
<1>15. CASE Embed(j)
  BY <1>15, <1>k, <1>s DEF Embed, PC, IngestPC, FailPC
<1>16. CASE Clear(j)
  BY <1>16, <1>k, <1>s DEF Clear, PC, IngestPC, FailPC
<1>17. CASE Insert(j)
  BY <1>17, <1>k, <1>s DEF Insert, PC, IngestPC, FailPC
<1>18. CASE SetIndexed(j)
  BY <1>0, <1>5, <1>18, <1>e, UpdateTyped DEF SetIndexed
<1>19. CASE DeleteLoad(j)
  <2>1. CASE End(j)
    BY <1>19, <1>e, <2>1 DEF DeleteLoad
  <2>2. CASE job' = [job EXCEPT ![j].pc = "mark", ![j].was = status[Doc(j)]]
    <3> DEFINE r == [job[j] EXCEPT !.pc = "mark", !.was = status[Doc(j)]]
    <3>1. job' = [job EXCEPT ![j] = r]
      BY <2>2
    <3>2. r.pc = "mark" /\ r.id = job[j].id /\ r.kind = job[j].kind
      BY <1>0, JobTyped DEF Job
    <3> HIDE DEF r
    <3> QED
      BY <1>19, <1>r, <3>1, <3>2 DEF DeleteLoad
  <2> QED
    BY <1>19, <2>1, <2>2 DEF DeleteLoad
<1>20. CASE SetDeleting(j)
  <2>1. job[j].kind = "delete" /\ Step(j, "purge") /\ "purge" \in PC /\ job[j].pc = "mark"
    BY <1>20, <1>l DEF SetDeleting, PC, DeletePC
  <2>2. /\ \A i \in Jobs \ {j} : job'[i] = job[i]
        /\ job'[j].pc = "purge" /\ job'[j].kind = job[j].kind /\ job'[j].id = job[j].id
    BY <1>0, <2>1, StepEffect
  <2>3. status'[d] = IF d = job[j].id /\ HasRow(d) THEN "deleting" ELSE status[d]
    BY <1>0, <1>5, <1>20, UpdateTyped DEF SetDeleting
  <2>4. d = job[j].id => status'[d] = JobStatus(j)'
    BY <1>4, <2>1, <2>2, <2>3 DEF JobStatus, HasRow
  <2> QED
    BY <1>0, <1>1, <1>2, <1>3, <2>2, <2>3, <2>4, OwnStepOwned, OtherStepOwned
<1>21. CASE DeleteChunks(j)
  BY <1>21, <1>s DEF DeleteChunks, PC, DeletePC, FailPC
<1>22. CASE DeleteFile(j)
  BY <1>22, <1>s DEF DeleteFile, PC, DeletePC
<1>23. CASE DeleteRow(j)
  BY <1>0, <1>5, <1>23, <1>e, UpdateTyped DEF DeleteRow
<1>24. CASE Fail(j)
  BY <1>24, <1>s DEF Fail, PC, FailPC
<1>25. CASE SetFailed(j)
  BY <1>0, <1>5, <1>25, <1>e, UpdateTyped DEF SetFailed
<1> QED
  BY <1>6, <1>7, <1>8, <1>9, <1>10, <1>11, <1>12, <1>13, <1>14, <1>15, <1>16, <1>17, <1>18,
     <1>19, <1>20, <1>21, <1>22, <1>23, <1>24, <1>25
  DEF JobStep, IngestStep, DeleteStep

\* A task that gets its permit goes on as it was.
LEMMA StartOwned ==
  ASSUME OwnershipInv, NEW j \in Jobs, StartTask(j), NEW d \in DocIds, ~Overridden(d)'
  PROVE  Owned(d)'
<1>1. TypeOK /\ Shape /\ Owned(d)
  BY DEF OwnershipInv, StartTask, Overridden, history
<1>2. UNCHANGED <<queue, delayed, loop, status>> /\ job[j].pc = "wait" /\ Step(j, "load")
  BY DEF StartTask, redis, rows, Step
<1>3. job[j].id \in DocIds
  BY <1>1, <1>2 DEF Shape, JobShape
<1>4. /\ \A i \in Jobs \ {j} : job'[i] = job[i]
      /\ job'[j].pc = "load" /\ job'[j].kind = job[j].kind /\ job'[j].id = job[j].id
  BY <1>1, <1>2, StepEffect DEF PC
<1>5. JobStatus(j)' = JobStatus(j)
  BY <1>2, <1>4 DEF JobStatus
<1>6. d = job[j].id => status[d] = JobStatus(j)
  BY <1>1, <1>2, <1>3, WorkedOnIsBusy
<1> QED
  BY <1>1, <1>2, <1>3, <1>4, <1>5, <1>6, OwnStepOwned, OtherStepOwned

-----------------------------------------------------------------------------
\* The inductive invariant: for any numbers of documents, uploads, crashes and
\* overrides, every document nobody overrode is owned once, with the status
\* that goes with its owner.
THEOREM OwnershipHolds == Spec => []OwnershipInv
<1>1. Init => OwnershipInv
  <2> SUFFICES ASSUME Init, NEW d \in DocIds PROVE Owned(d)
    BY InitTyped DEF OwnershipInv
  <2>1. /\ \A k \in Kind : queue[k] = <<>> /\ delayed[k] = {}
        /\ loop = IdleLoop /\ \A j \in Jobs : job[j].pc = "free"
    BY DEF Init, FreeJob
  <2>2. JobsOf(d) = {} /\ ~Delayed(d) /\ \A k \in Kind : Positions(queue[k], d) = {}
    BY <2>1 DEF JobsOf, Delayed, Positions
  <2>3. ~InHand(d) /\ ~BeingFailed(d) /\ ~Draining(d) /\ ~Listed(d)
    BY <2>1 DEF IdleLoop, InHand, BeingFailed, Draining, Listed, InHandOp, FailOp
  <2> QED
    BY <2>2, <2>3 DEF Owned, OneQueued, OneJob, Queued, HasJob
<1>2. OwnershipInv /\ [Next]_vars => OwnershipInv'
  <2> SUFFICES ASSUME OwnershipInv, [Next]_vars PROVE OwnershipInv'
    OBVIOUS
  <2>0. (TypeOK /\ Shape)'
    BY NextTyped DEF OwnershipInv
  <2> SUFFICES ASSUME NEW d \in DocIds, ~Overridden(d)' PROVE Owned(d)'
    BY <2>0 DEF OwnershipInv
  <2>1. CASE UNCHANGED vars
    <3>1. Owned(d) /\ UNCHANGED <<queue, delayed, job, status, loop>>
      BY <2>1 DEF OwnershipInv, Overridden, vars, rows, redis, history
    <3>2. /\ (InHand(d)' <=> InHand(d)) /\ (BeingFailed(d)' <=> BeingFailed(d))
          /\ (Draining(d)' <=> Draining(d)) /\ (Listed(d)' <=> Listed(d)) /\ HandStatus' = HandStatus
      BY <3>1 DEF InHand, BeingFailed, Draining, Listed, HandStatus
    <3> QED
      BY <3>1, <3>2, LoopStepOwned DEF Owned
  <2>2. CASE Request
    BY <2>2, RequestOwned
  <2>3. CASE Handle
    BY <2>3, HandleOwned
  <2>4. CASE Poll
    BY <2>4, PollOwned
  <2>5. ASSUME NEW j \in Jobs, StartTask(j) PROVE Owned(d)'
    BY <2>5, StartOwned
  <2>6. ASSUME NEW j \in Jobs, JobStep(j) PROVE Owned(d)'
    BY <2>6, PipelineOwned
  <2>7. CASE Crash
    BY <2>7, CrashOwned
  <2> QED
    BY <2>1, <2>2, <2>3, <2>4, <2>5, <2>6, <2>7 DEF Next
<1> QED
  BY <1>1, <1>2, PTL DEF Spec

\* However requests, polls, threads, crashes and overrides of other documents
\* interleave, a document nobody overrode is queued, held or worked on once.
THEOREM OneWorkItemHolds == Spec => []OneWorkItem
<1>1. OwnershipInv => OneWorkItem
  <2> SUFFICES ASSUME OwnershipInv, NEW d \in DocIds, ~Overridden(d)
               PROVE  /\ OneQueued(d) /\ OneJob(d)
                      /\ Queued(d) => ~HasJob(d) /\ ~InHand(d)
                      /\ HasJob(d) => ~InHand(d)
                      /\ ~Delayed(d) /\ ~Draining(d)
                      /\ Settled(d) => ~Queued(d) /\ ~HasJob(d)
    BY DEF OneWorkItem
  <2>1. Owned(d)
    BY DEF OwnershipInv
  <2>2. Settled(d) => ~Queued(d) /\ ~HasJob(d)
    BY <2>1, RestingIsFree DEF Settled
  <2> QED
    BY <2>1, <2>2 DEF Owned
<1> QED
  BY OwnershipHolds, <1>1, PTL
=============================================================================
