------------------------------- MODULE FlowProofs -------------------------------
(***************************************************************************)
(* DocSystem implements DocStatusFlow: every step of the loop, the worker    *)
(* and the pipelines is a step of the documented flow or changes nothing a   *)
(* client sees; so a document at rest shows the outcome of its last request. *)
(***************************************************************************)
EXTENDS OwnershipProofs

\* What holds of one document that nobody overrode.
Asking(d) ==
  /\ \A k \in Kind : \A i \in Positions(queue[k], d) : Fits(k, d)
  /\ \A j \in JobsOf(d) : Fits(job[j].kind, d)
  /\ loop.id = d /\ loop.op \in {"push", "claim"} => Fits(loop.kind, d)
  /\ loop.id = d /\ loop.op = "setPending" => status[d] # "deleted"
  /\ loop.id = d /\ loop.op \in {"enqueue", "setPending", "push"} => loop.back # "drain"
  /\ BeingFailed(d) => IsActive(d)

AskedInv == OwnershipInv /\ WorkIsAsked

\* WorkIsAsked, said of one document.
LEMMA AskedOne ==
  ASSUME WorkIsAsked, NEW d \in DocIds, ~Overridden(d)
  PROVE  Asking(d)
BY DEF WorkIsAsked, Asking

\* Said of every document nobody overrode, it is WorkIsAsked.
LEMMA AskedAll ==
  ASSUME \A d \in DocIds : ~Overridden(d) => Asking(d)
  PROVE  WorkIsAsked
BY DEF WorkIsAsked, Asking

-----------------------------------------------------------------------------
(* WorkIsAsked is inductive, given OwnershipInv. *)

\* A step that neither queues nor starts anything, and that leaves what was
\* asked of d alone: what remains to be shown concerns the loop.
LEMMA LoopStepAsked ==
  ASSUME NEW d \in DocIds, Asking(d), asked'[d] = asked[d],
         \A k \in Kind : Positions(queue[k], d)' = {} \/ Positions(queue[k], d) # {},
         \A j \in JobsOf(d)' : j \in JobsOf(d) /\ job'[j].kind = job[j].kind,
         loop'.id = d =>
           /\ loop'.op \in {"push", "claim"} => Fits(loop'.kind, d)
           /\ loop'.op = "setPending" => status'[d] # "deleted"
           /\ loop'.op \in {"enqueue", "setPending", "push"} => loop'.back # "drain"
           /\ loop'.op \in FailOp => status'[d] \in ActiveStatus
  PROVE  Asking(d)'
<1>1. \A k \in Kind : \A i \in Positions(queue[k], d)' : Fits(k, d)'
  BY DEF Asking, Fits
<1>2. \A j \in JobsOf(d)' : Fits(job[j].kind, d)'
  BY DEF Asking, Fits
<1>3. loop'.id = d /\ loop'.op \in {"push", "claim"} => Fits(loop.kind, d)'
  BY DEF Fits
<1>4. BeingFailed(d)' => IsActive(d)'
  BY DEF BeingFailed, IsActive, ActiveStatus, RowStatus, StableStatus
<1> QED
  BY <1>1, <1>2, <1>3, <1>4 DEF Asking

\* The lists and the jobs stay as they are.
LEMMA SameWork ==
  ASSUME NEW d \in DocIds, UNCHANGED <<queue, job>>
  PROVE  /\ \A k \in Kind : Positions(queue[k], d)' = {} \/ Positions(queue[k], d) # {}
         /\ \A j \in JobsOf(d)' : j \in JobsOf(d) /\ job'[j].kind = job[j].kind
BY DEF Positions, JobsOf

\* The loop does not hold d after the step.
LEMMA ReleasedAsked ==
  ASSUME NEW d \in DocIds, Asking(d), asked'[d] = asked[d], UNCHANGED <<queue, job>>,
         ~InHand(d)', ~BeingFailed(d)'
  PROVE  Asking(d)'
<1>1. loop'.id = d => loop'.op \notin {"push", "claim", "setPending", "enqueue"} \cup FailOp
  BY DEF InHand, BeingFailed, InHandOp
<1> QED
  BY <1>1, SameWork, LoopStepAsked

\* The handlers' first steps: the request that is accepted becomes what was asked.
LEMMA RequestAsked ==
  ASSUME AskedInv, Request, NEW d \in DocIds, ~Overridden(d)'
  PROVE  Asking(d)'
<1>0. TypeOK /\ Shape
  BY DEF AskedInv, OwnershipInv
<1> DEFINE Plain == /\ ~Overridden(d) /\ asked' = asked /\ job' = job
                    /\ loop'.op \in {"put", "enqueue", "reindex", "failPurge"}
                    /\ loop'.back # "drain"
           Shorter == \A k \in Kind : Positions(queue[k], d)' = {} \/ Positions(queue[k], d) # {}
           Given == loop'.id = d /\ loop'.op \in FailOp => status'[d] \in ActiveStatus
<1>1. Plain
  <2>1. ASSUME NEW e \in DocIds, UploadBegin(e) \/ ForceFailBegin(e) \/ RecoverBegin(e) PROVE Plain
    BY <2>1 DEF UploadBegin, ForceFailBegin, RecoverBegin, Begin, IdleLoop, Supersede, Override,
                Overridden, history
  <2>2. ASSUME NEW e \in DocIds, NEW f \in BOOLEAN, DeleteBegin(e, f) \/ ReindexBegin(e, f) PROVE Plain
    BY <2>2 DEF DeleteBegin, ReindexBegin, Begin, IdleLoop, Overridden, history
  <2>3. ASSUME NEW f \in BOOLEAN, ReindexKbBegin(f) PROVE Plain
    BY <2>3 DEF ReindexKbBegin, IdleLoop, Overridden, history
  <2> QED
    BY <2>1, <2>2, <2>3 DEF Request
<1>2. Asking(d)
  BY <1>1, AskedOne DEF AskedInv
<1>3. Shorter
  <2>1. CASE queue' = queue
    BY <2>1 DEF Positions
  <2>2. ASSUME NEW e \in DocIds, ForceFailBegin(e) PROVE Shorter
    <3>1. /\ queue["upload"] \in Seq(Item)
          /\ queue'["upload"] = Without(queue["upload"], e) /\ queue'["delete"] = queue["delete"]
      BY <1>0, <2>2 DEF ForceFailBegin, DequeueUploads, TypeOK, Kind
    <3>2. \A n \in Positions(queue'["upload"], d) :
            \E i \in Positions(queue["upload"], d) : Rank(queue["upload"], e, i) = n
      BY <3>1, WithoutEntries DEF Positions
    <3>3. Positions(queue["delete"], d)' = Positions(queue["delete"], d)
      BY <3>1 DEF Positions
    <3> QED
      BY <3>2, <3>3 DEF Kind
  <2>3. queue' = queue \/ \E e \in DocIds : ForceFailBegin(e)
    BY DEF Request, UploadBegin, RecoverBegin, DeleteBegin, ReindexBegin, ReindexKbBegin, redis
  <2> QED
    BY <2>1, <2>2, <2>3
<1>4. Given
  <2>1. ASSUME NEW e \in DocIds, ForceFailBegin(e) \/ RecoverBegin(e) PROVE Given
    BY <2>1 DEF ForceFailBegin, RecoverBegin, Begin, IdleLoop, rows, ActiveStatus
  <2>2. ASSUME NEW e \in DocIds, NEW f \in BOOLEAN,
               UploadBegin(e) \/ DeleteBegin(e, f) \/ ReindexBegin(e, f) \/ ReindexKbBegin(f)
        PROVE Given
    BY <2>2 DEF UploadBegin, DeleteBegin, ReindexBegin, ReindexKbBegin, Begin, IdleLoop, FailOp
  <2> QED
    BY <2>1, <2>2 DEF Request
<1>5. \A j \in JobsOf(d)' : j \in JobsOf(d) /\ job'[j].kind = job[j].kind
  BY <1>1 DEF JobsOf
<1> QED
  BY <1>1, <1>2, <1>3, <1>4, <1>5, LoopStepAsked

\* What a handler has been given leaves its hands at Return.
LEMMA ReturnAsked ==
  ASSUME TypeOK, Shape, Return, NEW d \in DocIds, Asking(d), asked'[d] = asked[d],
         UNCHANGED <<queue, job>>
  PROVE  Asking(d)'
BY ReturnReleases, ReleasedAsked

\* The push of an event: the loop holds the document for the request it has accepted.
LEMMA PushAsked ==
  ASSUME TypeOK, Shape, Push, NEW d \in DocIds, Asking(d)
  PROVE  Asking(d)'
<1> DEFINE k0 == loop.kind
           e  == [id |-> loop.id, force |-> loop.force]
<1>1. loop.op = "push" /\ k0 \in Kind /\ loop.id \in DocIds /\ UNCHANGED <<job, status, asked>>
  BY LoopTyped DEF Push, Shape, LoopShape, InHandOp, rows, history
<1>2. /\ queue'[k0] = Append(queue[k0], e) /\ queue[k0] \in Seq(Item) /\ e \in Item
      /\ \A k \in Kind \ {k0} : queue'[k] = queue[k]
  BY <1>1, LoopTyped DEF Push, TypeOK, Item
<1>3. /\ DOMAIN queue'[k0] = 1 .. (Len(queue[k0]) + 1) /\ DOMAIN queue[k0] = 1 .. Len(queue[k0])
      /\ queue'[k0][Len(queue[k0]) + 1] = e
      /\ \A i \in 1 .. Len(queue[k0]) : queue'[k0][i] = queue[k0][i]
      /\ Len(queue[k0]) \in Nat /\ e.id = loop.id
  BY <1>2
<1>4. ~InHand(d)' /\ ~BeingFailed(d)'
  BY ReturnReleases DEF Push
<1> HIDE DEF k0, e
<1>5. \A i \in Positions(queue'[k0], d) : i \in Positions(queue[k0], d) \/ d = loop.id
  BY <1>3 DEF Positions
<1>6. d = loop.id => Fits(k0, d)
  BY <1>1 DEF Asking, k0
<1>7. \A k \in Kind : \A i \in Positions(queue[k], d)' : Fits(k, d)'
  <2>1. \A k \in Kind : \A i \in Positions(queue'[k], d) : Fits(k, d)
    BY <1>2, <1>5, <1>6 DEF Asking
  <2> QED
    BY <1>1, <2>1 DEF Fits, Positions
<1>8. \A j \in JobsOf(d)' : Fits(job[j].kind, d)'
  BY <1>1 DEF Asking, JobsOf, Fits
<1> QED
  BY <1>4, <1>7, <1>8 DEF Asking, InHand, InHandOp

\* The handlers' later steps.
LEMMA HandleAsked ==
  ASSUME AskedInv, Handle, NEW d \in DocIds, ~Overridden(d)'
  PROVE  Asking(d)'
<1>0. TypeOK /\ Shape /\ loop \in Loop
  BY DEF AskedInv, OwnershipInv, TypeOK
<1>1. ~Overridden(d) /\ UNCHANGED job
  BY DEF Handle, Overridden, history, UploadPut, UploadStage, ReindexKbNext,
         Enqueue, SetPending, Push, FailPurge, FailMark
<1>2. Asking(d) /\ Owned(d)
  BY <1>1, AskedOne DEF AskedInv, OwnershipInv
<1>3. CASE UploadPut
  <2>1. loop' = IdleLoop \/ Goto("stage")
    BY <1>3 DEF UploadPut
  <2>2. loop'.op \in {"idle", "stage"}
    BY <1>0, <2>1 DEF Goto, IdleLoop, Loop
  <2> QED
    BY <1>2, <1>3, <2>2, SameWork, LoopStepAsked DEF UploadPut, redis, history, FailOp
<1>4. CASE UploadStage
  <2>1. loop'.op = "enqueue" /\ loop'.back = "idle"
    BY <1>0, <1>4 DEF UploadStage, Goto, Loop, Shape, LoopShape
  <2> QED
    BY <1>2, <1>4, <2>1, SameWork, LoopStepAsked DEF UploadStage, redis, history, FailOp
<1>5. CASE ReindexKbNext
  <2>1. loop'.op \in {"idle", "reindex", "enqueue"} /\ loop'.back # "drain"
    <3>1. loop.op = "reindex" /\ loop.back = "reindex"
      BY <1>0, <1>5 DEF ReindexKbNext, Shape, LoopShape
    <3>2. CASE loop' = IdleLoop
      BY <3>2 DEF IdleLoop
    <3>3. ASSUME NEW it \in loop.todo, loop' = [loop EXCEPT !.todo = @ \ {it}]
          PROVE  loop'.op = "reindex" /\ loop'.back = "reindex"
      BY <1>0, <3>1, <3>3 DEF Loop
    <3>4. ASSUME NEW it \in loop.todo,
                 loop' = [loop EXCEPT !.op = "enqueue", !.id = it.id, !.force = it.force,
                                      !.todo = @ \ {it}]
          PROVE  loop'.op = "enqueue" /\ loop'.back = "reindex"
      BY <1>0, <3>1, <3>4 DEF Loop
    <3> QED
      BY <1>5, <3>2, <3>3, <3>4 DEF ReindexKbNext
  <2> QED
    BY <1>2, <1>5, <2>1, SameWork, LoopStepAsked DEF ReindexKbNext, redis, history, FailOp
<1>6. CASE Enqueue
  <2>0. UNCHANGED <<queue, job, asked, status>>
    BY <1>6 DEF Enqueue, redis, history, rows
  <2>1. CASE Return
    BY <1>0, <1>2, <2>0, <2>1, ReturnAsked
  <2>2. CASE Goto("push") /\ status[loop.id] \in {"running", "deleting"}
    <3>1. d # loop.id
      BY <1>2, <1>6, <2>2 DEF Owned, InHand, InHandOp, HandStatus, Enqueue, Status, RowStatus,
                             StableStatus, ActiveStatus
    <3>2. loop'.id = loop.id
      BY <1>0, <2>2 DEF Goto, Loop
    <3> QED
      BY <1>2, <2>0, <3>1, <3>2, SameWork, LoopStepAsked
  <2>3. CASE Goto("setPending") /\ status[loop.id] \notin {"none", "deleted"}
    <3>1. loop'.op = "setPending" /\ loop'.id = loop.id /\ loop'.back = loop.back
      BY <1>0, <2>3 DEF Goto, Loop
    <3>2. loop'.id = d => loop'.back # "drain" /\ status'[d] # "deleted"
      BY <1>2, <1>6, <2>0, <2>3, <3>1 DEF Asking, Enqueue
    <3> QED
      BY <1>2, <2>0, <3>1, <3>2, SameWork, LoopStepAsked DEF FailOp
  <2> QED
    BY <1>6, <2>1, <2>2, <2>3 DEF Enqueue
<1>7. CASE SetPending
  <2>1. loop.op = "setPending" /\ loop.id \in DocIds /\ UNCHANGED <<queue, job>>
    BY <1>0, <1>7 DEF SetPending, Shape, LoopShape, InHandOp, redis
  <2>2. /\ loop'.op = "push" /\ loop'.id = loop.id /\ loop'.back = loop.back
        /\ loop'.kind = loop.kind /\ loop.kind \in Kind
    BY <1>0, <1>7 DEF SetPending, Goto, Loop
  <2>3. CASE d # loop.id
    <3>1. asked'[d] = asked[d]
      BY <1>0, <1>7, <2>3 DEF SetPending, TypeOK
    <3> QED
      BY <1>2, <2>1, <2>2, <2>3, <3>1, SameWork, LoopStepAsked
  <2>4. CASE d = loop.id
    <3>1. loop.back # "drain" /\ ~Queued(d) /\ ~HasJob(d)
      BY <1>2, <2>1, <2>4 DEF Asking, Owned, InHand, InHandOp
    <3>2. asked'[d] = Accepted
      BY <1>0, <1>7, <2>4, <3>1 DEF SetPending, TypeOK
    <3>3. Fits(loop.kind, d)'
      BY <2>2, <3>2 DEF Fits, Accepted, Kind
    <3>4. ~Queued(d)' /\ ~HasJob(d)'
      BY <2>1, <3>1 DEF Queued, Positions, HasJob, JobsOf
    <3> QED
      BY <2>2, <3>1, <3>3, <3>4 DEF Asking, Queued, HasJob, BeingFailed, FailOp
  <2> QED
    BY <2>3, <2>4
<1>8. CASE Push
  BY <1>0, <1>2, <1>8, PushAsked
<1>9. CASE FailPurge
  <2>1. loop'.op = "failMark" /\ loop'.id = loop.id /\ loop.op = "failPurge"
    BY <1>0, <1>9 DEF FailPurge, Goto, Loop
  <2>2. UNCHANGED <<queue, job, asked, status>>
    BY <1>9 DEF FailPurge, redis, history, rows
  <2>3. loop'.id = d => status'[d] \in ActiveStatus
    BY <1>2, <2>1, <2>2 DEF Asking, BeingFailed, FailOp, IsActive, RowStatus
  <2> QED
    BY <1>2, <2>1, <2>2, <2>3, SameWork, LoopStepAsked
<1>10. CASE FailMark
  <2>1. /\ loop.op = "failMark" /\ loop.id \in DocIds /\ loop.back = "idle"
        /\ UNCHANGED <<queue, job>>
    BY <1>0, <1>10 DEF FailMark, Shape, LoopShape, FailOp, redis
  <2>2. loop'.op \in {"idle", "enqueue"} /\ loop'.back = "idle"
    BY <1>0, <1>10, <2>1 DEF FailMark, IdleLoop, Loop
  <2>3. CASE d # loop.id
    <3>1. asked'[d] = asked[d]
      BY <1>0, <1>10, <2>3 DEF FailMark, TypeOK
    <3> QED
      BY <1>2, <2>1, <2>2, <3>1, SameWork, LoopStepAsked DEF FailOp
  <2>4. CASE d = loop.id
    <3>1. ~Queued(d)' /\ ~HasJob(d)'
      BY <1>2, <2>1, <2>4 DEF Owned, BeingFailed, FailOp, Queued, Positions, HasJob, JobsOf
    <3> QED
      BY <2>2, <3>1 DEF Asking, Queued, HasJob, BeingFailed, FailOp
  <2> QED
    BY <2>3, <2>4
<1> QED
  BY <1>3, <1>4, <1>5, <1>6, <1>7, <1>8, <1>9, <1>10 DEF Handle

-----------------------------------------------------------------------------
(* The worker. *)

LEMMA TakeAsked ==
  ASSUME TypeOK, Shape, Take, NEW d \in DocIds, Asking(d)
  PROVE  Asking(d)'
<1> DEFINE k0 == loop.kind
           q == queue[k0]
           e == Head(q)
<1>1. k0 \in Kind /\ q \in Seq(Item) /\ q # <<>> /\ loop.op = "take" /\ UNCHANGED <<job, asked, status>>
  BY LoopTyped DEF Take, TypeOK, rows, history
<1>2. queue'[k0] = Tail(q) /\ \A k \in Kind \ {k0} : queue'[k] = queue[k]
  BY <1>1 DEF Take, TypeOK
<1>3. /\ \A i \in Positions(Tail(q), d) : i + 1 \in Positions(q, d)
      /\ e.id = d => 1 \in Positions(q, d)
  BY <1>1, TailPositions
<1>4. loop' = loop \/ (loop'.op = "claim" /\ loop'.id = e.id /\ loop'.kind = k0)
  BY LoopTyped DEF Take, TypeOK, Loop
<1> HIDE DEF k0, q, e
<1>5. \A k \in Kind : \A i \in Positions(queue'[k], d) : Fits(k, d)
  BY <1>1, <1>2, <1>3 DEF Asking, q
<1>6. e.id = d => Fits(k0, d)
  BY <1>1, <1>3 DEF Asking, q
<1>7. \A k \in Kind : \A i \in Positions(queue[k], d)' : Fits(k, d)'
  BY <1>1, <1>5 DEF Fits, Positions
<1>8. \A j \in JobsOf(d)' : Fits(job[j].kind, d)'
  BY <1>1 DEF Asking, JobsOf, Fits
<1>9. loop'.id = d /\ loop'.op \in {"push", "claim"} => Fits(loop.kind, d)'
  BY <1>1, <1>4, <1>6 DEF Fits
<1>10. loop'.op \in {"take", "claim"}
  BY <1>1, <1>4
<1> QED
  BY <1>7, <1>8, <1>9, <1>10 DEF Asking, BeingFailed, FailOp

\* The worker's steps: what it pops, and what it starts, was asked.
LEMMA PollAsked ==
  ASSUME AskedInv, Poll, NEW d \in DocIds, ~Overridden(d)'
  PROVE  Asking(d)'
<1>0. TypeOK /\ Shape /\ loop \in Loop
  BY DEF AskedInv, OwnershipInv, TypeOK
<1>1. ~Overridden(d) /\ asked' = asked
  BY DEF Poll, Overridden, history, PollBegin, DrainNext, DrainDone, Take, Claim, ListDone, TakeError
<1>2. Asking(d) /\ Owned(d)
  BY <1>1, AskedOne DEF AskedInv, OwnershipInv
<1>3. CASE PollBegin
  <2>1. ~InHand(d)' /\ ~BeingFailed(d)'
    BY <1>0, <1>2, <1>3, DrainOwnsNothing DEF PollBegin, Kind
  <2> QED
    BY <1>1, <1>2, <1>3, <2>1, ReleasedAsked DEF PollBegin
<1>4. CASE DrainNext
  <2>1. PICK it \in loop.todo :
          loop' = [loop EXCEPT !.id = it.id, !.force = it.force, !.todo = @ \ {it},
                     !.op = IF status[it.id] \in {"running", "deleting"}
                            THEN "push" ELSE "setPending"]
    BY <1>4 DEF DrainNext
  <2>2. loop.back = "drain"
    BY <1>0, <1>4 DEF DrainNext, Shape, LoopShape
  <2>3. loop'.id # d
    BY <1>0, <1>2, <2>1, <2>2 DEF Owned, Draining, Loop
  <2> QED
    BY <1>1, <1>2, <1>4, <2>3, SameWork, LoopStepAsked DEF DrainNext, redis
<1>5. CASE DrainDone
  <2>1. ~InHand(d)' /\ ~BeingFailed(d)'
    <3>1. CASE TakeReady("delete")
      BY <1>0, <1>2, <3>1, DrainOwnsNothing DEF Kind
    <3>2. CASE loop' = [IdleLoop EXCEPT !.op = "take"]
      BY <3>2 DEF IdleLoop, InHand, BeingFailed, InHandOp, FailOp
    <3> QED
      BY <1>5, <3>1, <3>2 DEF DrainDone
  <2> QED
    BY <1>1, <1>2, <1>5, <2>1, ReleasedAsked DEF DrainDone
<1>6. CASE Take
  BY <1>0, <1>2, <1>6, TakeAsked
<1>7. CASE Claim
  <2>1. PICK j \in Jobs : job[j].pc = "free" /\ job' = [job EXCEPT ![j] = NewJob(loop.kind, loop)]
    BY <1>7 DEF Claim
  <2>2. loop.op = "claim" /\ loop'.op = "take" /\ UNCHANGED queue
    BY <1>0, <1>7 DEF Claim, Loop, redis
  <2>3. /\ \A i \in Jobs \ {j} : job'[i] = job[i]
        /\ job'[j].kind = loop.kind /\ job'[j].id = loop.id
    BY <1>0, <2>1 DEF TypeOK, NewJob, FreeJob
  <2>4. ASSUME NEW i \in JobsOf(d)'
        PROVE  (i = j /\ loop.id = d) \/ (i \in JobsOf(d) /\ job'[i].kind = job[i].kind)
    BY <2>3, <2>4 DEF JobsOf
  <2>5. \A i \in JobsOf(d)' : Fits(job[i].kind, d)'
    BY <1>1, <1>2, <2>2, <2>3, <2>4 DEF Asking, Fits
  <2>6. \A k \in Kind : \A i \in Positions(queue[k], d)' : Fits(k, d)'
    BY <1>1, <1>2, <2>2 DEF Asking, Fits, Positions
  <2> QED
    BY <2>2, <2>5, <2>6 DEF Asking, BeingFailed, FailOp
<1>8. CASE ListDone
  <2>1. ~InHand(d)' /\ ~BeingFailed(d)'
    BY <1>0, <1>2, <1>8, NextListOwned DEF ListDone
  <2> QED
    BY <1>1, <1>2, <1>8, <2>1, ReleasedAsked DEF ListDone
<1>9. CASE TakeError
  <2> DEFINE k0 == loop.kind
             q == queue[k0]
             r == Append(Tail(q), Head(q))
  <2>1. /\ ~InHand(d)' /\ ~BeingFailed(d)'
    BY <1>0, <1>2, <1>9, NextListOwned DEF TakeError
  <2>2. k0 \in Kind /\ q \in Seq(Item) /\ q # <<>> /\ UNCHANGED job
    BY <1>0, <1>9, LoopTyped DEF TakeError, TypeOK
  <2>3. queue'[k0] = r /\ \A k \in Kind \ {k0} : queue'[k] = queue[k]
    BY <1>0, <1>9, <2>2 DEF TakeError, TypeOK
  <2>4. \A i \in DOMAIN r : \E m \in DOMAIN q : r[i] = q[m]
    <3> HIDE DEF k0, q
    <3>1. /\ DOMAIN q = 1 .. Len(q) /\ Len(q) \in Nat /\ Len(q) # 0 /\ Head(q) = q[1]
          /\ Tail(q) \in Seq(Item) /\ Len(Tail(q)) = Len(q) - 1 /\ Head(q) \in Item
          /\ \A i \in 1 .. Len(q) - 1 : Tail(q)[i] = q[i + 1]
      BY <2>2
    <3>2. DOMAIN r = 1 .. Len(q) /\ r[Len(q)] = q[1] /\ \A i \in 1 .. Len(q) - 1 : r[i] = q[i + 1]
      BY <3>1
    <3> QED
      BY <3>1, <3>2
  <2> HIDE DEF r
  <2>5. Positions(r, d) = {} \/ Positions(q, d) # {}
    BY <2>4 DEF Positions
  <2>6. \A k \in Kind : Positions(queue[k], d)' = {} \/ Positions(queue[k], d) # {}
    BY <2>2, <2>3, <2>5 DEF Positions
  <2>7. loop'.id = d => loop'.op \notin {"push", "claim", "setPending", "enqueue"} \cup FailOp
    BY <2>1 DEF InHand, BeingFailed, InHandOp
  <2>8. \A j \in JobsOf(d)' : j \in JobsOf(d) /\ job'[j].kind = job[j].kind
    BY <2>2 DEF JobsOf
  <2> QED
    BY <1>1, <1>2, <2>6, <2>7, <2>8, LoopStepAsked
<1> QED
  BY <1>3, <1>4, <1>5, <1>6, <1>7, <1>8, <1>9 DEF Poll

-----------------------------------------------------------------------------
(* Tasks and pipelines. *)

\* What a thread does to the work: it moves its own job on or ends it.
JobMoves(j) ==
  /\ UNCHANGED <<queue, delayed, loop, asked>>
  /\ job[j].pc # "free" /\ job[j].id \in DocIds
  /\ \A i \in Jobs \ {j} : job'[i] = job[i]
  /\ job'[j].pc = "free" \/ (job'[j].kind = job[j].kind /\ job'[j].id = job[j].id)
  /\ overridden \subseteq overridden'

\* A task that gets its permit moves one step in its own job.
LEMMA StartMoves ==
  ASSUME TypeOK, Shape, NEW j \in Jobs, StartTask(j)
  PROVE  JobMoves(j) /\ status' = status /\ overridden' = overridden
<1>1. job[j].pc = "wait" /\ Step(j, "load") /\ "load" \in PC
  BY DEF StartTask, Step, PC
<1>2. job[j].id \in DocIds
  BY <1>1 DEF Shape, JobShape
<1> QED
  BY <1>1, <1>2, StepEffect DEF JobMoves, StartTask, redis, rows, history, Overridden

\* A pipeline thread moves one step in its own job, or frees it.
LEMMA PipelineMoves ==
  ASSUME TypeOK, Shape, NEW j \in Jobs, JobStep(j)
  PROVE  JobMoves(j)
<1>1. UNCHANGED <<queue, delayed, loop, asked>>
  BY DEF JobStep, IngestStep, DeleteStep, IngestLoad, IngestBegin, Parse, Detect, Identical,
         Resolve, MoveChunks, PurgeOther, RetireOther, Embed, Clear, Insert, SetIndexed,
         DeleteLoad, SetDeleting, DeleteChunks, DeleteFile, DeleteRow, Fail, SetFailed,
         apiVars, redis
<1>2. job[j].pc # "free" /\ job[j].id \in DocIds
  <2>1. job[j].pc # "free"
    BY DEF JobStep, IngestStep, DeleteStep, IngestLoad, IngestBegin, Parse, Detect, Identical,
           Resolve, MoveChunks, PurgeOther, RetireOther, Embed, Clear, Insert, SetIndexed,
           DeleteLoad, SetDeleting, DeleteChunks, DeleteFile, DeleteRow, Fail, SetFailed, At
  <2> QED
    BY <2>1 DEF Shape, JobShape
<1>3. overridden \subseteq overridden'
  BY DEF Override, JobStep, IngestStep, DeleteStep, IngestLoad, IngestBegin,
         Parse, Detect, Identical, Resolve, MoveChunks, PurgeOther, RetireOther, Embed, Clear,
         Insert, SetIndexed, DeleteLoad, SetDeleting, DeleteChunks, DeleteFile, DeleteRow, Fail,
         SetFailed
<1> DEFINE Moves == /\ \A i \in Jobs \ {j} : job'[i] = job[i]
                    /\ job'[j].pc = "free" \/ (job'[j].kind = job[j].kind /\ job'[j].id = job[j].id)
<1>e. ASSUME End(j) PROVE Moves
  BY <1>e, EndEffect
<1>s. ASSUME NEW pc \in PC, Step(j, pc) PROVE Moves
  BY <1>s, StepEffect
<1>r. ASSUME NEW r, job' = [job EXCEPT ![j] = r], r.id = job[j].id, r.kind = job[j].kind PROVE Moves
  BY <1>r DEF TypeOK
<1> HIDE DEF Moves
<1>4. \A pc \in {"begin", "fail", "parse", "embed", "moveChunks", "purgeOther", "retireMoved",
                  "retireOther", "indexMoved", "clear", "insert", "index", "failed", "purge",
                  "row", "file"} : pc \in PC
  BY DEF PC, IngestPC, DeletePC, FailPC
<1>5. ASSUME IngestLoad(j) \/ IngestBegin(j) \/ Identical(j) \/ Resolve(j) \/ Embed(j) \/ SetIndexed(j) PROVE Moves
  BY <1>5, <1>4, <1>e, <1>s DEF IngestLoad, IngestBegin, Identical, Resolve, MarkOutdated, Embed,
                               SetIndexed
<1>6. ASSUME MoveChunks(j) \/ PurgeOther(j) \/ RetireOther(j) \/ Clear(j) \/ Insert(j) PROVE Moves
  BY <1>6, <1>4, <1>s DEF MoveChunks, PurgeOther, RetireOther, Clear, Insert
<1>7. ASSUME SetDeleting(j) \/ DeleteChunks(j) \/ DeleteFile(j) \/ DeleteRow(j) \/ Fail(j) \/ SetFailed(j) PROVE Moves
  BY <1>7, <1>4, <1>e, <1>s DEF SetDeleting, DeleteChunks, DeleteFile, DeleteRow, Fail, SetFailed
<1>8. ASSUME Parse(j) PROVE Moves
  <2> DEFINE r == [job[j] EXCEPT !.pc = "dedup", !.ver = s3[SourceOf[Doc(j)]]]
  <2>1. r.id = job[j].id /\ r.kind = job[j].kind
    BY JobTyped DEF Job
  <2>2. job' = [job EXCEPT ![j] = r] \/ Step(j, "fail")
    BY <1>8 DEF Parse
  <2> HIDE DEF r
  <2> QED
    BY <1>4, <1>r, <1>s, <2>1, <2>2
<1>9. ASSUME Detect(j) PROVE Moves
  <2>1. ASSUME Step(j, "fail") \/ Step(j, "embed") PROVE Moves
    BY <1>4, <1>s, <2>1
  <2>2. ASSUME NEW e \in DocIds, NEW pc, job' = [job EXCEPT ![j].pc = pc, ![j].dup = e]
        PROVE  Moves
    <3> DEFINE r == [job[j] EXCEPT !.pc = pc, !.dup = e]
    <3>1. r.id = job[j].id /\ r.kind = job[j].kind /\ job' = [job EXCEPT ![j] = r]
      BY <2>2, JobTyped DEF Job
    <3> HIDE DEF r
    <3> QED
      BY <1>r, <3>1
  <2> QED
    BY <1>9, <2>1, <2>2 DEF Detect, Candidates
<1>10. ASSUME DeleteLoad(j) PROVE Moves
  <2> DEFINE r == [job[j] EXCEPT !.pc = "mark", !.was = status[Doc(j)]]
  <2>1. r.id = job[j].id /\ r.kind = job[j].kind
    BY JobTyped DEF Job
  <2>2. job' = [job EXCEPT ![j] = r] \/ End(j)
    BY <1>10 DEF DeleteLoad
  <2> HIDE DEF r
  <2> QED
    BY <1>e, <1>r, <2>1, <2>2
<1>11. Moves
  BY <1>5, <1>6, <1>7, <1>8, <1>9, <1>10 DEF JobStep, IngestStep, DeleteStep
<1> QED
  BY <1>1, <1>2, <1>3, <1>11 DEF JobMoves, Moves

\* What a thread does to the statuses: it writes its own document's, or retires
\* the duplicate's.
JobWrites(j) ==
  \/ UNCHANGED status
  \/ /\ UNCHANGED overridden /\ job[j].kind = "upload"
     /\ \E st \in {"running", "indexed", "failed", "outdated"} : UpdateStatus(job[j].id, st)
  \/ /\ UNCHANGED overridden /\ job[j].kind = "delete" /\ job[j].pc = "mark"
     /\ UpdateStatus(job[j].id, "deleting")
  \/ /\ UNCHANGED overridden /\ job[j].kind = "delete" /\ job[j].pc \notin {"wait", "load", "mark"}
     /\ \E st \in {"none", "deleted", "failed"} : UpdateStatus(job[j].id, st)
  \/ /\ job[j].kind = "upload" /\ job[j].dup \in DocIds
     /\ UpdateStatus(job[j].dup, "outdated")
     /\ Override(job[j].dup, Stale(job[j].dup))

\* A pipeline writes its own document and the duplicate it retires, as JobWrites says.
LEMMA PipelineWrites ==
  ASSUME TypeOK, Shape, NEW j \in Jobs, JobStep(j)
  PROVE  JobWrites(j)
<1> USE DEF At, Doc
<1>k. job[j].pc \in IngestPC => job[j].kind = "upload"
  BY DEF Shape, JobShape
<1>l. job[j].pc \in DeletePC => job[j].kind = "delete"
  BY DEF Shape, JobShape
<1>m. job[j].kind \in {"upload", "delete"}
  BY JobTyped DEF Kind
<1>1. CASE UNCHANGED status
  BY <1>1 DEF JobWrites
<1>2. CASE IngestBegin(j) \/ SetIndexed(j)
  BY <1>2, <1>k DEF IngestBegin, SetIndexed, IngestPC, JobWrites
<1>3. CASE Identical(j) \/ Resolve(j)
  <2>1. UNCHANGED overridden /\ job[j].kind = "upload"
    BY <1>3, <1>k DEF Identical, Resolve, IngestPC
  <2>2. UNCHANGED status \/ UpdateStatus(job[j].id, "outdated")
    BY <1>3 DEF Identical, Resolve, MarkOutdated
  <2> QED
    BY <2>1, <2>2 DEF JobWrites
<1>4. CASE RetireOther(j)
  <2>1. job[j].kind = "upload" /\ job[j].dup \in DocIds
    BY <1>4, <1>k DEF RetireOther, IngestPC, DupPC, Shape, JobShape
  <2> QED
    BY <1>4, <2>1 DEF RetireOther, Dup, JobWrites
<1>5. CASE SetDeleting(j)
  BY <1>5, <1>l DEF SetDeleting, DeletePC, JobWrites
<1>6. CASE DeleteRow(j)
  <2>1. UNCHANGED overridden /\ job[j].kind = "delete" /\ job[j].pc = "row"
    BY <1>6, <1>l DEF DeleteRow, DeletePC
  <2>2. UpdateStatus(job[j].id, "deleted") \/ UpdateStatus(job[j].id, "none")
    BY <1>6 DEF DeleteRow
  <2> QED
    BY <2>1, <2>2 DEF JobWrites
<1>7. CASE SetFailed(j)
  BY <1>7, <1>m DEF SetFailed, JobWrites
<1>8. UNCHANGED status \/ IngestBegin(j) \/ SetIndexed(j) \/ Identical(j) \/ Resolve(j)
        \/ RetireOther(j) \/ SetDeleting(j) \/ DeleteRow(j) \/ SetFailed(j)
  BY DEF JobStep, IngestStep, DeleteStep, IngestLoad, Parse, Detect, MoveChunks, PurgeOther,
         Embed, Clear, Insert, DeleteLoad, DeleteChunks, DeleteFile, Fail
<1> QED
  BY <1>1, <1>2, <1>3, <1>4, <1>5, <1>6, <1>7, <1>8

\* A document that the thread does not work on keeps its status, or was at rest
\* and is retired.
LEMMA OthersStatus ==
  ASSUME TypeOK, NEW j \in Jobs, JobWrites(j), NEW d \in DocIds, d # job[j].id, ~Overridden(d)'
  PROVE  \/ status'[d] = status[d]
         \/ status[d] = "indexed" /\ status'[d] = "outdated"
<1>1. CASE UNCHANGED status
  BY <1>1
<1>2. ASSUME NEW st \in Status, UpdateStatus(job[j].id, st) PROVE status'[d] = status[d]
  BY <1>2, UpdateTyped
<1>3. CASE UpdateStatus(job[j].dup, "outdated") /\ Override(job[j].dup, Stale(job[j].dup))
  <2>1. status'[d] = IF d = job[j].dup /\ HasRow(d) THEN "outdated" ELSE status[d]
    BY <1>3, UpdateTyped DEF Status, RowStatus, StableStatus
  <2>2. d = job[j].dup => status[d] = "indexed"
    BY <1>3 DEF Override, Overridden, Stale
  <2> QED
    BY <2>1, <2>2
<1>4. \A st \in {"running", "outdated", "indexed", "failed", "deleting", "deleted", "none"} :
        st \in Status
  BY DEF Status, RowStatus, StableStatus, ActiveStatus
<1> QED
  BY <1>1, <1>2, <1>3, <1>4 DEF JobWrites

\* Tasks and pipelines leave what was asked alone and start nothing.
LEMMA JobAsked ==
  ASSUME AskedInv, NEW j \in Jobs, JobMoves(j), JobWrites(j), NEW d \in DocIds, ~Overridden(d)'
  PROVE  Asking(d)'
<1>1. TypeOK /\ Asking(d) /\ Owned(d) /\ ~Overridden(d)
  BY AskedOne DEF AskedInv, OwnershipInv, JobMoves, Overridden
<1>2. UNCHANGED <<queue, loop, asked>>
  BY DEF JobMoves
<1>3. \A i \in JobsOf(d)' : i \in JobsOf(d) /\ job'[i].kind = job[i].kind
  BY DEF JobMoves, JobsOf
<1>4. d = job[j].id => HasJob(d)
  BY DEF JobMoves, HasJob, JobsOf
<1>5. InHand(d) \/ BeingFailed(d) =>
        status'[d] = status[d] \/ (status[d] = "indexed" /\ status'[d] = "outdated")
  BY <1>1, <1>4, OthersStatus DEF Owned
<1>6. loop.id = d /\ loop.op = "setPending" => status'[d] # "deleted"
  BY <1>1, <1>5 DEF Asking, InHand, InHandOp
<1>7. BeingFailed(d) => status'[d] \in ActiveStatus
  BY <1>1, <1>5 DEF Asking, IsActive, StableStatus, ActiveStatus, RowStatus
<1>8. loop'.id = d =>
        /\ loop'.op \in {"push", "claim"} => Fits(loop'.kind, d)
        /\ loop'.op = "setPending" => status'[d] # "deleted"
        /\ loop'.op \in {"enqueue", "setPending", "push"} => loop'.back # "drain"
        /\ loop'.op \in FailOp => status'[d] \in ActiveStatus
  BY <1>1, <1>2, <1>6, <1>7 DEF Asking, BeingFailed
<1>9. \A k \in Kind : Positions(queue[k], d)' = {} \/ Positions(queue[k], d) # {}
  BY <1>2 DEF Positions
<1> QED
  BY <1>1, <1>2, <1>3, <1>8, <1>9, LoopStepAsked

\* A crash takes tasks and loses the loop; what is left was asked.
LEMMA CrashAsked ==
  ASSUME AskedInv, Crash, NEW d \in DocIds, ~Overridden(d)'
  PROVE  Asking(d)'
<1>1. /\ ~Overridden(d) /\ UNCHANGED <<queue, asked>>
      /\ loop'.op = "idle" /\ \A j \in Jobs : job'[j].pc = "free"
  BY DEF Crash, Overridden, history, redis, IdleLoop, FreeJob
<1>2. Asking(d)
  BY <1>1, AskedOne DEF AskedInv
<1>3. /\ \A k \in Kind : Positions(queue[k], d)' = {} \/ Positions(queue[k], d) # {}
      /\ JobsOf(d)' = {}
  BY <1>1 DEF Positions, JobsOf
<1> QED
  BY <1>1, <1>2, <1>3, LoopStepAsked DEF FailOp

\* Whatever is queued, held or run for a document was asked for last, for every
\* number of documents, requests, crashes and overrides of other documents.
LEMMA AskedInvHolds == Spec => []AskedInv
<1>1. Init => WorkIsAsked
  <2> SUFFICES ASSUME Init, NEW d \in DocIds PROVE Asking(d)
    BY AskedAll
  <2>1. (\A k \in Kind : queue[k] = <<>>) /\ loop = IdleLoop /\ \A j \in Jobs : job[j].pc = "free"
    BY DEF Init, FreeJob
  <2>2. JobsOf(d) = {} /\ \A k \in Kind : Positions(queue[k], d) = {}
    BY <2>1 DEF JobsOf, Positions
  <2> QED
    BY <2>1, <2>2 DEF Asking, IdleLoop, BeingFailed, FailOp
<1>2. AskedInv /\ [Next]_vars => WorkIsAsked'
  <2> SUFFICES ASSUME AskedInv, [Next]_vars, NEW d \in DocIds, ~Overridden(d)' PROVE Asking(d)'
    BY DEF WorkIsAsked, Asking
  <2>0. TypeOK /\ Shape
    BY DEF AskedInv, OwnershipInv
  <2>1. CASE UNCHANGED vars
    <3>1. UNCHANGED <<queue, job, status, loop, asked, overridden>>
      BY <2>1 DEF vars, rows, redis, history
    <3>2. Asking(d)
      BY <3>1, AskedOne DEF AskedInv, Overridden
    <3> QED
      BY <3>1, <3>2 DEF Asking, Fits, Positions, JobsOf, BeingFailed, IsActive
  <2>2. CASE Request
    BY <2>2, RequestAsked
  <2>3. CASE Handle
    BY <2>3, HandleAsked
  <2>4. CASE Poll
    BY <2>4, PollAsked
  <2>5. ASSUME NEW j \in Jobs, StartTask(j) PROVE Asking(d)'
    BY <2>0, <2>5, StartMoves, JobAsked DEF JobWrites
  <2>6. ASSUME NEW j \in Jobs, JobStep(j) PROVE Asking(d)'
    BY <2>0, <2>6, PipelineMoves, PipelineWrites, JobAsked
  <2>7. CASE Crash
    BY <2>7, CrashAsked
  <2> QED
    BY <2>1, <2>2, <2>3, <2>4, <2>5, <2>6, <2>7 DEF Next
<1>3. Init /\ OwnershipInv => AskedInv
  BY <1>1 DEF AskedInv
<1>4. AskedInv /\ [Next]_vars /\ OwnershipInv' => AskedInv'
  BY <1>2 DEF AskedInv
<1> QED
  BY OwnershipHolds, <1>3, <1>4, PTL DEF Spec

\* However crashes leave the lists and tasks behind, only the last accepted
\* request of a document is ever queued, held or worked on, and only unfinished
\* work is given up.
THEOREM WorkIsAskedHolds == Spec => []WorkIsAsked
<1>1. AskedInv => WorkIsAsked
  BY DEF AskedInv
<1> QED
  BY AskedInvHolds, <1>1, PTL

-----------------------------------------------------------------------------
(* The refinement. *)

\* No document nobody overrode changes before a client's eyes.
LEMMA FlowQuiet ==
  ASSUME overridden \subseteq overridden',
         \A d \in DocIds : ~Overridden(d)' => status'[d] = status[d] /\ asked'[d] = asked[d]
  PROVE  Flow!Next
<1>1. {d \in DocIds : Overridden(d)} \subseteq {d \in DocIds : Overridden(d)}'
  BY DEF Overridden
<1>2. \A d \in DocIds \ {e \in DocIds : Overridden(e)}' : ~Overridden(d)'
  OBVIOUS
<1>3. Flow!Override
  BY <1>1, <1>2 DEF Flow!Override
<1> QED
  BY <1>3 DEF Flow!Next

\* One document takes a step of the documented flow.
LEMMA FlowStep ==
  ASSUME NEW d \in DocIds, NEW st, status' = [status EXCEPT ![d] = st], UNCHANGED overridden,
         \/ /\ asked' = asked
            /\ \/ Settled(d) /\ st = "uploading"
               \/ status[d] = "uploading" /\ st = "pending"
               \/ status[d] = "pending" /\ asked[d] = "ingest" /\ st = "running"
               \/ /\ status[d] = "running" /\ asked[d] = "ingest"
                  /\ st \in {"indexed", "failed", "outdated"}
               \/ /\ status[d] = "pending" /\ asked[d] \in {"delete", "softDelete"}
                  /\ st = "deleting"
               \/ /\ status[d] = "deleting" /\ asked[d] \in {"delete", "softDelete"}
                  /\ st \in {"none", "deleted", "failed"}
               \/ /\ status[d] = "indexed" /\ st = "outdated"
                  /\ \E e \in DocIds : status[e] = "running" \/ Overridden(e)
         \/ /\ status[d] \notin {"none", "deleted", "running", "deleting"} /\ st = "pending"
            /\ \E r \in {"ingest", "delete", "softDelete"} : asked' = [asked EXCEPT ![d] = r]
         \/ ~Settled(d) /\ st = "failed" /\ asked' = [asked EXCEPT ![d] = "fail"]
  PROVE  Flow!Next
<1>1. {e \in DocIds : Overridden(e)}' = {e \in DocIds : Overridden(e)}
  BY DEF Overridden
<1>2. Settled(d) <=> Flow!AtRest(d)
  BY DEF Settled, StableStatus, Flow!AtRest
<1>3. Flow!Becomes(d, st)
  BY <1>1 DEF Flow!Becomes
<1>4. \/ Flow!Upload(d) \/ Flow!Stored(d) \/ Flow!Accept(d) \/ Flow!StartIngest(d)
      \/ Flow!EndIngest(d) \/ Flow!StartDelete(d) \/ Flow!EndDelete(d) \/ Flow!Retire(d)
      \/ Flow!GiveUp(d)
  BY <1>2, <1>3 DEF Flow!Upload, Flow!Stored, Flow!Accept, Flow!StartIngest, Flow!EndIngest,
       Flow!StartDelete, Flow!EndDelete, Flow!Retire, Flow!GiveUp, Flow!Ingests, Flow!Deletes
<1> QED
  BY <1>4 DEF Flow!Next

\* A writer whose own document was overridden shows nothing that was promised.
LEMMA FlowHidden ==
  ASSUME NEW d, NEW st, UpdateStatus(d, st), d \in DocIds => Overridden(d),
         UNCHANGED overridden, TypeOK,
         \A e \in DocIds \ {d} : asked'[e] = asked[e]
  PROVE  Flow!Next
<1>1. \A e \in DocIds : ~Overridden(e)' => e # d
  BY DEF Overridden
<1>2. \A e \in DocIds \ {d} : status'[e] = status[e]
  BY DEF UpdateStatus, TypeOK
<1> QED
  BY <1>1, <1>2, FlowQuiet

\* The handlers' first steps are requests of the abstract flow.
LEMMA RequestFlows ==
  ASSUME TypeOK, Request
  PROVE  Flow!Next
<1>1. ASSUME NEW d \in DocIds, UploadBegin(d) PROVE Flow!Next
  <2>1. Settled(d)
    <3>1. CASE d \notin used /\ RowOf(SourceOf[d]) = {}
      BY <3>1 DEF RowOf, HasRow, Settled
    <3>2. CASE HasRow(d) /\ ~IsActive(d)
      BY <3>2 DEF TypeOK, IsActive, Settled, Status, HasRow
    <3> QED
      BY <1>1, <3>1, <3>2 DEF UploadBegin
  <2> QED
    BY <1>1, <2>1, FlowStep DEF UploadBegin, history
<1>2. ASSUME UNCHANGED <<status, asked>>, overridden \subseteq overridden' PROVE Flow!Next
  BY <1>2, FlowQuiet
<1>3. ASSUME NEW d \in DocIds, ForceFailBegin(d) \/ RecoverBegin(d) PROVE Flow!Next
  BY <1>2, <1>3 DEF ForceFailBegin, RecoverBegin, Supersede, Override, rows
<1>4. ASSUME NEW d \in DocIds, NEW force \in BOOLEAN,
             DeleteBegin(d, force) \/ ReindexBegin(d, force) \/ ReindexKbBegin(force)
      PROVE  Flow!Next
  BY <1>2, <1>4 DEF DeleteBegin, ReindexBegin, ReindexKbBegin, rows, history
<1>5. ASSUME NEW force \in BOOLEAN, ReindexKbBegin(force) PROVE Flow!Next
  BY <1>2, <1>5 DEF ReindexKbBegin, rows, history
<1> QED
  BY <1>1, <1>3, <1>4, <1>5 DEF Request

\* The handlers' later steps are waits, failures or rests of the abstract flow, or hidden.
LEMMA HandleFlows ==
  ASSUME AskedInv, Handle
  PROVE  Flow!Next
<1>0. TypeOK /\ Shape /\ UNCHANGED overridden
  BY DEF AskedInv, OwnershipInv, Handle, history, UploadPut, UploadStage, ReindexKbNext,
         Enqueue, SetPending, Push, FailPurge, FailMark
<1>1. CASE UNCHANGED <<status, asked>>
  BY <1>0, <1>1, FlowQuiet
<1> DEFINE d == loop.id
<1>2. d \in DocIds /\ ~Overridden(d) => Asking(d) /\ Owned(d)
  BY AskedOne DEF AskedInv, OwnershipInv
<1>3. CASE UploadStage
  <2>1. /\ loop.op = "stage" /\ d \in DocIds /\ asked' = asked
        /\ UpdateStatus(d, "pending")
    BY <1>0, <1>3 DEF UploadStage, Shape, LoopShape, InHandOp, history
  <2>2. CASE Overridden(d)
    BY <1>0, <2>1, <2>2, FlowHidden
  <2>3. CASE ~Overridden(d)
    <3>1. status[d] = "uploading"
      BY <1>2, <2>1, <2>3 DEF Owned, InHand, InHandOp, HandStatus
    <3> QED
      BY <1>0, <2>1, <3>1, FlowStep DEF UpdateStatus, HasRow
  <2> QED
    BY <2>2, <2>3
<1>4. CASE SetPending
  <2>1. loop.op = "setPending" /\ d \in DocIds /\ UpdateStatus(d, "pending")
    BY <1>0, <1>4 DEF SetPending, Shape, LoopShape, InHandOp
  <2>2. CASE Overridden(d)
    <3>1. \A e \in DocIds \ {d} : asked'[e] = asked[e]
      BY <1>0, <1>4 DEF SetPending, TypeOK
    <3> QED
      BY <1>0, <2>1, <2>2, <3>1, FlowHidden
  <2>3. CASE ~Overridden(d)
    <3>1. /\ status[d] \in Status \ {"running", "deleting", "none"} /\ status[d] # "deleted"
          /\ loop.back # "drain"
      BY <1>2, <2>1, <2>3 DEF Owned, InHand, InHandOp, HandStatus, Asking
    <3>2. asked' = [asked EXCEPT ![d] = Accepted]
      BY <1>4, <3>1 DEF SetPending
    <3>3. Accepted \in {"ingest", "delete", "softDelete"}
      BY DEF Accepted
    <3>4. status' = [status EXCEPT ![d] = "pending"]
      BY <2>1, <3>1 DEF UpdateStatus, HasRow
    <3> QED
      BY <1>0, <2>1, <3>1, <3>2, <3>3, <3>4, FlowStep
  <2> QED
    BY <2>2, <2>3
<1>5. CASE FailMark
  <2>1. /\ loop.op = "failMark" /\ d \in DocIds /\ UpdateStatus(d, "failed")
        /\ asked' = [asked EXCEPT ![d] = "fail"]
    BY <1>0, <1>5 DEF FailMark, Shape, LoopShape, FailOp
  <2>2. CASE Overridden(d)
    <3>1. \A e \in DocIds \ {d} : asked'[e] = asked[e]
      BY <1>0, <2>1 DEF TypeOK
    <3> QED
      BY <1>0, <2>1, <2>2, <3>1, FlowHidden
  <2>3. CASE ~Overridden(d)
    <3>1. ~Settled(d) /\ HasRow(d)
      BY <1>2, <2>1, <2>3 DEF Asking, BeingFailed, FailOp, IsActive, Settled, HasRow, RowStatus,
                             StableStatus, ActiveStatus
    <3>2. status' = [status EXCEPT ![d] = "failed"]
      BY <2>1, <3>1 DEF UpdateStatus
    <3> QED
      BY <1>0, <2>1, <3>1, <3>2, FlowStep
  <2> QED
    BY <2>2, <2>3
<1>6. UNCHANGED <<status, asked>> \/ UploadStage \/ SetPending \/ FailMark
  BY DEF Handle, UploadPut, ReindexKbNext, Enqueue, Push, FailPurge, rows, history
<1> QED
  BY <1>1, <1>3, <1>4, <1>5, <1>6

\* The worker's steps begin the work of the abstract flow, or are hidden.
LEMMA PollFlows ==
  ASSUME AskedInv, Poll
  PROVE  Flow!Next
<1>0. TypeOK /\ Shape /\ UNCHANGED <<overridden, asked>>
  BY DEF AskedInv, OwnershipInv, Poll, history, PollBegin, DrainNext, DrainDone, Take, Claim,
         ListDone, TakeError
<1>1. CASE UNCHANGED status
  BY <1>0, <1>1, FlowQuiet
<1>2. CASE Claim /\ loop.kind = "upload"
  <2> DEFINE d == loop.id
  <2>1. loop.op = "claim" /\ d \in DocIds /\ UpdateStatus(d, "running")
    BY <1>0, <1>2 DEF Claim, Shape, LoopShape, InHandOp
  <2>2. CASE Overridden(d)
    BY <1>0, <2>1, <2>2, FlowHidden
  <2>3. CASE ~Overridden(d)
    <3>1. Asking(d) /\ Owned(d)
      BY <2>1, <2>3, AskedOne DEF AskedInv, OwnershipInv
    <3>2. asked[d] = "ingest"
      BY <1>2, <2>1, <3>1 DEF Asking, Fits
    <3>3. status[d] = "pending"
      BY <2>1, <3>1 DEF Owned, InHand, InHandOp, HandStatus
    <3> QED
      BY <1>0, <2>1, <3>2, <3>3, FlowStep DEF UpdateStatus, HasRow
  <2> QED
    BY <2>2, <2>3
<1>3. UNCHANGED status \/ (Claim /\ loop.kind = "upload")
  BY DEF Poll, PollBegin, DrainNext, DrainDone, Take, Claim, ListDone, TakeError, rows
<1> QED
  BY <1>1, <1>2, <1>3

\* The steps of tasks and pipelines are outcomes of the abstract flow, or hidden.
LEMMA JobFlows ==
  ASSUME AskedInv, NEW j \in Jobs, JobMoves(j), JobWrites(j)
  PROVE  Flow!Next
<1> DEFINE d == job[j].id
           e == job[j].dup
<1>0. TypeOK /\ d \in DocIds /\ asked' = asked
  BY DEF AskedInv, OwnershipInv, JobMoves
<1>1. CASE UNCHANGED <<status, overridden>>
  BY <1>0, <1>1, FlowQuiet
<1>2. ~Overridden(d) => /\ status[d] = JobStatus(j) /\ Fits(job[j].kind, d)
  <2> SUFFICES ASSUME ~Overridden(d) PROVE status[d] = JobStatus(j) /\ Fits(job[j].kind, d)
    OBVIOUS
  <2>1. Asking(d) /\ Owned(d) /\ j \in JobsOf(d)
    BY <1>0, AskedOne DEF AskedInv, OwnershipInv, JobMoves, JobsOf
  <2> QED
    BY <2>1 DEF Asking, Owned
<1>3. ASSUME NEW st, UpdateStatus(d, st), UNCHANGED overridden, Overridden(d) PROVE Flow!Next
  BY <1>0, <1>3, FlowHidden
<1>4. ASSUME NEW st \in {"running", "indexed", "failed", "outdated"}, UpdateStatus(d, st),
             UNCHANGED overridden, job[j].kind = "upload", ~Overridden(d)
      PROVE  Flow!Next
  <2>1. status[d] = "running" /\ asked[d] = "ingest"
    BY <1>2, <1>4 DEF JobStatus, Fits
  <2>2. status' = [status EXCEPT ![d] = st]
    BY <1>4, <2>1 DEF UpdateStatus, HasRow
  <2>3. CASE st = "running"
    BY <1>0, <1>1, <1>4, <2>1, <2>2, <2>3 DEF TypeOK
  <2>4. CASE st # "running"
    BY <1>0, <1>4, <2>1, <2>2, <2>4, FlowStep
  <2> QED
    BY <2>3, <2>4
<1>5. ASSUME UpdateStatus(d, "deleting"), UNCHANGED overridden, job[j].kind = "delete",
             job[j].pc = "mark", ~Overridden(d)
      PROVE  Flow!Next
  <2>1. status[d] = "pending" /\ asked[d] \in {"delete", "softDelete"}
    BY <1>2, <1>5 DEF JobStatus, Fits
  <2>2. status' = [status EXCEPT ![d] = "deleting"]
    BY <1>5, <2>1 DEF UpdateStatus, HasRow
  <2> QED
    BY <1>0, <1>5, <2>1, <2>2, FlowStep
<1>6. ASSUME NEW st \in {"none", "deleted", "failed"}, UpdateStatus(d, st), UNCHANGED overridden,
             job[j].kind = "delete", job[j].pc \notin {"wait", "load", "mark"}, ~Overridden(d)
      PROVE  Flow!Next
  <2>1. status[d] = "deleting" /\ asked[d] \in {"delete", "softDelete"}
    BY <1>2, <1>6 DEF JobStatus, Fits
  <2>2. status' = [status EXCEPT ![d] = st]
    BY <1>6, <2>1 DEF UpdateStatus, HasRow
  <2> QED
    BY <1>0, <1>6, <2>1, <2>2, FlowStep
<1>7. CASE /\ job[j].kind = "upload" /\ e \in DocIds /\ UpdateStatus(e, "outdated")
           /\ Override(e, Stale(e))
  <2>1. CASE Stale(e)
    <3>1. overridden' = overridden \cup {SourceOf[e]}
      BY <1>7, <2>1 DEF Override
    <3>2. \A x \in DocIds : ~Overridden(x)' => x # e
      BY <3>1 DEF Overridden
    <3>3. \A x \in DocIds \ {e} : status'[x] = status[x]
      BY <1>0, <1>7 DEF UpdateStatus, TypeOK
    <3> QED
      BY <1>0, <3>1, <3>2, <3>3, FlowQuiet
  <2>2. CASE ~Stale(e)
    <3>1. overridden' = overridden /\ status[e] = "indexed"
      BY <1>7, <2>2 DEF Override, Stale
    <3>2. status[d] = "running" \/ Overridden(d)
      BY <1>2, <1>7 DEF JobStatus
    <3>3. status' = [status EXCEPT ![e] = "outdated"]
      BY <1>7, <3>1 DEF UpdateStatus, HasRow
    <3>4. e \in DocIds
      BY <1>7
    <3> QED
      BY <1>0, <3>1, <3>2, <3>3, <3>4, FlowStep
  <2> QED
    BY <2>1, <2>2
<1>8. CASE UNCHANGED status
  <2>1. overridden \subseteq overridden'
    BY DEF JobMoves
  <2> QED
    BY <1>0, <1>8, <2>1, FlowQuiet
<1> QED
  BY <1>3, <1>4, <1>5, <1>6, <1>7, <1>8 DEF JobWrites

\* Every step of the detailed system is a step of the flow or leaves what it shows alone.
LEMMA StepFlows ==
  ASSUME AskedInv, [Next]_vars
  PROVE  [Flow!Next]_(Flow!flow)
<1>0. TypeOK /\ Shape
  BY DEF AskedInv, OwnershipInv
<1>1. CASE UNCHANGED vars
  BY <1>1 DEF vars, rows, history, Flow!flow, Overridden
<1>2. CASE Request
  BY <1>0, <1>2, RequestFlows
<1>3. CASE Handle
  BY <1>3, HandleFlows
<1>4. CASE Poll
  BY <1>4, PollFlows
<1>5. ASSUME NEW j \in Jobs, StartTask(j) PROVE Flow!Next
  BY <1>0, <1>5, StartMoves, JobFlows DEF JobWrites
<1>6. ASSUME NEW j \in Jobs, JobStep(j) PROVE Flow!Next
  BY <1>0, <1>6, PipelineMoves, PipelineWrites, JobFlows
<1>7. CASE Crash
  BY <1>7, FlowQuiet DEF Crash, rows, history
<1> QED
  BY <1>1, <1>2, <1>3, <1>4, <1>5, <1>6, <1>7 DEF Next

\* For every number of documents, jobs, requests and crashes, what the status
\* endpoint shows of the queues, tasks and stores is the documented flow.
THEOREM FlowImplemented == Spec => ImplementsFlow
<1>1. Init => Flow!Init
  BY DEF Init, Flow!Init, Overridden
<1>2. AskedInv /\ [Next]_vars => [Flow!Next]_(Flow!flow)
  BY StepFlows
<1> QED
  BY AskedInvHolds, <1>1, <1>2, PTL DEF Spec, ImplementsFlow, Flow!Spec

-----------------------------------------------------------------------------
(* What the flow alone guarantees carries over. *)

FlowOutcome ==
  /\ asked \in [DocIds -> Asked]
  /\ \A d \in DocIds : ~Overridden(d) /\ Settled(d) => status[d] \in Outcome(asked[d])

\* On the abstract flow, that a document at rest shows an outcome of its request is inductive.
LEMMA FlowKeepsOutcome ==
  ASSUME FlowOutcome, TypeOK, TypeOK', [Flow!Next]_(Flow!flow)
  PROVE  FlowOutcome'
<1>0. asked' \in [DocIds -> Asked]
  BY DEF TypeOK
<1> SUFFICES ASSUME NEW d \in DocIds, ~Overridden(d)', Settled(d)'
             PROVE  status'[d] \in Outcome(asked'[d])
  <2>1. \A d \in DocIds : Outcome(asked[d])' = Outcome(asked'[d])
    BY DEF Outcome
  <2> QED
    BY <1>0, <2>1 DEF FlowOutcome
<1>1. ASSUME ~Overridden(d), status'[d] = status[d], asked'[d] = asked[d]
      PROVE  status'[d] \in Outcome(asked'[d])
  BY <1>1 DEF FlowOutcome, Settled
<1>2. CASE UNCHANGED Flow!flow
  <2>1. ~Overridden(d)
    BY <1>2 DEF Flow!flow
  <2> QED
    BY <1>1, <1>2, <2>1 DEF Flow!flow
<1>3. CASE Flow!Override
  <2>1. ~Overridden(d)
    BY <1>3 DEF Flow!Override
  <2> QED
    BY <1>1, <1>3, <2>1 DEF Flow!Override
<1>4. ASSUME NEW e \in DocIds,
             \/ Flow!Upload(e) \/ Flow!Stored(e) \/ Flow!Accept(e) \/ Flow!StartIngest(e)
             \/ Flow!EndIngest(e) \/ Flow!StartDelete(e) \/ Flow!EndDelete(e) \/ Flow!Retire(e)
             \/ Flow!GiveUp(e)
      PROVE  status'[d] \in Outcome(asked'[d])
  <2>1. PICK st : Flow!Becomes(e, st)
    BY <1>4 DEF Flow!Upload, Flow!Stored, Flow!Accept, Flow!StartIngest, Flow!EndIngest,
         Flow!StartDelete, Flow!EndDelete, Flow!Retire, Flow!GiveUp
  <2>2. ~Overridden(d) /\ status'[e] = st /\ \A x \in DocIds \ {e} : status'[x] = status[x]
    BY <2>1 DEF Flow!Becomes, TypeOK
  <2>3. \A x \in DocIds \ {e} : asked'[x] = asked[x]
    BY <1>4 DEF Flow!Upload, Flow!Stored, Flow!Accept, Flow!StartIngest, Flow!EndIngest,
         Flow!StartDelete, Flow!EndDelete, Flow!Retire, Flow!GiveUp, TypeOK
  <2>4. CASE d # e
    BY <1>1, <2>2, <2>3, <2>4
  <2>5. CASE d = e
    <3>1. st \in StableStatus \cup {"none"}
      BY <2>2, <2>5 DEF Settled
    <3>2. CASE Flow!EndIngest(d)
      <4>1. asked'[d] = "ingest" /\ status'[d] \in {"indexed", "failed", "outdated"}
        BY <3>2 DEF Flow!EndIngest, Flow!Ingests, Flow!Becomes, TypeOK
      <4> QED
        BY <4>1 DEF Outcome
    <3>3. CASE Flow!EndDelete(d)
      <4>1. asked'[d] \in {"delete", "softDelete"} /\ status'[d] \in {"none", "deleted", "failed"}
        BY <3>3 DEF Flow!EndDelete, Flow!Deletes, Flow!Becomes, TypeOK
      <4> QED
        BY <4>1 DEF Outcome
    <3>4. CASE Flow!Retire(d)
      <4>1. status[d] = "indexed" /\ status'[d] = "outdated" /\ asked'[d] = asked[d]
        BY <3>4 DEF Flow!Retire, Flow!Becomes, TypeOK
      <4>2. "indexed" \in Outcome(asked[d]) /\ asked[d] \in Asked
        BY <2>2, <4>1 DEF FlowOutcome, Settled, StableStatus
      <4>3. asked[d] = "ingest"
        BY <4>2 DEF Outcome, Asked
      <4> QED
        BY <4>1, <4>3 DEF Outcome
    <3>5. CASE Flow!GiveUp(d)
      <4>1. asked'[d] = "fail" /\ status'[d] = "failed"
        BY <3>5 DEF Flow!GiveUp, Flow!Becomes, TypeOK
      <4> QED
        BY <4>1 DEF Outcome
    <3>6. CASE Flow!Upload(d) \/ Flow!Stored(d) \/ Flow!Accept(d) \/ Flow!StartIngest(d)
                 \/ Flow!StartDelete(d)
      <4>1. status'[d] \in {"uploading", "pending", "running", "deleting"}
        BY <3>6 DEF Flow!Upload, Flow!Stored, Flow!Accept, Flow!StartIngest, Flow!StartDelete,
             Flow!Becomes, TypeOK
      <4> QED
        BY <4>1 DEF Settled, StableStatus
    <3> QED
      BY <1>4, <2>5, <3>2, <3>3, <3>4, <3>5, <3>6
  <2> QED
    BY <2>4, <2>5
<1> QED
  BY <1>2, <1>3, <1>4 DEF Flow!Next

\* A document at rest shows the outcome of the last request that was accepted
\* for it, for every interleaving, any number of crashes and all bounds.
THEOREM LastRequestWinsHolds == Spec => []LastRequestWins
<1>1. Init /\ TypeOK => FlowOutcome
  BY DEF Init, FlowOutcome, Outcome, TypeOK
<1>2. FlowOutcome /\ TypeOK /\ TypeOK' /\ [Flow!Next]_(Flow!flow) => FlowOutcome'
  BY FlowKeepsOutcome
<1>3. FlowOutcome => LastRequestWins
  BY DEF FlowOutcome, LastRequestWins
<1>4. AskedInv /\ [Next]_vars => [Flow!Next]_(Flow!flow)
  BY StepFlows
<1> QED
  BY TypesHold, AskedInvHolds, <1>1, <1>2, <1>3, <1>4, PTL DEF Spec
=============================================================================
