----------------------------- MODULE DocSystemProofs -----------------------------
(***************************************************************************)
(* What holds of DocSystem for every number of documents, sources, jobs and *)
(* workers, and for every bound: the types, and that a document is never    *)
(* worked on twice.                                                         *)
(***************************************************************************)
EXTENDS DocSystem, TLAPS, FiniteSetTheorems

-----------------------------------------------------------------------------
(* LREM. *)

LEMMA OthersFinite ==
  ASSUME NEW q \in Seq(Item), NEW d, NEW i \in Nat
  PROVE  /\ IsFiniteSet(Others(q, d, i))
         /\ Rank(q, d, i) \in 0 .. i
<1>1. IsFiniteSet(1 .. i) /\ Cardinality(1 .. i) = i
  BY FS_Interval
<1>2. Others(q, d, i) \in SUBSET (1 .. i)
  BY DEF Others
<1>3. IsFiniteSet(Others(q, d, i)) /\ Cardinality(Others(q, d, i)) <= i
  BY <1>1, <1>2, FS_Subset
<1> QED
  BY <1>3, FS_CardinalityType DEF Rank

\* The rank of an entry that stays is higher than that of any entry before it.
LEMMA RankGrows ==
  ASSUME NEW q \in Seq(Item), NEW d, NEW i \in Nat, NEW k \in 1 .. Len(q),
         q[k].id # d, i < k
  PROVE  Rank(q, d, i) < Rank(q, d, k)
<1>1. Others(q, d, i) \in SUBSET Others(q, d, k)
  BY DEF Others
<1>2. k \in Others(q, d, k) /\ k \notin Others(q, d, i)
  BY DEF Others
<1>3. IsFiniteSet(Others(q, d, k)) /\ Rank(q, d, k) \in Nat /\ Rank(q, d, i) \in Nat
  BY OthersFinite
<1>4. Rank(q, d, i) <= Rank(q, d, k) /\ Rank(q, d, i) # Rank(q, d, k)
  BY <1>1, <1>2, <1>3, FS_Subset DEF Rank
<1> QED
  BY <1>3, <1>4

\* Every rank is the rank of an entry that stays.
LEMMA RankOnto ==
  ASSUME NEW q \in Seq(Item), NEW d, NEW n \in 1 .. Rank(q, d, Len(q))
  PROVE  \E i \in 1 .. Len(q) : q[i].id # d /\ Rank(q, d, i) = n
<1> DEFINE K == Others(q, d, Len(q))
           R == Rank(q, d, Len(q))
           f == [i \in K |-> Rank(q, d, i)]
<1>1. IsFiniteSet(K) /\ R \in Nat /\ Cardinality(K) = R
  <2>1. Len(q) \in Nat
    OBVIOUS
  <2> QED
    BY <2>1, OthersFinite DEF Rank
<1>2. \A i \in K : i \in 1 .. Len(q) /\ q[i].id # d
  BY DEF Others
<1>3. \A i, k \in K : i < k => Rank(q, d, i) < Rank(q, d, k)
  BY <1>2, RankGrows
<1>4. \A i \in K : Rank(q, d, i) \in 1 .. R
  <2> SUFFICES ASSUME NEW i \in K PROVE Rank(q, d, i) \in 1 .. R
    OBVIOUS
  <2>1. Rank(q, d, 0) < Rank(q, d, i)
    BY <1>2, RankGrows
  <2>2. Rank(q, d, 0) \in Nat /\ Rank(q, d, i) \in Nat
    BY <1>2, OthersFinite
  <2>3. Others(q, d, i) \in SUBSET K
    BY <1>2 DEF Others
  <2>4. Rank(q, d, i) <= R
    BY <1>1, <2>3, FS_Subset DEF Rank
  <2> QED
    BY <1>1, <2>1, <2>2, <2>4
<1>5. f \in Injection(K, 1 .. R)
  <2>1. f \in [K -> 1 .. R]
    BY <1>4
  <2>2. \A a, b \in K : Rank(q, d, a) = Rank(q, d, b) => a = b
    BY <1>2, <1>3, <1>4
  <2>3. IsInjective(f)
    BY <2>2 DEF IsInjective
  <2> QED
    BY <2>1, <2>3, Zenon DEF Injection
<1>6. IsFiniteSet(1 .. R) /\ Cardinality(1 .. R) = R
  BY <1>1, FS_Interval
<1>7. f \in Surjection(K, 1 .. R)
  BY <1>1, <1>5, <1>6, FS_Injection
<1>8. PICK i \in K : f[i] = n
  BY <1>7, Zenon DEF Surjection
<1> QED
  BY <1>2, <1>8

\* What is left of a list after LREM of a document's events: entries of the
\* list, none of that document, each at one place only.
LEMMA WithoutEntries ==
  ASSUME NEW q \in Seq(Item), NEW d
  PROVE  /\ Without(q, d) \in Seq(Item)
         /\ \A n \in 1 .. Len(Without(q, d)) :
              \E i \in 1 .. Len(q) : /\ Without(q, d)[n] = q[i] /\ q[i].id # d
                                     /\ Rank(q, d, i) = n
<1> DEFINE R == Rank(q, d, Len(q))
           Pick(n) == CHOOSE i \in DOMAIN q : q[i].id # d /\ Rank(q, d, i) = n
<1>1. R \in Nat /\ DOMAIN q = 1 .. Len(q) /\ Len(q) \in Nat
  BY OthersFinite
<1>2. \A n \in 1 .. R : /\ Pick(n) \in 1 .. Len(q) /\ q[Pick(n)].id # d
                        /\ Rank(q, d, Pick(n)) = n
  BY <1>1, RankOnto
<1>3. Without(q, d) = [n \in 1 .. R |-> q[Pick(n)]]
  BY DEF Without
<1> HIDE DEF Pick, R
<1>4. \A n \in 1 .. R : q[Pick(n)] \in Item
  BY <1>2
<1>5. Without(q, d) \in Seq(Item) /\ Len(Without(q, d)) = R
  BY <1>1, <1>3, <1>4
<1>6. \A n \in 1 .. R : Without(q, d)[n] = q[Pick(n)]
  BY <1>3
<1> QED
  BY <1>2, <1>5, <1>6

-----------------------------------------------------------------------------
(* Types, and where the loop and the jobs may stand. *)

LEMMA InitTyped == Init => TypeOK /\ Shape
<1> SUFFICES ASSUME Init PROVE TypeOK /\ Shape
  OBVIOUS
<1>1. IdleLoop \in Loop /\ FreeJob \in Job
  BY DEF IdleLoop, Loop, LoopOp, FreeJob, Job, PC, Kind, Status
<1>2. TypeOK
  BY <1>1, StoreAssumption DEF Init, TypeOK, Status, Asked
<1>3. Shape
  BY DEF Init, Shape, LoopShape, JobShape, IdleLoop, FreeJob, IngestPC, DeletePC, DupPC,
         InHandOp, FailOp
<1> QED
  BY <1>2, <1>3

\* Every request keeps the types and the shape.
LEMMA RequestTyped ==
  ASSUME TypeOK, Shape, Request
  PROVE  TypeOK' /\ Shape'
<1> USE DEF rows, redis, counters, history
<1>1. ASSUME NEW d \in DocIds, UploadBegin(d) PROVE TypeOK' /\ Shape'
  <2>1. loop' = [IdleLoop EXCEPT !.op = "put", !.kind = "upload", !.id = d, !.force = FALSE]
    BY <1>1 DEF UploadBegin, Begin
  <2>2. loop' \in Loop /\ LoopShape'
    BY <2>1 DEF IdleLoop, Loop, LoopOp, Kind, LoopShape, InHandOp, FailOp
  <2>3. status' \in [DocIds -> Status] /\ uploads' \in Nat
    BY <1>1 DEF UploadBegin, TypeOK, Status, RowStatus, ActiveStatus
  <2> QED
    BY <1>1, <2>2, <2>3 DEF UploadBegin, TypeOK, Shape, JobShape
<1>2. ASSUME NEW d \in DocIds, ForceFailBegin(d) PROVE TypeOK' /\ Shape'
  <2>1. loop' = [IdleLoop EXCEPT !.op = "failPurge", !.kind = "upload", !.id = d, !.force = FALSE]
    BY <1>2 DEF ForceFailBegin, Begin
  <2>2. loop' \in Loop /\ LoopShape'
    BY <2>1 DEF IdleLoop, Loop, LoopOp, Kind, LoopShape, InHandOp, FailOp
  <2>3. Without(queue["upload"], d) \in Seq(Item)
    BY WithoutEntries DEF TypeOK, Kind
  <2>4. queue' \in [Kind -> Seq(Item)] /\ delayed' \in [Kind -> SUBSET Item]
    BY <1>2, <2>3 DEF ForceFailBegin, DequeueUploads, TypeOK
  <2>5. overridden' \subseteq Sources /\ overrides' \in Nat
    BY <1>2, StoreAssumption DEF ForceFailBegin, Supersede, Override, TypeOK
  <2> QED
    BY <1>2, <2>2, <2>4, <2>5 DEF ForceFailBegin, TypeOK, Shape, JobShape
<1>3. ASSUME NEW d \in DocIds, RecoverBegin(d) PROVE TypeOK' /\ Shape'
  <2>1. loop' = [IdleLoop EXCEPT !.op = "failPurge", !.id = d, !.force = TRUE]
    BY <1>3 DEF RecoverBegin
  <2>2. loop' \in Loop /\ LoopShape'
    BY <2>1 DEF IdleLoop, Loop, LoopOp, Kind, LoopShape, InHandOp, FailOp
  <2>3. overridden' \subseteq Sources /\ overrides' \in Nat
    BY <1>3, StoreAssumption DEF RecoverBegin, Supersede, Override, TypeOK
  <2> QED
    BY <1>3, <2>2, <2>3 DEF RecoverBegin, TypeOK, Shape, JobShape
<1>4. ASSUME NEW d \in DocIds, NEW force \in BOOLEAN,
             DeleteBegin(d, force) \/ ReindexBegin(d, force)
      PROVE  TypeOK' /\ Shape'
  <2>1. PICK kind \in Kind :
          loop' = [IdleLoop EXCEPT !.op = "enqueue", !.kind = kind, !.id = d, !.force = force]
    BY <1>4 DEF DeleteBegin, ReindexBegin, Begin, Kind
  <2>2. loop' \in Loop /\ LoopShape'
    BY <2>1 DEF IdleLoop, Loop, LoopOp, LoopShape, InHandOp, FailOp
  <2> QED
    BY <1>4, <2>2 DEF DeleteBegin, ReindexBegin, TypeOK, Shape, JobShape
<1>5. ASSUME NEW force \in BOOLEAN, ReindexKbBegin(force) PROVE TypeOK' /\ Shape'
  <2>1. PICK todo \in SUBSET Item :
          loop' = [IdleLoop EXCEPT !.op = "reindex", !.back = "reindex", !.todo = todo]
    BY <1>5 DEF ReindexKbBegin
  <2>2. loop' \in Loop /\ LoopShape'
    BY <2>1 DEF IdleLoop, Loop, LoopOp, Kind, LoopShape, InHandOp, FailOp
  <2> QED
    BY <1>5, <2>2 DEF ReindexKbBegin, TypeOK, Shape, JobShape
<1> QED
  BY <1>1, <1>2, <1>3, <1>4, <1>5 DEF Request

\* An UPDATE to a known status keeps the type of the table.
LEMMA UpdateTyped ==
  ASSUME TypeOK, NEW d, NEW st \in Status, UpdateStatus(d, st)
  PROVE  /\ status' \in [DocIds -> Status]
         /\ \A e \in DocIds : status'[e] = IF e = d /\ HasRow(d) THEN st ELSE status[e]
BY DEF TypeOK, UpdateStatus, HasRow

\* The event loop's state is a record whose fields have the types of Loop.
LEMMA LoopTyped ==
  ASSUME TypeOK
  PROVE  /\ loop \in Loop
         /\ loop = [op |-> loop.op, kind |-> loop.kind, id |-> loop.id, force |-> loop.force,
                    back |-> loop.back, todo |-> loop.todo, n |-> loop.n, more |-> loop.more]
         /\ loop.op \in LoopOp /\ loop.kind \in Kind /\ loop.id \in DocIds \cup {NoDoc}
         /\ loop.force \in BOOLEAN /\ loop.back \in LoopOp /\ loop.todo \in SUBSET Item
         /\ loop.n \in Nat /\ loop.more \in BOOLEAN
BY DEF TypeOK, Loop

\* Every later step of a handler keeps the types and the shape.
LEMMA HandleTyped ==
  ASSUME TypeOK, Shape, Handle
  PROVE  TypeOK' /\ Shape'
<1> USE DEF rows, redis, counters, history
<1>a. IdleLoop \in Loop
  BY DEF IdleLoop, Loop, LoopOp, Kind
<1>r. ASSUME Return, loop.op \in {"enqueue", "push"} PROVE loop' \in Loop /\ LoopShape'
  <2>1. CASE loop.back = "idle"
    BY <1>a, <1>r, <2>1 DEF Return, LoopShape, IdleLoop, InHandOp, FailOp
  <2>2. CASE loop.back # "idle"
    BY <1>r, <2>2, LoopTyped DEF Return, Shape, LoopShape, Loop, LoopOp, InHandOp, FailOp, TypeOK
  <2> QED
    BY <2>1, <2>2
<1>1. CASE UploadPut
  <2>1. loop' \in Loop /\ LoopShape'
    <3>1. CASE loop' = IdleLoop
      BY <1>a, <3>1 DEF IdleLoop, LoopShape, InHandOp, FailOp
    <3>2. CASE loop.op = "put" /\ loop' = [loop EXCEPT !.op = "stage"]
      BY <3>2, LoopTyped DEF Loop, LoopOp, Shape, LoopShape, InHandOp, FailOp, TypeOK
    <3> QED
      BY <1>1, <3>1, <3>2 DEF UploadPut, Goto
  <2>2. s3' \in [Sources -> Nat]
    BY <1>1 DEF UploadPut, TypeOK
  <2> QED
    BY <1>1, <2>1, <2>2 DEF UploadPut, TypeOK, Shape, JobShape
<1>2. CASE UploadStage
  <2>1. loop' \in Loop /\ LoopShape'
    BY <1>2, LoopTyped DEF UploadStage, Goto, Loop, LoopOp, Shape, LoopShape, InHandOp, FailOp, TypeOK
  <2>2. status' \in [DocIds -> Status]
    BY <1>2, UpdateTyped DEF UploadStage, Status, RowStatus, ActiveStatus
  <2>3. version' \in [DocIds -> Nat]
    BY <1>2 DEF UploadStage, TypeOK
  <2> QED
    BY <1>2, <2>1, <2>2, <2>3 DEF UploadStage, TypeOK, Shape, JobShape
<1>3. CASE ReindexKbNext
  <2>1. CASE loop' = IdleLoop
    BY <1>3, <1>a, <2>1 DEF ReindexKbNext, TypeOK, Shape, LoopShape, JobShape, IdleLoop, InHandOp, FailOp
  <2>2. CASE loop' # IdleLoop
    <3>1. PICK it \in loop.todo :
            \/ loop' = [loop EXCEPT !.op = "enqueue", !.id = it.id, !.force = it.force,
                                    !.todo = @ \ {it}]
            \/ loop' = [loop EXCEPT !.todo = @ \ {it}]
      BY <1>3, <2>2 DEF ReindexKbNext
    <3>2. it.id \in DocIds /\ it.force \in BOOLEAN
      BY LoopTyped DEF Item
    <3>a. loop.op = "reindex" /\ loop.back = "reindex"
      BY <1>3 DEF ReindexKbNext, Shape, LoopShape
    <3>b. ASSUME loop' = [loop EXCEPT !.todo = @ \ {it}]
          PROVE  loop' \in Loop /\ LoopShape'
      BY <3>a, <3>b, LoopTyped DEF Loop, LoopShape, InHandOp, FailOp
    <3>c. ASSUME loop' = [loop EXCEPT !.op = "enqueue", !.id = it.id, !.force = it.force,
                                      !.todo = @ \ {it}]
          PROVE  loop' \in Loop /\ LoopShape'
      BY <3>a, <3>c, <3>2, LoopTyped DEF Loop, LoopOp, LoopShape, InHandOp, FailOp
    <3>3. loop' \in Loop /\ LoopShape'
      BY <3>1, <3>b, <3>c
    <3> QED
      BY <1>3, <3>3 DEF ReindexKbNext, TypeOK, Shape, JobShape
  <2> QED
    BY <2>1, <2>2
<1>4. CASE Enqueue
  <2>1. loop' \in Loop /\ LoopShape'
    <3>1. CASE Return
      BY <1>4, <1>r, <3>1 DEF Enqueue
    <3>2. ASSUME NEW op \in {"push", "setPending"}, loop' = [loop EXCEPT !.op = op]
          PROVE  loop' \in Loop /\ LoopShape'
      <4>1. loop.op = "enqueue"
        BY <1>4 DEF Enqueue
      <4> QED
        BY <3>2, <4>1, LoopTyped DEF Loop, LoopOp, Shape, LoopShape, InHandOp, FailOp, TypeOK
    <3> QED
      BY <1>4, <3>1, <3>2 DEF Enqueue, Goto
  <2> QED
    BY <1>4, <2>1 DEF Enqueue, TypeOK, Shape, JobShape
<1>5. CASE SetPending
  <2>1. loop' \in Loop /\ LoopShape'
    BY <1>5, LoopTyped DEF SetPending, Goto, Loop, LoopOp, Shape, LoopShape, InHandOp, FailOp, TypeOK
  <2>2. status' \in [DocIds -> Status]
    BY <1>5, UpdateTyped DEF SetPending, Status, RowStatus, ActiveStatus
  <2>3. Accepted \in Asked
    BY DEF Accepted, Asked
  <2>4. asked' \in [DocIds -> Asked]
    BY <1>5, <2>3 DEF SetPending, TypeOK
  <2> QED
    BY <1>5, <2>1, <2>2, <2>4 DEF SetPending, TypeOK, Shape, JobShape
<1>6. CASE Push
  <2>1. loop' \in Loop /\ LoopShape'
    BY <1>6, <1>r DEF Push
  <2>2. [id |-> loop.id, force |-> loop.force] \in Item
    BY <1>6, LoopTyped DEF Push, Shape, LoopShape, InHandOp, Item
  <2>3. Append(queue[loop.kind], [id |-> loop.id, force |-> loop.force]) \in Seq(Item)
    BY <2>2, LoopTyped DEF TypeOK
  <2>4. queue' \in [Kind -> Seq(Item)]
    BY <1>6, <2>3 DEF Push, TypeOK
  <2> QED
    BY <1>6, <2>1, <2>4 DEF Push, TypeOK, Shape, JobShape
<1>7. CASE FailPurge
  <2>1. loop' \in Loop /\ LoopShape'
    BY <1>7, LoopTyped DEF FailPurge, Goto, Loop, LoopOp, Shape, LoopShape, InHandOp, FailOp, TypeOK
  <2>2. chunks' \in [DocIds -> SUBSET Nat]
    BY <1>7 DEF FailPurge, PurgeChunks, TypeOK
  <2> QED
    BY <1>7, <2>1, <2>2 DEF FailPurge, TypeOK, Shape, JobShape
<1>8. CASE FailMark
  <2>1. loop' \in Loop /\ LoopShape'
    BY <1>8, <1>a, LoopTyped DEF FailMark, IdleLoop, Loop, LoopOp, Shape, LoopShape, InHandOp,
       FailOp, TypeOK
  <2>2. status' \in [DocIds -> Status]
    BY <1>8, UpdateTyped DEF FailMark, Status, RowStatus, StableStatus
  <2>3. asked' \in [DocIds -> Asked]
    BY <1>8 DEF FailMark, TypeOK, Asked
  <2> QED
    BY <1>8, <2>1, <2>2, <2>3 DEF FailMark, TypeOK, Shape, JobShape
<1> QED
  BY <1>1, <1>2, <1>3, <1>4, <1>5, <1>6, <1>7, <1>8 DEF Handle

-----------------------------------------------------------------------------
\* A task is a record whose fields have the types of Job.
LEMMA JobTyped ==
  ASSUME TypeOK, NEW j \in Jobs
  PROVE  /\ job[j] \in Job
         /\ job[j].pc \in PC /\ job[j].kind \in Kind /\ job[j].id \in DocIds \cup {NoDoc}
         /\ job[j].force \in BOOLEAN /\ job[j].was \in Status /\ job[j].ver \in Nat
         /\ job[j].dup \in DocIds \cup {NoDoc}
BY DEF TypeOK, Job

\* What a pipeline thread does to its own job: move on, or end.
LEMMA StepEffect ==
  ASSUME TypeOK, NEW j \in Jobs, NEW pc \in PC, Step(j, pc)
  PROVE  /\ job' \in [Jobs -> Job]
         /\ \A i \in Jobs \ {j} : job'[i] = job[i]
         /\ job'[j].pc = pc /\ job'[j].kind = job[j].kind /\ job'[j].id = job[j].id
         /\ job'[j].dup = job[j].dup /\ job'[j].was = job[j].was
<1>1. job' = [job EXCEPT ![j] = [job[j] EXCEPT !.pc = pc]]
  BY DEF Step
<1>2. [job[j] EXCEPT !.pc = pc] \in Job
  BY JobTyped DEF Job
<1>3. /\ job' \in [Jobs -> Job]
      /\ \A i \in Jobs \ {j} : job'[i] = job[i]
      /\ job'[j] = [job[j] EXCEPT !.pc = pc]
  BY <1>1, <1>2 DEF TypeOK
<1> QED
  BY <1>3, JobTyped DEF Job

\* What a pipeline thread does to its own job when it ends.
LEMMA EndEffect ==
  ASSUME TypeOK, NEW j \in Jobs, End(j)
  PROVE  /\ job' \in [Jobs -> Job]
         /\ \A i \in Jobs \ {j} : job'[i] = job[i]
         /\ job'[j].pc = "free"
<1>1. FreeJob \in Job /\ FreeJob.pc = "free"
  BY DEF FreeJob, Job, PC, Kind, Status
<1> QED
  BY <1>1 DEF End, TypeOK

\* Taking the ready part of a delay set.
LEMMA TakeReadyTyped ==
  ASSUME TypeOK, NEW kind \in Kind, TakeReady(kind)
  PROVE  loop' \in Loop /\ LoopShape' /\ delayed' \in [Kind -> SUBSET Item]
<1>1. PICK ready \in SUBSET delayed[kind] :
        /\ delayed' = [delayed EXCEPT ![kind] = @ \ ready]
        /\ loop' = [IdleLoop EXCEPT !.op = "drain", !.kind = kind, !.back = "drain", !.todo = ready]
  BY DEF TakeReady
<1>2. ready \in SUBSET Item
  BY DEF TypeOK
<1>3. loop' \in Loop /\ LoopShape'
  BY <1>1, <1>2 DEF IdleLoop, Loop, LoopOp, LoopShape, InHandOp, FailOp
<1> QED
  BY <1>1, <1>3 DEF TypeOK

\* The end of the polling of one list.
LEMMA NextListTyped ==
  ASSUME TypeOK, Shape, loop.op = "take", NextList
  PROVE  loop' \in Loop /\ LoopShape' /\ delayed' \in [Kind -> SUBSET Item]
<1>1. CASE TakeReady("upload")
  BY <1>1, TakeReadyTyped DEF Kind
<1>2. CASE loop' = IdleLoop /\ UNCHANGED delayed
  BY <1>2 DEF IdleLoop, Loop, LoopOp, Kind, LoopShape, InHandOp, FailOp, TypeOK
<1>3. CASE /\ loop' = [loop EXCEPT !.kind = "delete", !.n = 0, !.more = (loop.n = MaxPerPoll)]
           /\ UNCHANGED delayed
  <2>1. (loop.n = MaxPerPoll) \in BOOLEAN
    OBVIOUS
  <2> QED
    BY <1>3, <2>1, LoopTyped DEF Loop, LoopOp, Kind, Shape, LoopShape, InHandOp, FailOp, TypeOK
<1> QED
  BY <1>1, <1>2, <1>3 DEF NextList

\* The event at the head of a list.
LEMMA HeadTyped ==
  ASSUME TypeOK, queue[loop.kind] # <<>>
  PROVE  /\ queue[loop.kind] \in Seq(Item) /\ Head(queue[loop.kind]) \in Item
         /\ Tail(queue[loop.kind]) \in Seq(Item)
         /\ Head(queue[loop.kind]).id \in DocIds /\ Head(queue[loop.kind]).force \in BOOLEAN
<1>1. queue[loop.kind] \in Seq(Item)
  BY LoopTyped DEF TypeOK
<1>2. Head(queue[loop.kind]) \in Item /\ Tail(queue[loop.kind]) \in Seq(Item)
  BY <1>1
<1> QED
  BY <1>1, <1>2 DEF Item

\* Every step of the queue worker, and a crash, keeps the types and the shape.
LEMMA WorkerTyped ==
  ASSUME TypeOK, Shape, Poll \/ (\E j \in Jobs : StartTask(j)) \/ Crash
  PROVE  TypeOK' /\ Shape'
<1> USE DEF rows, redis, counters, history
<1>1. CASE PollBegin
  <2>1. TakeReady("upload")
    BY <1>1 DEF PollBegin
  <2> QED
    BY <1>1, <2>1, TakeReadyTyped DEF PollBegin, Kind, TypeOK, Shape, JobShape
<1>2. CASE DrainNext
  <2>1. PICK it \in loop.todo, op \in {"push", "setPending"} :
          loop' = [loop EXCEPT !.id = it.id, !.force = it.force, !.todo = @ \ {it}, !.op = op]
    BY <1>2 DEF DrainNext
  <2>2. it.id \in DocIds /\ it.force \in BOOLEAN
    BY LoopTyped DEF Item
  <2>3. loop.op = "drain"
    BY <1>2 DEF DrainNext
  <2>4. loop' \in Loop /\ LoopShape'
    BY <2>1, <2>2, <2>3, LoopTyped DEF Loop, LoopOp, Shape, LoopShape, InHandOp, FailOp, TypeOK
  <2> QED
    BY <1>2, <2>4 DEF DrainNext, TypeOK, Shape, JobShape
<1>3. CASE DrainDone
  <2>1. loop' \in Loop /\ LoopShape' /\ delayed' \in [Kind -> SUBSET Item]
    <3>1. CASE TakeReady("delete")
      BY <3>1, TakeReadyTyped DEF Kind
    <3>2. CASE loop' = [IdleLoop EXCEPT !.op = "take"] /\ UNCHANGED delayed
      BY <3>2 DEF IdleLoop, Loop, LoopOp, Kind, LoopShape, InHandOp, FailOp, TypeOK
    <3> QED
      BY <1>3, <3>1, <3>2 DEF DrainDone
  <2> QED
    BY <1>3, <2>1 DEF DrainDone, TypeOK, Shape, JobShape
<1>4. CASE Take
  <2> DEFINE e == Head(queue[loop.kind])
  <2>1. queue[loop.kind] # <<>> /\ loop.op = "take"
    BY <1>4 DEF Take
  <2>2. loop' \in Loop /\ LoopShape'
    <3>1. CASE loop' = loop
      BY <3>1 DEF TypeOK, Shape, LoopShape
    <3>2. CASE loop' = [loop EXCEPT !.op = "claim", !.id = e.id, !.force = e.force]
      <4> HIDE DEF e
      <4>1. e.id \in DocIds /\ e.force \in BOOLEAN
        BY <2>1, HeadTyped DEF e
      <4> QED
        BY <2>1, <3>2, <4>1, LoopTyped DEF Loop, LoopOp, Shape, LoopShape, InHandOp, FailOp, TypeOK
    <3> QED
      BY <1>4, <3>1, <3>2 DEF Take
  <2>3. queue' \in [Kind -> Seq(Item)]
    BY <1>4, <2>1, HeadTyped DEF Take, TypeOK
  <2>4. delayed' \in [Kind -> SUBSET Item]
    <3>1. \/ UNCHANGED delayed
          \/ delayed' = [delayed EXCEPT ![loop.kind] = @ \cup {e}]
      BY <1>4 DEF Take
    <3>2. e \in Item
      BY <2>1, HeadTyped
    <3>3. delayed[loop.kind] \cup {e} \in SUBSET Item
      BY <3>2, LoopTyped DEF TypeOK
    <3> HIDE DEF e
    <3> QED
      BY <3>1, <3>3 DEF TypeOK
  <2> QED
    BY <1>4, <2>2, <2>3, <2>4 DEF Take, TypeOK, Shape, JobShape
<1>5. CASE Claim
  <2>1. loop.op = "claim"
    BY <1>5 DEF Claim
  <2>2. loop.id \in DocIds
    BY <2>1 DEF Shape, LoopShape, InHandOp
  <2>3. loop' = [loop EXCEPT !.op = "take", !.id = NoDoc, !.force = FALSE, !.n = @ + 1]
    BY <1>5 DEF Claim
  <2>4. loop' \in Loop /\ LoopShape'
    <3>1. loop.n + 1 \in Nat
      BY LoopTyped
    <3>2. loop' \in Loop
      BY <2>3, <3>1, LoopTyped DEF Loop, LoopOp
    <3> QED
      BY <2>1, <2>3, <3>2, LoopTyped DEF Shape, LoopShape, InHandOp, FailOp
  <2>5. status' \in [DocIds -> Status]
    <3>1. "running" \in Status
      BY DEF Status, RowStatus, ActiveStatus
    <3> QED
      BY <1>5, <3>1, UpdateTyped DEF Claim, TypeOK
  <2>6. NewJob(loop.kind, loop) \in Job
    BY LoopTyped DEF NewJob, FreeJob, Job, PC, Status, Kind
  <2>7. job' \in [Jobs -> Job]
    BY <1>5, <2>6 DEF Claim, TypeOK
  <2>8. \A j \in Jobs : JobShape(j)'
    <3>1. PICK k \in Jobs : job' = [job EXCEPT ![k] = NewJob(loop.kind, loop)]
      BY <1>5 DEF Claim
    <3>2. \A j \in Jobs \ {k} : job'[j] = job[j]
      BY <3>1 DEF TypeOK
    <3>3. job'[k].pc = "wait" /\ job'[k].id = loop.id
      BY <3>1 DEF TypeOK, NewJob, FreeJob
    <3> QED
      BY <2>2, <3>2, <3>3 DEF Shape, JobShape, IngestPC, DeletePC, DupPC
  <2> QED
    BY <1>5, <2>4, <2>5, <2>7, <2>8 DEF Claim, TypeOK, Shape
<1>6. CASE ListDone
  <2>1. loop' \in Loop /\ LoopShape' /\ delayed' \in [Kind -> SUBSET Item]
    BY <1>6, NextListTyped DEF ListDone
  <2> QED
    BY <1>6, <2>1 DEF ListDone, TypeOK, Shape, JobShape
<1>7. CASE TakeError
  <2>1. loop' \in Loop /\ LoopShape' /\ delayed' \in [Kind -> SUBSET Item]
    BY <1>7, NextListTyped DEF TakeError
  <2>2. Append(Tail(queue[loop.kind]), Head(queue[loop.kind])) \in Seq(Item)
    BY <1>7, HeadTyped DEF TakeError
  <2>3. queue' \in [Kind -> Seq(Item)]
    BY <1>7, <2>2 DEF TakeError, TypeOK
  <2> QED
    BY <1>7, <2>1, <2>3 DEF TakeError, TypeOK, Shape, JobShape
<1>8. ASSUME NEW j \in Jobs, StartTask(j) PROVE TypeOK' /\ Shape'
  <2>1. Step(j, "load") /\ job[j].pc = "wait"
    BY <1>8 DEF StartTask, Step
  <2>2. job' \in [Jobs -> Job] /\ \A i \in Jobs : JobShape(i)'
    BY <2>1, StepEffect DEF PC, Shape, JobShape, IngestPC, DeletePC, DupPC
  <2> QED
    BY <1>8, <2>2 DEF StartTask, TypeOK, Shape, LoopShape
<1>9. CASE Crash
  <2>1. IdleLoop \in Loop /\ FreeJob \in Job
    BY DEF IdleLoop, Loop, LoopOp, FreeJob, Job, PC, Kind, Status
  <2>2. Shape'
    BY <1>9 DEF Crash, Shape, LoopShape, JobShape, IdleLoop, FreeJob, IngestPC, DeletePC, DupPC,
       InHandOp, FailOp
  <2> QED
    BY <1>9, <2>1, <2>2 DEF Crash, TypeOK
<1> QED
  BY <1>1, <1>2, <1>3, <1>4, <1>5, <1>6, <1>7, <1>8, <1>9 DEF Poll

\* Every step of a pipeline keeps the types and the shape.
LEMMA PipelineTyped ==
  ASSUME TypeOK, Shape, NEW j \in Jobs, JobStep(j)
  PROVE  TypeOK' /\ Shape'
<1> USE DEF rows, redis, counters, history, apiVars
\* It is enough to know what became of the job, the status, the stores.
<1>a. ASSUME job' \in [Jobs -> Job], \A i \in Jobs : JobShape(i)',
             status' \in [DocIds -> Status], s3' \in [Sources -> Nat],
             chunks' \in [DocIds -> SUBSET Nat], overridden' \subseteq Sources,
             UNCHANGED apiVars
      PROVE  TypeOK' /\ Shape'
  BY <1>a DEF TypeOK, Shape, LoopShape
<1>b. \A pc \in {"running", "outdated", "indexed", "failed", "deleting", "deleted", "none"} :
        pc \in Status
  BY DEF Status, RowStatus, StableStatus, ActiveStatus
<1>c. ASSUME End(j) PROVE job' \in [Jobs -> Job] /\ \A i \in Jobs : JobShape(i)'
  BY <1>c, EndEffect DEF Shape, JobShape, IngestPC, DeletePC, DupPC
<1>f. ASSUME NEW pc \in {"fail", "failed"}, Step(j, pc), job[j].pc # "free"
      PROVE  job' \in [Jobs -> Job] /\ \A i \in Jobs : JobShape(i)'
  BY <1>f, StepEffect DEF Shape, JobShape, PC, FailPC, IngestPC, DeletePC, DupPC
<1>i. ASSUME NEW pc \in IngestPC, Step(j, pc), job[j].pc # "free", job[j].kind = "upload",
             pc \in DupPC => job[j].dup \in DocIds
      PROVE  job' \in [Jobs -> Job] /\ \A i \in Jobs : JobShape(i)'
  <2>1. pc \in PC /\ pc \notin DeletePC
    BY DEF PC, IngestPC, DeletePC
  <2> QED
    BY <1>i, <2>1, StepEffect DEF Shape, JobShape
<1>d. ASSUME NEW pc \in DeletePC, Step(j, pc), job[j].pc # "free", job[j].kind = "delete"
      PROVE  job' \in [Jobs -> Job] /\ \A i \in Jobs : JobShape(i)'
  <2>1. pc \in PC /\ pc \notin IngestPC /\ pc \notin DupPC
    BY DEF PC, IngestPC, DeletePC, DupPC
  <2> QED
    BY <1>d, <2>1, StepEffect DEF Shape, JobShape
<1>k. job[j].pc \in IngestPC => job[j].kind = "upload"
  BY DEF Shape, JobShape
<1>l. job[j].pc \in DeletePC => job[j].kind = "delete"
  BY DEF Shape, JobShape
<1>m. job[j].pc \in DupPC => job[j].dup \in DocIds
  BY DEF Shape, JobShape
<1>1. CASE IngestLoad(j)
  <2>1. job' \in [Jobs -> Job] /\ \A i \in Jobs : JobShape(i)'
    BY <1>1, <1>c, <1>f, <1>i DEF IngestLoad, At, IngestPC, DupPC
  <2> QED
    BY <1>1, <1>a, <2>1 DEF IngestLoad, TypeOK
<1>2. CASE IngestBegin(j)
  <2>1. job' \in [Jobs -> Job] /\ \A i \in Jobs : JobShape(i)'
    BY <1>2, <1>i, <1>k DEF IngestBegin, At, IngestPC, DupPC
  <2> QED
    BY <1>2, <1>a, <1>b, <2>1, UpdateTyped DEF IngestBegin, TypeOK
<1>3. CASE Parse(j)
  <2>1. job' \in [Jobs -> Job] /\ \A i \in Jobs : JobShape(i)'
    <3>1. CASE Step(j, "fail")
      BY <1>3, <1>f, <3>1 DEF Parse, At
    <3>2. CASE job' = [job EXCEPT ![j].pc = "dedup", ![j].ver = s3[SourceOf[Doc(j)]]]
      <4> DEFINE r == [job[j] EXCEPT !.pc = "dedup", !.ver = s3[SourceOf[Doc(j)]]]
      <4>1. job[j].pc = "parse" /\ job[j].id \in DocIds
        BY <1>3 DEF Parse, At, Shape, JobShape
      <4>2. s3[SourceOf[Doc(j)]] \in Nat
        BY <4>1, StoreAssumption DEF Doc, TypeOK
      <4>3. r \in Job /\ r.pc = "dedup" /\ r.id = job[j].id /\ r.kind = job[j].kind
        BY <4>2, JobTyped DEF Job, PC, IngestPC
      <4>4. job' = [job EXCEPT ![j] = r]
        BY <3>2
      <4> HIDE DEF r
      <4>5. job' \in [Jobs -> Job] /\ job'[j] = r /\ \A i \in Jobs \ {j} : job'[i] = job[i]
        BY <4>3, <4>4 DEF TypeOK
      <4> QED
        BY <4>1, <4>3, <4>5, <1>k DEF Shape, JobShape, IngestPC, DeletePC, DupPC
    <3> QED
      BY <1>3, <3>1, <3>2 DEF Parse
  <2> QED
    BY <1>3, <1>a, <2>1 DEF Parse, TypeOK
<1>4. CASE Detect(j)
  <2>1. job' \in [Jobs -> Job] /\ \A i \in Jobs : JobShape(i)'
    <3>0. job[j].pc = "dedup" /\ job[j].kind = "upload"
      BY <1>4, <1>k DEF Detect, Candidates, At, IngestPC
    <3>1. CASE Step(j, "fail")
      BY <3>0, <1>f, <3>1
    <3>2. CASE Step(j, "embed")
      BY <3>0, <1>i, <3>2 DEF IngestPC, DupPC
    <3>3. ASSUME NEW d \in DocIds, NEW pc \in {"identical", "resolveMoved", "resolveSimilar"},
                 job' = [job EXCEPT ![j].pc = pc, ![j].dup = d]
          PROVE  job' \in [Jobs -> Job] /\ \A i \in Jobs : JobShape(i)'
      <4> DEFINE r == [job[j] EXCEPT !.pc = pc, !.dup = d]
      <4>1. pc \in IngestPC /\ pc \in PC /\ pc \notin DeletePC /\ pc # "free"
        BY DEF IngestPC, PC, DeletePC
      <4>2. r \in Job /\ r.pc = pc /\ r.id = job[j].id /\ r.kind = "upload" /\ r.dup = d
        BY <3>0, <4>1, JobTyped DEF Job
      <4>3. job' = [job EXCEPT ![j] = r]
        BY <3>3
      <4> HIDE DEF r
      <4>4. job' \in [Jobs -> Job] /\ job'[j] = r /\ \A i \in Jobs \ {j} : job'[i] = job[i]
        BY <4>2, <4>3 DEF TypeOK
      <4> QED
        BY <3>0, <4>1, <4>2, <4>4 DEF Shape, JobShape
    <3> QED
      BY <1>4, <3>1, <3>2, <3>3 DEF Detect, Candidates
  <2> QED
    BY <1>4, <1>a, <2>1 DEF Detect, Candidates, TypeOK
<1>5. CASE Identical(j)
  BY <1>5, <1>a, <1>b, <1>c, UpdateTyped DEF Identical, MarkOutdated, TypeOK
<1>6. CASE Resolve(j)
  <2>0. job[j].pc \in {"resolveMoved", "resolveSimilar"}
    BY <1>6 DEF Resolve, At
  <2>1. job[j].kind = "upload" /\ job[j].dup \in DocIds
    BY <2>0, <1>k, <1>m DEF IngestPC, DupPC
  <2>2. CASE MarkOutdated(j)
    BY <1>6, <2>2, <1>a, <1>b, <1>c, UpdateTyped DEF Resolve, MarkOutdated, TypeOK
  <2>3. CASE UNCHANGED status /\ (Step(j, "moveChunks") \/ Step(j, "purgeOther"))
    <3>1. job' \in [Jobs -> Job] /\ \A i \in Jobs : JobShape(i)'
      BY <2>0, <2>1, <2>3, <1>i DEF IngestPC
    <3> QED
      BY <1>6, <2>3, <3>1, <1>a DEF Resolve, TypeOK
  <2> QED
    BY <1>6, <2>2, <2>3 DEF Resolve
<1>o. ASSUME NEW d \in DocIds, NEW busy, Override(d, busy) PROVE overridden' \subseteq Sources
  BY <1>o, StoreAssumption DEF Override, TypeOK
<1>7. CASE MoveChunks(j)
  <2>0. job[j].pc = "moveChunks" /\ job[j].kind = "upload" /\ job[j].dup \in DocIds /\ job[j].id \in DocIds
    BY <1>7, <1>k, <1>m DEF MoveChunks, At, IngestPC, DupPC, Shape, JobShape
  <2>1. job' \in [Jobs -> Job] /\ \A i \in Jobs : JobShape(i)'
    BY <1>7, <2>0, <1>f, <1>i DEF MoveChunks, IngestPC
  <2>2. overridden' \subseteq Sources
    BY <1>7, <2>0, <1>o DEF MoveChunks, Dup, TypeOK
  <2>3. chunks' \in [DocIds -> SUBSET Nat]
    <3>1. chunks \in [DocIds -> SUBSET Nat]
      BY DEF TypeOK
    <3>2. \/ chunks' = chunks
          \/ chunks' = [[chunks EXCEPT ![Dup(j)] = {}]
                          EXCEPT ![Doc(j)] = @ \cup chunks[Dup(j)]]
      BY <1>7 DEF MoveChunks
    <3>3. [chunks EXCEPT ![Dup(j)] = {}] \in [DocIds -> SUBSET Nat] /\ chunks[Dup(j)] \in SUBSET Nat
      BY <2>0, <3>1 DEF Dup
    <3>4. [chunks EXCEPT ![Dup(j)] = {}][Doc(j)] \cup chunks[Dup(j)] \in SUBSET Nat
      BY <2>0, <3>3 DEF Doc
    <3> QED
      BY <3>1, <3>2, <3>3, <3>4
  <2> QED
    BY <1>7, <1>a, <2>1, <2>2, <2>3 DEF MoveChunks, TypeOK
<1>8. CASE PurgeOther(j)
  <2>0. job[j].pc = "purgeOther" /\ job[j].kind = "upload" /\ job[j].dup \in DocIds
    BY <1>8, <1>k, <1>m DEF PurgeOther, At, IngestPC, DupPC
  <2>1. job' \in [Jobs -> Job] /\ \A i \in Jobs : JobShape(i)'
    BY <1>8, <2>0, <1>f, <1>i DEF PurgeOther, IngestPC
  <2>2. overridden' \subseteq Sources
    BY <1>8, <2>0, <1>o DEF PurgeOther, Dup, TypeOK
  <2>3. chunks' \in [DocIds -> SUBSET Nat]
    BY <1>8 DEF PurgeOther, TypeOK
  <2> QED
    BY <1>8, <1>a, <2>1, <2>2, <2>3 DEF PurgeOther, TypeOK
<1>9. CASE RetireOther(j)
  <2>0. job[j].pc \in {"retireMoved", "retireOther"} /\ job[j].kind = "upload" /\ job[j].dup \in DocIds
    BY <1>9, <1>k, <1>m DEF RetireOther, At, IngestPC, DupPC
  <2>1. job' \in [Jobs -> Job] /\ \A i \in Jobs : JobShape(i)'
    BY <1>9, <2>0, <1>i DEF RetireOther, IngestPC, DupPC
  <2>2. overridden' \subseteq Sources
    BY <1>9, <2>0, <1>o DEF RetireOther, Dup
  <2>3. status' \in [DocIds -> Status]
    BY <1>9, <1>b, UpdateTyped DEF RetireOther
  <2> QED
    BY <1>9, <1>a, <2>1, <2>2, <2>3 DEF RetireOther, TypeOK
<1>10. CASE Embed(j)
  <2>0. job[j].pc = "embed" /\ job[j].kind = "upload"
    BY <1>10, <1>k DEF Embed, At, IngestPC
  <2>1. job' \in [Jobs -> Job] /\ \A i \in Jobs : JobShape(i)'
    BY <1>10, <2>0, <1>f, <1>i DEF Embed, IngestPC, DupPC
  <2> QED
    BY <1>10, <1>a, <2>1 DEF Embed, TypeOK
<1>11. CASE Clear(j)
  <2>0. job[j].pc = "clear" /\ job[j].kind = "upload"
    BY <1>11, <1>k DEF Clear, At, IngestPC
  <2>1. job' \in [Jobs -> Job] /\ \A i \in Jobs : JobShape(i)'
    BY <1>11, <2>0, <1>f, <1>i DEF Clear, IngestPC, DupPC
  <2>2. chunks' \in [DocIds -> SUBSET Nat]
    BY <1>11 DEF Clear, TypeOK
  <2> QED
    BY <1>11, <1>a, <2>1, <2>2 DEF Clear, TypeOK
<1>12. CASE Insert(j)
  <2>0. job[j].pc = "insert" /\ job[j].kind = "upload"
    BY <1>12, <1>k DEF Insert, At, IngestPC
  <2>1. job' \in [Jobs -> Job] /\ \A i \in Jobs : JobShape(i)'
    BY <1>12, <2>0, <1>f, <1>i DEF Insert, IngestPC, DupPC
  <2>2. chunks' \in [DocIds -> SUBSET Nat]
    <3>1. chunks \in [DocIds -> SUBSET Nat] /\ job[j].id \in DocIds
      BY <2>0 DEF TypeOK, Shape, JobShape
    <3>2. chunks' = chunks \/ chunks' = [chunks EXCEPT ![Doc(j)] = @ \cup {job[j].ver}]
      BY <1>12 DEF Insert
    <3>3. chunks[Doc(j)] \cup {job[j].ver} \in SUBSET Nat
      BY <3>1, JobTyped DEF Doc
    <3> QED
      BY <3>1, <3>2, <3>3
  <2> QED
    BY <1>12, <1>a, <2>1, <2>2 DEF Insert, TypeOK
<1>13. CASE SetIndexed(j)
  BY <1>13, <1>a, <1>b, <1>c, UpdateTyped DEF SetIndexed, TypeOK
<1>14. CASE DeleteLoad(j)
  <2>0. job[j].pc = "load" /\ job[j].kind = "delete" /\ job[j].id \in DocIds
    BY <1>14 DEF DeleteLoad, At, Shape, JobShape
  <2>1. job' \in [Jobs -> Job] /\ \A i \in Jobs : JobShape(i)'
    <3>1. CASE End(j)
      BY <3>1, <1>c
    <3>2. CASE job' = [job EXCEPT ![j].pc = "mark", ![j].was = status[Doc(j)]]
      <4> DEFINE r == [job[j] EXCEPT !.pc = "mark", !.was = status[Doc(j)]]
      <4>1. status[Doc(j)] \in Status
        BY <2>0 DEF Doc, TypeOK
      <4>2. r \in Job /\ r.pc = "mark" /\ r.id = job[j].id /\ r.kind = job[j].kind
        BY <4>1, JobTyped DEF Job, PC, DeletePC
      <4>3. job' = [job EXCEPT ![j] = r]
        BY <3>2
      <4> HIDE DEF r
      <4>4. job' \in [Jobs -> Job] /\ job'[j] = r /\ \A i \in Jobs \ {j} : job'[i] = job[i]
        BY <4>2, <4>3 DEF TypeOK
      <4> QED
        BY <2>0, <4>2, <4>4 DEF Shape, JobShape, IngestPC, DeletePC, DupPC
    <3> QED
      BY <1>14, <3>1, <3>2 DEF DeleteLoad
  <2> QED
    BY <1>14, <1>a, <2>1 DEF DeleteLoad, TypeOK
<1>15. CASE SetDeleting(j)
  <2>1. job' \in [Jobs -> Job] /\ \A i \in Jobs : JobShape(i)'
    BY <1>15, <1>d, <1>l DEF SetDeleting, At, DeletePC
  <2> QED
    BY <1>15, <1>a, <1>b, <2>1, UpdateTyped DEF SetDeleting, TypeOK
<1>16. CASE DeleteChunks(j)
  <2>0. job[j].pc = "purge" /\ job[j].kind = "delete"
    BY <1>16, <1>l DEF DeleteChunks, At, DeletePC
  <2>1. job' \in [Jobs -> Job] /\ \A i \in Jobs : JobShape(i)'
    BY <1>16, <2>0, <1>f, <1>d DEF DeleteChunks, DeletePC
  <2>2. chunks' \in [DocIds -> SUBSET Nat]
    BY <1>16 DEF DeleteChunks, TypeOK
  <2> QED
    BY <1>16, <1>a, <2>1, <2>2 DEF DeleteChunks, TypeOK
<1>17. CASE DeleteFile(j)
  <2>1. job' \in [Jobs -> Job] /\ \A i \in Jobs : JobShape(i)'
    BY <1>17, <1>d, <1>l DEF DeleteFile, At, DeletePC
  <2>2. s3' \in [Sources -> Nat]
    <3>1. s3 \in [Sources -> Nat]
      BY DEF TypeOK
    <3>2. s3' = s3 \/ s3' = [s3 EXCEPT ![SourceOf[Doc(j)]] = 0]
      BY <1>17 DEF DeleteFile
    <3> QED
      BY <3>1, <3>2
  <2> QED
    BY <1>17, <1>a, <2>1, <2>2 DEF DeleteFile, TypeOK
<1>18. CASE DeleteRow(j)
  BY <1>18, <1>a, <1>b, <1>c, UpdateTyped DEF DeleteRow, TypeOK
<1>19. CASE Fail(j)
  <2>1. job' \in [Jobs -> Job] /\ \A i \in Jobs : JobShape(i)'
    BY <1>19, <1>f DEF Fail, At
  <2>2. chunks' \in [DocIds -> SUBSET Nat]
    BY <1>19 DEF Fail, TypeOK
  <2> QED
    BY <1>19, <1>a, <2>1, <2>2 DEF Fail, TypeOK
<1>20. CASE SetFailed(j)
  BY <1>20, <1>a, <1>b, <1>c, UpdateTyped DEF SetFailed, TypeOK
<1> QED
  BY <1>1, <1>2, <1>3, <1>4, <1>5, <1>6, <1>7, <1>8, <1>9, <1>10, <1>11, <1>12, <1>13,
     <1>14, <1>15, <1>16, <1>17, <1>18, <1>19, <1>20
  DEF JobStep, IngestStep, DeleteStep

\* Types and shape are inductive: every step of the system keeps both.
LEMMA NextTyped == TypeOK /\ Shape /\ [Next]_vars => TypeOK' /\ Shape'
<1> SUFFICES ASSUME TypeOK, Shape, [Next]_vars PROVE TypeOK' /\ Shape'
  OBVIOUS
<1>1. CASE UNCHANGED vars
  BY <1>1 DEF vars, rows, redis, counters, history, TypeOK, Shape, LoopShape, JobShape
<1>2. CASE Request
  BY <1>2, RequestTyped
<1>3. CASE Handle
  BY <1>3, HandleTyped
<1>4. CASE Poll \/ (\E j \in Jobs : StartTask(j)) \/ Crash
  BY <1>4, WorkerTyped
<1>5. ASSUME NEW j \in Jobs, JobStep(j) PROVE TypeOK' /\ Shape'
  BY <1>5, PipelineTyped
<1> QED
  BY <1>1, <1>2, <1>3, <1>4, <1>5 DEF Next

\* The rows, lists, delay sets, loop and jobs always have their types, for any
\* numbers of documents, workers and requests: in particular every event in a
\* list names a document that was generated.
THEOREM TypesHold == Spec => []TypeOK
<1>1. TypeOK /\ Shape /\ [Next]_vars => (TypeOK /\ Shape)'
  BY NextTyped
<1> QED
  BY InitTyped, <1>1, PTL DEF Spec
=============================================================================
