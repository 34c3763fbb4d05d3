------------------------------ MODULE DagsterProofs ------------------------------
(***************************************************************************)
(* What holds of DagsterMode for every number of documents, sources, runs   *)
(* and bounds: the types of the sensor's tick, of its requests and of the    *)
(* run ids, that the sensor never takes a living run for a zombie, that the *)
(* events it drops were superfluous, that no active document is left without *)
(* somebody who will move it on, and that none is dispatched twice.          *)
(***************************************************************************)
EXTENDS DagsterMode, ServesProofs

\* Where a tick holds one event.
HeldOp == {"setPending", "push", "look", "delay", "purge", "fail", "claim"}

SensorShape ==
  /\ sensor.op \in HeldOp <=> sensor.id \in DocIds
  /\ sensor.op \in {"drain", "setPending", "push"} <=> sensor.back = "drain"

\* The event loop runs handlers only, one at a time.
LoopHandles == loop.op \notin {"drain", "take", "claim"} /\ loop.back # "drain"
SettingShape == setting.op # "idle" => setting.id \in DocIds /\ loop.op = "idle"

\* Only a living run waits for a termination.
KilledShape == \A j \in killed : job[j].pc # "free"

DagShape ==
  TypeOK /\ Shape /\ SensorTypeOK /\ SensorShape /\ LoopHandles /\ SettingShape /\ KilledShape

-----------------------------------------------------------------------------
(* The steps of a tick that are the queue worker's and enqueue's, written on  *)
(* the sensor's own state.                                                    *)

SensorReady(kind) ==
  \E ready \in SUBSET delayed[kind] :
    /\ delayed' = [delayed EXCEPT ![kind] = @ \ ready]
    /\ sensor' = [IdleLoop EXCEPT !.op = "drain", !.kind = kind, !.back = "drain", !.todo = ready]

TickWaits ==
  /\ \/ sensor.op = "idle" /\ requests = <<>> /\ SensorReady("upload")
     \/ sensor.op = "drain" /\ sensor.todo = {} /\ SensorReady("delete")
     \/ /\ sensor.op = "drain" /\ sensor.todo = {} /\ UNCHANGED delayed
        /\ sensor' = [IdleLoop EXCEPT !.op = "take"]
  /\ UNCHANGED <<rows, queue>>

TickNext ==
  /\ sensor.op = "drain"
  /\ \E it \in sensor.todo, op \in {"push", "setPending"} :
       /\ status[it.id] \in {"running", "deleting"} <=> op = "push"
       /\ sensor' = [sensor EXCEPT !.id = it.id, !.force = it.force, !.todo = @ \ {it}, !.op = op]
  /\ UNCHANGED <<rows, queue, delayed>>

TickPending ==
  /\ sensor.op = "setPending"
  /\ UpdateStatus(sensor.id, "pending")
  /\ Turn("push")
  /\ UNCHANGED <<version, used, queue, delayed>>

TickPush ==
  /\ sensor.op = "push"
  /\ queue' = [queue EXCEPT ![sensor.kind] = Append(@, Held)]
  /\ sensor' = [sensor EXCEPT !.op = "drain", !.id = NoDoc, !.force = FALSE]
  /\ UNCHANGED <<rows, delayed>>

\* A tick begins and drains by one of these.
LEMMA TickIs ==
  ASSUME DagShape, TickBegin \/ TickDrain
  PROVE  /\ TickWaits \/ TickNext \/ TickPending \/ TickPush
         /\ UNCHANGED <<s3, chunks, loop, job, counters, history, runState>>
<1> USE DEF rows, redis, history, counters, runState, Drain!rows, Drain!redis, Drain!history,
            Drain!counters, Queue!rows, Queue!redis, Queue!history, Queue!counters
<1>0. \A kind : Drain!TakeReady(kind) => SensorReady(kind)
  BY DEF Drain!TakeReady, Drain!IdleLoop, SensorReady, IdleLoop
<1>1. CASE TickBegin
  BY <1>0, <1>1 DEF TickBegin, Drain!PollBegin, TickWaits
<1>2. CASE Drain!DrainNext /\ UNCHANGED <<loop, runState>>
  <2>1. PICK it \in sensor.todo :
          sensor' = [sensor EXCEPT !.id = it.id, !.force = it.force, !.todo = @ \ {it},
                       !.op = IF status[it.id] \in {"running", "deleting"}
                              THEN "push" ELSE "setPending"]
    BY <1>2 DEF Drain!DrainNext
  <2>2. PICK op \in {"push", "setPending"} : status[it.id] \in {"running", "deleting"} <=> op = "push"
    OBVIOUS
  <2>3. sensor' = [sensor EXCEPT !.id = it.id, !.force = it.force, !.todo = @ \ {it}, !.op = op]
    BY <2>1, <2>2
  <2>4. TickNext
    BY <1>2, <2>2, <2>3 DEF Drain!DrainNext, TickNext
  <2> QED
    BY <1>2, <2>4 DEF Drain!DrainNext
<1>3. CASE Drain!DrainDone /\ UNCHANGED <<loop, runState>>
  BY <1>0, <1>3 DEF Drain!DrainDone, TickWaits, Drain!IdleLoop, IdleLoop
<1>4. CASE Queue!SetPending /\ UNCHANGED <<loop, runState>>
  <2>1. asked' = asked
    BY <1>4 DEF Queue!SetPending, DagShape, SensorShape
  <2> QED
    BY <1>4, <2>1 DEF Queue!SetPending, Queue!UpdateStatus, Queue!HasRow, Queue!Goto, TickPending,
                      UpdateStatus, HasRow, Turn
<1>5. CASE Queue!Push /\ UNCHANGED <<loop, runState>>
  BY <1>5 DEF Queue!Push, Queue!Return, TickPush, Held, DagShape, SensorShape
<1> QED
  BY <1>1, <1>2, <1>3, <1>4, <1>5 DEF TickDrain

-----------------------------------------------------------------------------
(* Types. *)

Tick == [op : SensorOp, kind : Kind, id : DocIds \cup {NoDoc}, force : BOOLEAN,
         back : {"idle", "drain"}, todo : SUBSET Item, n : Nat, more : BOOLEAN]
RunRequest == [kind : Kind, item : Item]
Setting == [op : SettingOp, id : DocIds \cup {NoDoc}, kind : {"fail", "abort"},
            runs : SUBSET Jobs, lost : BOOLEAN]

\* The fields of the tick, and the event it holds.
LEMMA TickTyped ==
  ASSUME DagShape
  PROVE  /\ sensor \in Tick
         /\ sensor = [op |-> sensor.op, kind |-> sensor.kind, id |-> sensor.id,
                      force |-> sensor.force, back |-> sensor.back, todo |-> sensor.todo,
                      n |-> sensor.n, more |-> sensor.more]
         /\ sensor.op \in SensorOp /\ sensor.kind \in Kind /\ sensor.id \in DocIds \cup {NoDoc}
         /\ sensor.force \in BOOLEAN /\ sensor.back \in {"idle", "drain"}
         /\ sensor.todo \in SUBSET Item /\ sensor.n \in Nat /\ sensor.more \in BOOLEAN
         /\ sensor.op \in HeldOp => Held \in Item /\ Held.id = sensor.id
BY DEF DagShape, SensorTypeOK, Tick, SensorShape, Held, Item

\* The list that the tick reads, and its head.
LEMMA TickHead ==
  ASSUME DagShape, queue[sensor.kind] # <<>>
  PROVE  /\ queue[sensor.kind] \in Seq(Item) /\ Head(queue[sensor.kind]) \in Item
         /\ Tail(queue[sensor.kind]) \in Seq(Item)
         /\ Head(queue[sensor.kind]).id \in DocIds /\ Head(queue[sensor.kind]).force \in BOOLEAN
<1>1. queue[sensor.kind] \in Seq(Item)
  BY TickTyped DEF DagShape, TypeOK
<1>2. Head(queue[sensor.kind]) \in Item /\ Tail(queue[sensor.kind]) \in Seq(Item)
  BY <1>1
<1> QED
  BY <1>1, <1>2 DEF Item

\* A step that writes the sensor, and of the shared tables only what it says.
TickWrites ==
  /\ sensor' \in Tick /\ SensorShape'
  /\ status' \in [DocIds -> Status] /\ chunks' \in [DocIds -> SUBSET Nat]
  /\ queue' \in [Kind -> Seq(Item)] /\ delayed' \in [Kind -> SUBSET Item]
  /\ UNCHANGED <<version, used, s3, loop, uploads, overrides, history>>
  /\ crashes' \in Nat
  /\ requests' \in Seq(RunRequest) /\ runId' \in [DocIds -> Jobs \cup {NoRun, OldRun}]
  /\ UNCHANGED <<again, killed>>
  /\ \/ UNCHANGED job
     \/ \E j \in Jobs, kind \in Kind, e \in Item :
          /\ job[j].pc = "free" /\ job' = [job EXCEPT ![j] = NewJob(kind, e)]
  /\ setting' \in Setting /\ setting'.op = setting.op /\ setting'.id = setting.id

\* Giving back or handing on the event keeps the shape of the tick.
LEMMA TickGoes ==
  ASSUME DagShape, sensor.op \notin {"drain", "setPending", "push"}
  PROVE  /\ Back => sensor' \in Tick /\ SensorShape' /\ sensor'.op = "take" /\ sensor'.id = NoDoc
         /\ \A op \in HeldOp \ {"setPending", "push"} : sensor.op \in HeldOp /\ Turn(op)
              => sensor' \in Tick /\ SensorShape' /\ sensor'.op = op /\ sensor'.id = sensor.id
         /\ EndList => /\ sensor' \in Tick /\ SensorShape' /\ sensor'.op \in {"take", "launch"}
                       /\ sensor'.id = NoDoc
<1> USE DEF Tick, SensorOp, HeldOp, SensorShape, Kind
<1>0. sensor.back # "drain"
  BY DEF DagShape
<1>1. Back => sensor' \in Tick /\ SensorShape' /\ sensor'.op = "take" /\ sensor'.id = NoDoc
  BY <1>0, TickTyped, StoreAssumption DEF Back
<1>2. ASSUME NEW op \in HeldOp \ {"setPending", "push"}, sensor.op \in HeldOp, Turn(op)
      PROVE  sensor' \in Tick /\ SensorShape' /\ sensor'.op = op /\ sensor'.id = sensor.id
  BY <1>2, TickTyped DEF Turn, DagShape
<1>3. ASSUME EndList, sensor.kind = "upload"
      PROVE  sensor' \in Tick /\ SensorShape' /\ sensor'.op \in {"take", "launch"} /\ sensor'.id = NoDoc
  <2>1. sensor' = [op |-> "take", kind |-> "delete", id |-> NoDoc, force |-> FALSE,
                   back |-> sensor.back, todo |-> sensor.todo, n |-> sensor.n,
                   more |-> sensor.more]
    BY <1>3, TickTyped, ZenonT(60) DEF EndList
  <2> QED
    BY <1>0, <2>1, TickTyped, StoreAssumption
<1>4. ASSUME EndList, sensor.kind # "upload"
      PROVE  sensor' \in Tick /\ SensorShape' /\ sensor'.op \in {"take", "launch"} /\ sensor'.id = NoDoc
  <2>1. sensor' = [op |-> "launch", kind |-> "upload", id |-> NoDoc, force |-> FALSE,
                   back |-> "idle", todo |-> {}, n |-> 0, more |-> FALSE]
    BY <1>4 DEF EndList, IdleLoop
  <2> QED
    BY <2>1, StoreAssumption
<1> QED
  BY <1>1, <1>2, <1>3, <1>4

\* What a step of the sensor may write.
LEMMA SensorWrites ==
  ASSUME DagShape, SensorStep
  PROVE  TickWrites
<1>0. TypeOK /\ Shape /\ SensorTypeOK /\ SensorShape
  BY DEF DagShape
<1>t. /\ status \in [DocIds -> Status] /\ chunks \in [DocIds -> SUBSET Nat]
      /\ queue \in [Kind -> Seq(Item)] /\ delayed \in [Kind -> SUBSET Item] /\ crashes \in Nat
      /\ requests \in Seq(RunRequest) /\ runId \in [DocIds -> Jobs \cup {NoRun, OldRun}]
      /\ setting \in Setting
  BY <1>0 DEF TypeOK, SensorTypeOK, RunRequest, Setting
<1>s. {"pending", "running", "failed"} \subseteq Status
  BY DEF Status, RowStatus, StableStatus, ActiveStatus
<1>i. IdleLoop \in Tick /\ IdleLoop.op = "idle" /\ IdleLoop.id \notin DocIds
      /\ IdleLoop.back = "idle"
  BY StoreAssumption DEF IdleLoop, Tick, SensorOp, Kind
<1>r. ASSUME NEW kind \in Kind, SensorReady(kind)
      PROVE  sensor' \in Tick /\ SensorShape' /\ delayed' \in [Kind -> SUBSET Item]
  <2>1. PICK ready \in SUBSET delayed[kind] :
          /\ delayed' = [delayed EXCEPT ![kind] = @ \ ready]
          /\ sensor' = [IdleLoop EXCEPT !.op = "drain", !.kind = kind, !.back = "drain",
                                        !.todo = ready]
    BY <1>r DEF SensorReady
  <2>2. ready \in SUBSET Item
    BY <1>t
  <2> QED
    BY <1>t, <2>1, <2>2, StoreAssumption DEF IdleLoop, Tick, SensorOp, SensorShape, HeldOp
<1>u. ASSUME NEW st \in {"pending", "running", "failed"}, UpdateStatus(sensor.id, st)
      PROVE  status' \in [DocIds -> Status]
  BY <1>0, <1>s, <1>u, UpdateTyped
<1>1. CASE TickBegin \/ TickDrain
  <2>1. UNCHANGED <<s3, chunks, loop, job, counters, history, runState>>
    BY <1>1, TickIs
  <2>2. CASE TickWaits
    <3>1. sensor' \in Tick /\ SensorShape' /\ delayed' \in [Kind -> SUBSET Item]
      <4>1. CASE SensorReady("upload") \/ SensorReady("delete")
        BY <1>r, <4>1 DEF Kind
      <4>2. CASE UNCHANGED delayed /\ sensor' = [IdleLoop EXCEPT !.op = "take"]
        BY <1>i, <1>t, <4>2 DEF IdleLoop, Tick, SensorOp, SensorShape, HeldOp
      <4> QED
        BY <2>2, <4>1, <4>2 DEF TickWaits
    <3> QED
      BY <1>t, <2>1, <2>2, <3>1 DEF TickWaits, TickWrites, rows, counters, history, runState
  <2>3. CASE TickNext
    <3>1. PICK it \in sensor.todo, op \in {"push", "setPending"} :
            sensor' = [sensor EXCEPT !.id = it.id, !.force = it.force, !.todo = @ \ {it}, !.op = op]
      BY <2>3 DEF TickNext
    <3>2. it.id \in DocIds /\ it.force \in BOOLEAN /\ sensor.back = "drain"
      BY <1>0, <2>3, TickTyped DEF TickNext, SensorShape, Item
    <3>3. sensor' \in Tick /\ SensorShape'
      BY <3>1, <3>2, TickTyped DEF Tick, SensorOp, SensorShape, HeldOp
    <3> QED
      BY <1>t, <2>1, <2>3, <3>3 DEF TickNext, TickWrites, rows, counters, history, runState
  <2>4. CASE TickPending
    <3>1. sensor' \in Tick /\ SensorShape'
      BY <1>0, <2>4, TickTyped DEF TickPending, Turn, Tick, SensorOp, SensorShape, HeldOp
    <3>2. status' \in [DocIds -> Status]
      BY <1>u, <2>4 DEF TickPending
    <3> QED
      BY <1>t, <2>1, <2>4, <3>1, <3>2 DEF TickPending, TickWrites, counters, history, runState
  <2>5. CASE TickPush
    <3>1. sensor' \in Tick /\ SensorShape'
      BY <1>0, <2>5, TickTyped, StoreAssumption DEF TickPush, Tick, SensorOp, SensorShape, HeldOp
    <3>2. queue' \in [Kind -> Seq(Item)]
      <4>1. Held \in Item /\ sensor.kind \in Kind
        BY <2>5, TickTyped DEF TickPush, HeldOp
      <4>2. Append(queue[sensor.kind], Held) \in Seq(Item)
        BY <1>t, <4>1
      <4> QED
        BY <1>t, <2>5, <4>2 DEF TickPush
    <3> QED
      BY <1>t, <2>1, <2>5, <3>1, <3>2 DEF TickPush, TickWrites, rows, counters, history, runState
  <2> QED
    BY <1>1, <2>2, <2>3, <2>4, <2>5, TickIs
<1>2. CASE TakeEvent
  <2>1. /\ sensor' = [sensor EXCEPT !.op = "look", !.id = Head(queue[sensor.kind]).id,
                                    !.force = Head(queue[sensor.kind]).force]
        /\ queue' = [queue EXCEPT ![sensor.kind] = Tail(@)]
        /\ queue[sensor.kind] # <<>>
    BY <1>2 DEF TakeEvent
  <2>2. sensor' \in Tick /\ SensorShape'
    BY <1>0, <1>2, <2>1, TickHead, TickTyped DEF TakeEvent, Tick, SensorOp, SensorShape, HeldOp
  <2>3. queue' \in [Kind -> Seq(Item)]
    BY <1>t, <2>1, TickHead
  <2> QED
    BY <1>2, <1>t, <2>2, <2>3 DEF TakeEvent, TickWrites, rows, counters, history, runState
<1>3. CASE NoMoreEvents
  BY <1>3, <1>t, TickGoes DEF NoMoreEvents, TickWrites, vars, rows, redis, counters, history, runState
<1>4. CASE Look
  <2>1. sensor' \in Tick /\ SensorShape'
    BY <1>4, TickGoes DEF Look, HeldOp
  <2> QED
    BY <1>4, <1>t, <2>1 DEF Look, TickWrites, vars, rows, redis, counters, history, runState
<1>5. CASE Delay
  <2>1. delayed' \in [Kind -> SUBSET Item]
    BY <1>5, <1>t, TickTyped DEF Delay, HeldOp
  <2> QED
    BY <1>5, <1>t, <2>1, TickGoes DEF Delay, TickWrites, rows, counters, history, runState
<1>6. CASE ZombiePurge
  <2>1. sensor' \in Tick /\ SensorShape'
    BY <1>6, TickGoes DEF ZombiePurge, HeldOp
  <2>2. chunks' \in [DocIds -> SUBSET Nat]
    BY <1>6, <1>t DEF ZombiePurge, PurgeChunks
  <2> QED
    BY <1>6, <1>t, <2>1, <2>2 DEF ZombiePurge, TickWrites, rows, redis, counters, history, runState
<1>7. CASE ZombieFail
  <2>1. sensor' \in Tick /\ SensorShape'
    BY <1>7, TickGoes DEF ZombieFail, HeldOp
  <2>2. status' \in [DocIds -> Status]
    BY <1>7, <1>u DEF ZombieFail
  <2> QED
    BY <1>7, <1>t, <2>1, <2>2 DEF ZombieFail, TickWrites, redis, counters, history, runState
<1>8. CASE Dispatch
  <2>1. sensor' \in Tick /\ SensorShape'
    <3>1. sensor' = [op |-> "take", kind |-> sensor.kind, id |-> NoDoc, force |-> FALSE,
                     back |-> sensor.back, todo |-> sensor.todo, n |-> sensor.n + 1,
                     more |-> sensor.more]
      BY <1>8, TickTyped DEF Dispatch
    <3>2. sensor'.n \in Nat
      BY <3>1, TickTyped
    <3> QED
      BY <1>0, <1>8, <3>1, <3>2, TickTyped, StoreAssumption DEF Dispatch, Tick, SensorOp, SensorShape, HeldOp
  <2>2. status' \in [DocIds -> Status] /\ runId' \in [DocIds -> Jobs \cup {NoRun, OldRun}]
    BY <1>8, <1>t, <1>u DEF Dispatch
  <2>3. requests' \in Seq(RunRequest)
    BY <1>8, <1>t, TickTyped DEF Dispatch, RunRequest, HeldOp
  <2> QED
    BY <1>8, <1>t, <2>1, <2>2, <2>3 DEF Dispatch, TickWrites, redis, counters, history
<1>9. CASE LookError
  <2>1. queue' \in [Kind -> Seq(Item)]
    <3>1. Held \in Item /\ sensor.kind \in Kind
      BY <1>9, TickTyped DEF LookError, HeldOp
    <3>2. Append(queue[sensor.kind], Held) \in Seq(Item)
      BY <1>t, <3>1
    <3> QED
      BY <1>9, <1>t, <3>2 DEF LookError
  <2> QED
    BY <1>9, <1>t, <2>1, TickGoes DEF LookError, TickWrites, rows, counters, history, runState
<1>10. CASE Launch
  <2>1. sensor' \in Tick /\ SensorShape'
    <3>1. sensor' = IdleLoop \/ sensor' = sensor
      BY <1>10 DEF Launch
    <3> QED
      BY <1>0, <1>i, <3>1, TickTyped DEF SensorShape, HeldOp
  <2>2. CASE requests = <<>>
    BY <1>10, <1>t, <2>1, <2>2 DEF Launch, TickWrites, rows, redis, counters, history
  <2>3. CASE requests # <<>>
    <3>1. Head(requests) \in RunRequest /\ Tail(requests) \in Seq(RunRequest)
      BY <1>t, <2>3
    <3>2. PICK j \in Jobs :
            /\ job[j].pc = "free"
            /\ job' = [job EXCEPT ![j] = NewJob(Head(requests).kind, Head(requests).item)]
            /\ runId' = [d \in DocIds |-> IF runId[d] = j THEN OldRun ELSE runId[d]]
            /\ setting' = [setting EXCEPT !.runs = @ \ {j}]
      BY <1>10, <2>3 DEF Launch
    <3>3. Head(requests).kind \in Kind /\ Head(requests).item \in Item
      BY <3>1 DEF RunRequest
    <3>4. setting' \in Setting /\ setting'.op = setting.op /\ setting'.id = setting.id
      BY <1>t, <3>2 DEF Setting
    <3>5. runId' \in [DocIds -> Jobs \cup {NoRun, OldRun}] /\ requests' = Tail(requests)
      BY <1>10, <1>t, <2>3, <3>2 DEF Launch
    <3> QED
      BY <1>10, <1>t, <2>1, <3>1, <3>2, <3>3, <3>4, <3>5
         DEF Launch, TickWrites, rows, redis, counters, history
  <2> QED
    BY <2>2, <2>3
<1>11. CASE TickFails
  <2>1. sensor' \in Tick /\ SensorShape'
    BY <1>11, <1>i DEF TickFails, SensorShape, HeldOp, IdleLoop
  <2>2. requests' \in Seq(RunRequest) /\ crashes' \in Nat
    BY <1>11, <1>t DEF TickFails
  <2> QED
    BY <1>11, <1>t, <2>1, <2>2 DEF TickFails, TickWrites, rows, redis, history
<1> QED
  BY <1>1, <1>2, <1>3, <1>4, <1>5, <1>6, <1>7, <1>8, <1>9, <1>10, <1>11 DEF SensorStep

\* A step of the sensor keeps the types.
LEMMA SensorTyped ==
  ASSUME DagShape, SensorStep
  PROVE  DagShape'
<1>0. TypeOK /\ Shape /\ SensorTypeOK /\ LoopHandles /\ SettingShape
  BY DEF DagShape
<1>1. TickWrites
  BY SensorWrites
<1>2. job' \in [Jobs -> Job] /\ \A i \in Jobs : JobShape(i)'
  <2>1. CASE UNCHANGED job
    BY <1>0, <2>1 DEF TypeOK, Shape, JobShape
  <2>2. ASSUME NEW j \in Jobs, NEW kind \in Kind, NEW e \in Item,
               job' = [job EXCEPT ![j] = NewJob(kind, e)]
        PROVE  job' \in [Jobs -> Job] /\ \A i \in Jobs : JobShape(i)'
    <3> DEFINE r == NewJob(kind, e)
    <3>1. r \in Job /\ r.pc = "wait" /\ r.id \in DocIds
      BY DEF NewJob, FreeJob, Job, PC, Item, Kind, Status
    <3> HIDE DEF r
    <3>2. \A i \in Jobs : job'[i] = IF i = j THEN r ELSE job[i]
      BY <1>0, <2>2 DEF TypeOK, r
    <3>3. job' \in [Jobs -> Job]
      BY <1>0, <2>2, <3>1 DEF TypeOK, r
    <3>4. JobShape(j)'
      BY <3>1, <3>2 DEF JobShape, IngestPC, DeletePC, DupPC
    <3> QED
      BY <1>0, <3>2, <3>3, <3>4 DEF Shape, JobShape
  <2> QED
    BY <1>1, <2>1, <2>2 DEF TickWrites
<1>3. TypeOK' /\ Shape'
  BY <1>0, <1>1, <1>2 DEF TickWrites, TypeOK, Shape, LoopShape, history
<1>4. SensorTypeOK'
  BY <1>0, <1>1 DEF TickWrites, SensorTypeOK, Tick, RunRequest, Setting
<1>5. KilledShape'
  <2>1. ASSUME NEW i \in killed PROVE job'[i].pc # "free"
    <3>1. i \in Jobs /\ job[i].pc # "free"
      BY <1>0 DEF SensorTypeOK, DagShape, KilledShape
    <3> QED
      BY <1>0, <1>1, <3>1 DEF TickWrites, TypeOK
  <2> QED
    BY <1>1, <2>1 DEF TickWrites, KilledShape
<1> QED
  BY <1>0, <1>1, <1>3, <1>4, <1>5 DEF DagShape, TickWrites, LoopHandles, SettingShape

\* What an op between the first and the hook does: its run moves on or ends, and
\* it writes its own document's status, or retires the duplicate.
Moved(j, pc) ==
  /\ job' \in [Jobs -> Job] /\ \A i \in Jobs \ {j} : job'[i] = job[i]
  /\ job'[j].pc = pc
  /\ pc # "free" => job'[j].kind = job[j].kind /\ job'[j].id = job[j].id

OpWrites(j) ==
  \/ /\ job[j].kind = "upload" /\ job[j].pc \in IngestPC /\ UNCHANGED <<status, killed>>
     /\ \E pc \in IngestPC \cup {"fail"} : Moved(j, pc)
     /\ overridden \subseteq overridden'
  \/ /\ job[j].kind = "upload" /\ job[j].pc \in IngestPC /\ UNCHANGED overridden
     /\ \E st \in {"indexed", "outdated"} : UpdateStatus(Doc(j), st)
     /\ Moved(j, "free") /\ killed' = killed \ {j}
  \/ /\ job[j].kind = "upload" /\ job[j].pc \in IngestPC /\ job[j].dup \in DocIds
     /\ UpdateStatus(job[j].dup, "outdated") /\ Override(job[j].dup, Stale(job[j].dup))
     /\ UNCHANGED <<killed>>
     /\ \E pc \in IngestPC : Moved(j, pc)
  \/ /\ job[j].kind = "delete" /\ job[j].pc = "load" /\ UNCHANGED <<status, overridden>>
     /\ status[Doc(j)] \in {"none", "deleted"} /\ Moved(j, "free") /\ killed' = killed \ {j}
  \/ /\ job[j].kind = "delete" /\ job[j].pc = "load" /\ UNCHANGED <<status, overridden, killed>>
     /\ status[Doc(j)] \notin {"none", "deleted"} /\ Moved(j, "mark")
  \/ /\ job[j].kind = "delete" /\ job[j].pc = "mark" /\ UNCHANGED <<overridden, killed>>
     /\ UpdateStatus(Doc(j), "deleting") /\ Moved(j, "purge")
  \/ /\ job[j].kind = "delete" /\ job[j].pc \in {"purge", "file"}
     /\ UNCHANGED <<status, overridden, killed>>
     /\ \E pc \in {"file", "row", "fail"} : Moved(j, pc)
  \/ /\ job[j].kind = "delete" /\ job[j].pc = "row" /\ UNCHANGED overridden
     /\ \E st \in {"none", "deleted"} : UpdateStatus(Doc(j), st)
     /\ Moved(j, "free") /\ killed' = killed \ {j}

\* The ops that are not the first, the last or the hook do no more than that.
LEMMA OpStepWrites ==
  ASSUME DagShape, NEW j \in Jobs, OpStep(j)
  PROVE  OpWrites(j) /\ UNCHANGED apiVars
<1> USE DEF At
<1>0. TypeOK /\ JobShape(j) /\ job[j].kind \in Kind
  BY JobTyped DEF DagShape, Shape
<1>u. UNCHANGED apiVars
  BY DEF OpStep, IngestStep, DeleteStep, IngestLoad, IngestBegin, Parse, Detect, Identical,
         Resolve, MoveChunks, PurgeOther, RetireOther, Embed, Clear, Insert, SetIndexed,
         DeleteLoad, SetDeleting, DeleteChunks, DeleteFile, DeleteRow
<1>p. /\ IngestPC \cup DeletePC \cup FailPC \subseteq PC \ {"free"} /\ "load" \notin IngestPC
      /\ "fail" \notin IngestPC /\ "free" \notin IngestPC
  BY DEF PC, IngestPC, DeletePC, FailPC
<1>o. killed' = IF job'[j].pc = "free" THEN killed \ {j} ELSE killed
  BY DEF OpStep
<1>e. End(j) => Moved(j, "free") /\ killed' = killed \ {j}
  BY <1>0, <1>o, EndEffect DEF Moved
<1>s. \A pc \in IngestPC \cup DeletePC \cup {"fail"} : Step(j, pc) => Moved(j, pc) /\ killed' = killed
  BY <1>0, <1>o, <1>p, StepEffect DEF Moved, FailPC
<1>r. ASSUME NEW r \in Job, job' = [job EXCEPT ![j] = r], r.id = job[j].id, r.kind = job[j].kind,
             r.pc # "free"
      PROVE  Moved(j, r.pc) /\ killed' = killed
  BY <1>0, <1>o, <1>r DEF TypeOK, Moved
<1> HIDE DEF Moved
<1>i. job[j].pc \in IngestPC => job[j].kind = "upload"
  BY <1>0 DEF JobShape
<1>d. job[j].pc \in DeletePC => job[j].kind = "delete"
  BY <1>0 DEF JobShape
<1>f. {"parse", "dedup", "embed", "moveChunks", "purgeOther", "retireMoved", "retireOther", "indexMoved",
       "clear", "insert", "index", "identical", "resolveMoved", "resolveSimilar"} \subseteq IngestPC
  BY DEF IngestPC
<1>g. {"mark", "purge", "file", "row"} = DeletePC
  BY DEF DeletePC
<1>1. ASSUME Parse(j) PROVE OpWrites(j)
  <2> DEFINE r == [job[j] EXCEPT !.pc = "dedup", !.ver = s3[SourceOf[Doc(j)]]]
  <2>1. job[j].pc = "parse" /\ job[j].pc \in IngestPC /\ UNCHANGED <<status, overridden>>
    BY <1>1, <1>f DEF Parse
  <2>2. s3[SourceOf[Doc(j)]] \in Nat
    BY <1>0, <1>p, <2>1, StoreAssumption DEF JobShape, Doc, TypeOK
  <2>3. r \in Job /\ r.pc = "dedup" /\ r.id = job[j].id /\ r.kind = job[j].kind
    BY <1>0, <1>f, <1>p, <2>2, JobTyped DEF Job
  <2>4. job' = [job EXCEPT ![j] = r] \/ Step(j, "fail")
    BY <1>1 DEF Parse
  <2> HIDE DEF r
  <2>5. \E pc \in IngestPC \cup {"fail"} : Moved(j, pc) /\ killed' = killed
    BY <1>f, <1>r, <1>s, <2>3, <2>4
  <2> QED
    BY <1>i, <2>1, <2>5 DEF OpWrites
<1>2. ASSUME Detect(j) PROVE OpWrites(j)
  <2>1. job[j].pc = "dedup" /\ job[j].pc \in IngestPC /\ UNCHANGED <<status, overridden>>
    BY <1>2, <1>f DEF Detect
  <2>2. ASSUME NEW e \in DocIds, NEW pc \in {"identical", "resolveMoved", "resolveSimilar"},
               job' = [job EXCEPT ![j].pc = pc, ![j].dup = e]
        PROVE  Moved(j, pc) /\ killed' = killed
    <3> DEFINE r == [job[j] EXCEPT !.pc = pc, !.dup = e]
    <3>1. pc \in PC /\ pc # "free"
      BY <1>f, <1>p
    <3>2. r \in Job /\ r.pc = pc /\ r.id = job[j].id /\ r.kind = job[j].kind
      BY <1>0, <3>1, JobTyped DEF Job
    <3>3. job' = [job EXCEPT ![j] = r]
      BY <2>2
    <3> HIDE DEF r
    <3> QED
      BY <1>r, <3>1, <3>2, <3>3
  <2>3. \E pc \in IngestPC \cup {"fail"} : Moved(j, pc) /\ killed' = killed
    BY <1>2, <1>f, <1>s, <2>2 DEF Detect, Candidates
  <2> QED
    BY <1>i, <2>1, <2>3 DEF OpWrites
<1>3. ASSUME Identical(j) \/ (Resolve(j) /\ MarkOutdated(j)) \/ SetIndexed(j) PROVE OpWrites(j)
  <2>1. job[j].pc \in IngestPC /\ UNCHANGED overridden /\ End(j)
    BY <1>3, <1>f DEF Identical, Resolve, MarkOutdated, SetIndexed
  <2>2. \E st \in {"indexed", "outdated"} : UpdateStatus(Doc(j), st)
    BY <1>3 DEF Identical, MarkOutdated, SetIndexed
  <2> QED
    BY <1>e, <1>i, <2>1, <2>2 DEF OpWrites
<1>4. ASSUME Resolve(j), UNCHANGED status, \E pc \in {"moveChunks", "purgeOther"} : Step(j, pc)
      PROVE  OpWrites(j)
  <2>1. job[j].pc \in IngestPC /\ UNCHANGED overridden
    BY <1>4, <1>f DEF Resolve
  <2> QED
    BY <1>4, <1>f, <1>i, <1>s, <2>1 DEF OpWrites
<1>5. ASSUME MoveChunks(j) \/ PurgeOther(j) \/ Embed(j) \/ Clear(j) \/ Insert(j) PROVE OpWrites(j)
  <2>1. job[j].pc \in IngestPC /\ UNCHANGED status /\ overridden \subseteq overridden'
    BY <1>5, <1>f DEF MoveChunks, PurgeOther, Embed, Clear, Insert, Override
  <2>2. \E pc \in {"retireMoved", "retireOther", "clear", "insert", "index", "fail"} : Step(j, pc)
    BY <1>5 DEF MoveChunks, PurgeOther, Embed, Clear, Insert
  <2>3. \E pc \in IngestPC \cup {"fail"} : Moved(j, pc) /\ killed' = killed
    BY <1>f, <1>s, <2>2
  <2> QED
    BY <1>i, <2>1, <2>3 DEF OpWrites
<1>6. ASSUME RetireOther(j) PROVE OpWrites(j)
  <2>1. job[j].pc \in IngestPC /\ job[j].dup \in DocIds
    BY <1>0, <1>6, <1>f DEF RetireOther, JobShape, DupPC
  <2>2. \E pc \in {"indexMoved", "embed"} : Step(j, pc)
    BY <1>6 DEF RetireOther
  <2>3. \E pc \in IngestPC : Moved(j, pc) /\ killed' = killed
    BY <1>f, <1>s, <2>2
  <2> QED
    BY <1>6, <1>i, <2>1, <2>3 DEF RetireOther, Dup, OpWrites
<1>7. ASSUME DeleteLoad(j) PROVE OpWrites(j)
  <2> DEFINE r == [job[j] EXCEPT !.pc = "mark", !.was = status[Doc(j)]]
  <2>1. job[j].pc = "load" /\ job[j].kind = "delete" /\ UNCHANGED <<status, overridden>>
    BY <1>7 DEF DeleteLoad
  <2>2. status[Doc(j)] \in Status
    BY <1>0, <2>1 DEF JobShape, Doc, TypeOK
  <2>3. r \in Job /\ r.pc = "mark" /\ r.id = job[j].id /\ r.kind = job[j].kind
    BY <1>0, <1>g, <1>p, <2>2, JobTyped DEF Job
  <2>4. \/ job' = [job EXCEPT ![j] = r] /\ status[Doc(j)] \notin {"none", "deleted"}
        \/ End(j) /\ status[Doc(j)] \in {"none", "deleted"}
    BY <1>7 DEF DeleteLoad
  <2> HIDE DEF r
  <2>5. r.pc # "free"
    BY <2>3
  <2> QED
    BY <1>e, <1>r, <2>1, <2>3, <2>4, <2>5 DEF OpWrites
<1>8. ASSUME SetDeleting(j) PROVE OpWrites(j)
  BY <1>8, <1>d, <1>g, <1>s DEF SetDeleting, OpWrites
<1>9. ASSUME DeleteChunks(j) \/ DeleteFile(j) PROVE OpWrites(j)
  <2>1. job[j].pc \in {"purge", "file"} /\ UNCHANGED <<status, overridden>>
    BY <1>9 DEF DeleteChunks, DeleteFile
  <2>2. \E pc \in {"file", "row", "fail"} : Step(j, pc)
    BY <1>9 DEF DeleteChunks, DeleteFile
  <2>3. \E pc \in {"file", "row", "fail"} : Moved(j, pc) /\ killed' = killed
    BY <1>g, <1>s, <2>2
  <2> QED
    BY <1>d, <1>g, <2>1, <2>3 DEF OpWrites
<1>10. ASSUME DeleteRow(j) PROVE OpWrites(j)
  BY <1>10, <1>d, <1>e, <1>g DEF DeleteRow, OpWrites
<1>11. Resolve(j) => \/ MarkOutdated(j)
                     \/ UNCHANGED status /\ \E pc \in {"moveChunks", "purgeOther"} : Step(j, pc)
  BY DEF Resolve
<1>12. ~IngestLoad(j) /\ ~IngestBegin(j)
  BY DEF OpStep, IngestLoad, IngestBegin
<1> QED
  BY <1>1, <1>2, <1>3, <1>4, <1>5, <1>6, <1>7, <1>8, <1>9, <1>10, <1>11, <1>12, <1>u
     DEF OpStep, IngestStep, DeleteStep

\* What a step of a run may write.
RunWrites(j) ==
  /\ job' \in [Jobs -> Job] /\ \A i \in Jobs \ {j} : job'[i] = job[i]
  /\ JobShape(j)'
  /\ job[j].pc # "free"
  /\ job'[j].pc # "free" => /\ job'[j].pc # "wait" /\ job'[j].id = job[j].id
                            /\ job'[j].kind = job[j].kind
  /\ status' \in [DocIds -> Status] /\ chunks' \in [DocIds -> SUBSET Nat]
  /\ s3' \in [Sources -> Nat] /\ overridden' \subseteq Sources /\ crashes' \in Nat
  /\ UNCHANGED <<version, used, redis, loop, uploads, overrides, asked, sensor, requests, setting>>
  /\ runId' = runId \/ SetRun(j)
  /\ job'[j].pc = "load" => job[j].pc = "wait" /\ runId' = runId
  /\ again' \subseteq again \cup {j}
  /\ killed' \subseteq killed

\* Every step of a run does what RunWrites says.
LEMMA RunStepWrites ==
  ASSUME DagShape, NEW j \in Jobs, RunStep(j)
  PROVE  RunWrites(j)
<1>0. TypeOK /\ Shape /\ SensorTypeOK /\ JobShape(j)
  BY DEF DagShape, Shape
<1>t. /\ status \in [DocIds -> Status] /\ chunks \in [DocIds -> SUBSET Nat]
      /\ s3 \in [Sources -> Nat] /\ overridden \subseteq Sources /\ crashes \in Nat
  BY <1>0 DEF TypeOK
<1>s. {"running", "failed"} \subseteq Status
  BY DEF Status, RowStatus, StableStatus, ActiveStatus
<1>p. {"load", "begin", "parse", "fail", "failed"} \subseteq PC
  BY DEF PC, IngestPC, FailPC
<1>d. ASSUME job[j].pc # "free" PROVE Doc(j) \in DocIds /\ SourceOf[Doc(j)] \in Sources
  BY <1>0, <1>d, StoreAssumption DEF JobShape, Doc
<1>a. ASSUME NEW pc \in {"load", "begin", "parse", "fail", "failed"}, job[j].pc # "free", Step(j, pc),
             pc \in {"begin", "parse"} => job[j].kind = "upload"
      PROVE  /\ job' \in [Jobs -> Job] /\ \A i \in Jobs \ {j} : job'[i] = job[i]
             /\ JobShape(j)'
             /\ job'[j].pc = pc /\ job'[j].id = job[j].id /\ job'[j].kind = job[j].kind
  <2>1. pc \in PC
    BY <1>p
  <2>2. /\ job' \in [Jobs -> Job] /\ \A i \in Jobs \ {j} : job'[i] = job[i]
        /\ job'[j].pc = pc /\ job'[j].kind = job[j].kind /\ job'[j].id = job[j].id
    BY <1>0, <1>a, <2>1, StepEffect
  <2>3. JobShape(j)'
    BY <1>0, <1>a, <2>2 DEF JobShape, IngestPC, DeletePC, DupPC
  <2> QED
    BY <2>2, <2>3
<1>e. ASSUME End(j)
      PROVE  /\ job' \in [Jobs -> Job] /\ \A i \in Jobs \ {j} : job'[i] = job[i]
             /\ JobShape(j)' /\ job'[j].pc = "free"
  BY <1>0, <1>e, EndEffect DEF JobShape, IngestPC, DeletePC, DupPC
<1>1. CASE StartRun(j)
  BY <1>1, <1>a, <1>t
     DEF StartRun, At, RunWrites, rows, counters, history, dagster, SetRun
<1>2. CASE ValidateBegin(j)
  <2>1. status' \in [DocIds -> Status]
    BY <1>0, <1>2, <1>s, UpdateTyped DEF ValidateBegin
  <2> QED
    BY <1>2, <1>a, <1>t, <2>1 DEF ValidateBegin, At, RunWrites, apiVars, counters, OfRun
<1>3. CASE Validate(j)
  <2>1. job[j].kind = "upload"
    BY <1>0, <1>3 DEF Validate, At, JobShape, IngestPC
  <2> QED
    BY <1>3, <1>a, <1>t, <2>1 DEF Validate, At, RunWrites, apiVars, counters, OfRun
<1>4. CASE OpStep(j)
  <2>1. JobStep(j)
    BY <1>4 DEF OpStep, JobStep
  <2>2. TypeOK' /\ Shape'
    BY <1>0, <2>1, PipelineTyped
  <2>3. OpWrites(j) /\ UNCHANGED apiVars
    BY <1>4, OpStepWrites
  <2>4. /\ \A i \in Jobs \ {j} : job'[i] = job[i]
        /\ job[j].pc # "free" /\ job'[j].pc \notin {"wait", "load"}
        /\ job'[j].pc # "free" => job'[j].id = job[j].id /\ job'[j].kind = job[j].kind
        /\ killed' \subseteq killed
    BY <2>3 DEF OpWrites, Moved, IngestPC
  <2>5. UNCHANGED <<sensor, requests, setting, again>> /\ (runId' = runId \/ SetRun(j))
    BY <1>4 DEF OpStep, OfRun
  <2> QED
    BY <1>0, <2>2, <2>3, <2>4, <2>5 DEF RunWrites, TypeOK, Shape, apiVars, counters
<1>5. CASE RunPurge(j)
  <2>1. chunks' \in [DocIds -> SUBSET Nat]
    BY <1>5, <1>t DEF RunPurge, PurgeChunks
  <2>2. overridden' \subseteq Sources
    BY <1>5, <1>d, <1>t DEF RunPurge, Override, At
  <2> QED
    BY <1>5, <1>a, <1>t, <2>1, <2>2 DEF RunPurge, At, RunWrites, apiVars, counters, dagster
<1>6. CASE RunFailed(j)
  <2>1. status' \in [DocIds -> Status]
    BY <1>0, <1>6, <1>s, UpdateTyped DEF RunFailed
  <2>2. overridden' \subseteq Sources
    BY <1>6, <1>d, <1>t DEF RunFailed, Override, At
  <2> QED
    BY <1>6, <1>a, <1>e, <1>t, <2>1, <2>2 DEF RunFailed, At, RunWrites, apiVars, counters, OfRun
<1>7. CASE Interrupted(j)
  <2>1. job[j].pc # "free"
    BY <1>7 DEF Interrupted, DagShape, KilledShape
  <2> QED
    BY <1>7, <1>a, <1>e, <1>t, <2>1 DEF Interrupted, At, RunWrites, apiVars, counters, OfRun
<1>8. CASE RunDies(j)
  BY <1>8, <1>e, <1>t DEF RunDies, At, RunWrites, rows, history, OfRun
<1> QED
  BY <1>1, <1>2, <1>3, <1>4, <1>5, <1>6, <1>7, <1>8 DEF RunStep

\* A run that ends is forgotten by those that wait for its termination.
LEMMA RunStepForgets ==
  ASSUME DagShape, NEW j \in Jobs, RunStep(j), job'[j].pc = "free"
  PROVE  j \notin killed'
<1>0. TypeOK
  BY DEF DagShape
<1>s. ASSUME NEW pc \in {"load", "begin", "parse", "fail", "failed"}, Step(j, pc)
      PROVE  job'[j].pc # "free"
  BY <1>0, <1>s DEF TypeOK, Step
<1>1. CASE OpStep(j)
  BY <1>1 DEF OpStep
<1>2. CASE RunFailed(j)
  BY <1>2, <1>s DEF RunFailed
<1>3. CASE Interrupted(j) \/ RunDies(j)
  BY <1>3, <1>s DEF Interrupted, RunDies
<1> QED
  BY <1>1, <1>2, <1>3, <1>s DEF RunStep, StartRun, ValidateBegin, Validate, RunPurge

\* A step of a run keeps the types.
LEMMA RunTyped ==
  ASSUME DagShape, NEW j \in Jobs, RunStep(j)
  PROVE  DagShape'
<1>0. TypeOK /\ Shape /\ SensorTypeOK /\ SensorShape /\ LoopHandles /\ SettingShape /\ KilledShape
  BY DEF DagShape
<1>1. RunWrites(j)
  BY RunStepWrites
<1>2. TypeOK' /\ Shape'
  BY <1>0, <1>1 DEF RunWrites, TypeOK, Shape, LoopShape, JobShape, redis
<1>3. runId' \in [DocIds -> Jobs \cup {NoRun, OldRun}]
  BY <1>0, <1>1 DEF RunWrites, SetRun, SensorTypeOK
<1>4. SensorTypeOK'
  BY <1>0, <1>1, <1>3 DEF RunWrites, SensorTypeOK
<1>5. KilledShape'
  BY <1>0, <1>1, RunStepForgets DEF RunWrites, KilledShape, SensorTypeOK
<1> QED
  BY <1>0, <1>1, <1>2, <1>4, <1>5 DEF DagShape, RunWrites, SensorShape, LoopHandles, SettingShape

\* The requests and handlers of DocsApi touch nothing of the sensor's.
LEMMA ApiTyped ==
  ASSUME DagShape, UNCHANGED dagster,
         \/ Handle
         \/ /\ setting.op = "idle"
            /\ \/ \E d \in DocIds : UploadBegin(d)
               \/ \E d \in DocIds, force \in BOOLEAN : DeleteBegin(d, force) \/ ReindexBegin(d, force)
               \/ \E force \in BOOLEAN : ReindexKbBegin(force)
               \/ \E d \in DocIds : RecoverBegin(d)
  PROVE  DagShape'
<1>0. TypeOK /\ Shape /\ SensorTypeOK /\ SensorShape /\ LoopHandles /\ SettingShape /\ KilledShape
  BY DEF DagShape
<1>1. TypeOK' /\ Shape'
  BY <1>0, RequestTyped, HandleTyped DEF Request
<1>2. UNCHANGED job /\ setting.op = "idle"
  BY <1>0 DEF Handle, UploadPut, UploadStage, ReindexKbNext, Enqueue, SetPending, Push, FailPurge,
     FailMark, UploadBegin, DeleteBegin, ReindexBegin, ReindexKbBegin, RecoverBegin, SettingShape
<1>3. LoopHandles'
  <2>1. loop.back \in {"idle", "reindex"}
    BY <1>0 DEF Shape, LoopShape, LoopHandles
  <2>2. \A op : Goto(op) => loop'.op = op /\ loop'.back = loop.back
    BY <1>0, LoopTyped DEF Goto
  <2>3. Return => loop'.op \in {"idle", "reindex"} /\ loop'.back \in {"idle", "reindex"}
    BY <1>0, <2>1, LoopTyped DEF Return, IdleLoop
  <2>4. CASE Handle
    <3>1. ReindexKbNext => LoopHandles'
      <4>1. CASE \E it \in loop.todo : loop' = [loop EXCEPT !.op = "enqueue", !.id = it.id,
                                                !.force = it.force, !.todo = @ \ {it}]
        BY <1>0, <2>1, <4>1, LoopTyped DEF LoopHandles
      <4>2. CASE (\E it \in loop.todo : loop' = [loop EXCEPT !.todo = @ \ {it}]) \/ loop' = IdleLoop
        BY <1>0, <2>1, <4>2, LoopTyped DEF LoopHandles, IdleLoop
      <4> QED
        BY <4>1, <4>2 DEF ReindexKbNext
    <3>2. FailMark => LoopHandles'
      BY <1>0, <2>1, LoopTyped DEF FailMark, LoopHandles, IdleLoop
    <3> QED
      BY <2>1, <2>2, <2>3, <2>4, <3>1, <3>2 DEF Handle, UploadPut, UploadStage, Enqueue, SetPending,
         Push, FailPurge, LoopHandles, IdleLoop
  <2>5. CASE ~Handle
    BY <2>5, ZenonT(60) DEF UploadBegin, DeleteBegin, ReindexBegin, ReindexKbBegin, RecoverBegin, Begin, IdleLoop,
       LoopHandles
  <2> QED
    BY <2>4, <2>5
<1> QED
  BY <1>0, <1>1, <1>2, <1>3 DEF DagShape, dagster, SensorTypeOK, SensorShape, SettingShape, KilledShape

\* Terminating adds living runs only.
LEMMA KillTyped ==
  ASSUME DagShape, NEW runs, Kill(runs), UNCHANGED job
  PROVE  killed' \subseteq Jobs /\ KilledShape'
BY DEF Kill, Unfinished, DagShape, SensorTypeOK, KilledShape

\* Setting a document aside keeps the types.
LEMMA SetAsideTyped ==
  ASSUME DagShape,
         \/ \E d \in DocIds : ForceFail(d) \/ AbortIngest(d)
         \/ SetAsideDequeue \/ FindRuns \/ SetAsidePurge \/ SetAsideMark \/ Terminate
  PROVE  DagShape'
<1>0. TypeOK /\ Shape /\ SensorTypeOK /\ SensorShape /\ LoopHandles /\ SettingShape /\ KilledShape
  BY DEF DagShape
<1>t. /\ setting \in Setting /\ runId \in [DocIds -> Jobs \cup {NoRun, OldRun}] /\ killed \subseteq Jobs
      /\ setting.runs \in SUBSET Jobs
  BY <1>0 DEF SensorTypeOK, Setting
<1>o. UNCHANGED <<loop, job, sensor, requests, again>>
  BY DEF ForceFail, AbortIngest, SetAsideDequeue, FindRuns, SetAsidePurge, SetAsideMark, Terminate, vars
\* It is enough to know the tables, the request and the terminations.
<1>a. ASSUME TypeOK', setting' \in Setting, setting'.op # "idle" => setting'.id \in DocIds /\ loop.op = "idle",
             runId' \in [DocIds -> Jobs \cup {NoRun, OldRun}], killed' \subseteq Jobs, KilledShape'
      PROVE  DagShape'
  <2>1. Shape' /\ SensorShape' /\ LoopHandles' /\ SettingShape'
    BY <1>0, <1>a, <1>o DEF Shape, LoopShape, JobShape, SensorShape, LoopHandles, SettingShape
  <2>2. SensorTypeOK'
    BY <1>0, <1>a, <1>o DEF SensorTypeOK, Setting
  <2> QED
    BY <1>a, <2>1, <2>2 DEF DagShape
<1>k. UNCHANGED killed => killed' \subseteq Jobs /\ KilledShape'
  BY <1>0, <1>o DEF KilledShape, SensorTypeOK
<1>v. UNCHANGED vars => TypeOK'
  BY <1>0 DEF vars, rows, redis, counters, history, TypeOK
<1>i. IdleSetting \in Setting /\ IdleSetting.op = "idle"
  BY DEF IdleSetting, Setting, SettingOp
<1>1. ASSUME NEW d \in DocIds, ForceFail(d) PROVE DagShape'
  <2>1. setting' \in Setting /\ setting'.id = d /\ loop.op = "idle"
    BY <1>1 DEF ForceFail, Free, Idle, IdleSetting, Setting, SettingOp
  <2>2. killed' \subseteq Jobs /\ KilledShape'
    BY <1>1, <1>o, KillTyped DEF ForceFail
  <2> QED
    BY <1>1, <1>a, <1>t, <1>v, <2>1, <2>2 DEF ForceFail
<1>2. ASSUME NEW d \in DocIds, AbortIngest(d) PROVE DagShape'
  <2>1. setting' \in Setting /\ setting'.id = d /\ loop.op = "idle"
    BY <1>2, <1>t DEF AbortIngest, Free, Idle, Setting, SettingOp
  <2> QED
    BY <1>2, <1>a, <1>k, <1>t, <1>v, <2>1 DEF AbortIngest
<1>3. CASE SetAsideDequeue
  <2>1. setting' \in Setting /\ setting'.id = setting.id
    BY <1>3, <1>t DEF SetAsideDequeue, SetTo, Setting, SettingOp
  <2>2. setting.id \in DocIds /\ loop.op = "idle"
    BY <1>0, <1>3 DEF SetAsideDequeue, SettingShape
  <2>3. queue' \in [Kind -> Seq(Item)] /\ delayed' \in [Kind -> SUBSET Item]
    <3>1. queue["upload"] \in Seq(Item)
      BY <1>0 DEF TypeOK, Kind
    <3>2. Without(queue["upload"], setting.id) \in Seq(Item)
      BY <3>1, WithoutEntries
    <3> QED
      BY <1>0, <1>3, <3>2 DEF SetAsideDequeue, DequeueUploads, TypeOK
  <2>4. TypeOK'
    BY <1>0, <1>3, <2>2, <2>3, StoreAssumption
       DEF SetAsideDequeue, Supersede, Override, TypeOK, rows
  <2> QED
    BY <1>3, <1>a, <1>k, <1>t, <2>1, <2>2, <2>4 DEF SetAsideDequeue
<1>4. CASE FindRuns
  <2>1. setting' \in Setting /\ setting'.id = setting.id
    BY <1>4, <1>t DEF FindRuns, Setting, SettingOp, JobsOf
  <2> QED
    BY <1>0, <1>4, <1>a, <1>k, <1>t, <1>v, <2>1 DEF FindRuns, SettingShape
<1>5. CASE SetAsidePurge
  <2>1. setting' \in Setting /\ setting'.id = setting.id
    BY <1>5, <1>t DEF SetAsidePurge, SetTo, Setting, SettingOp
  <2>2. TypeOK'
    BY <1>0, <1>5 DEF SetAsidePurge, PurgeChunks, TypeOK, rows, redis, counters, history
  <2> QED
    BY <1>0, <1>5, <1>a, <1>k, <1>t, <2>1, <2>2 DEF SetAsidePurge, SettingShape
<1>6. CASE SetAsideMark
  <2>1. /\ setting' \in Setting
        /\ setting'.op # "idle" => setting'.id = setting.id
    BY <1>6, <1>t, <1>i DEF SetAsideMark, Setting, SettingOp
  <2>2. setting.id \in DocIds /\ loop.op = "idle"
    BY <1>0, <1>6 DEF SetAsideMark, SettingShape
  <2>3. status' \in [DocIds -> Status] /\ asked' \in [DocIds -> Asked]
    <3>1. "failed" \in Status /\ "fail" \in Asked
      BY DEF Status, RowStatus, StableStatus, Asked
    <3> QED
      BY <1>0, <1>6, <3>1, UpdateTyped DEF SetAsideMark, TypeOK
  <2>4. TypeOK'
    BY <1>0, <1>6, <2>3 DEF SetAsideMark, TypeOK, redis, counters
  <2>5. runId' \in [DocIds -> Jobs \cup {NoRun, OldRun}]
    BY <1>6, <1>t DEF SetAsideMark
  <2> QED
    <3>1. UNCHANGED killed
      BY <1>6 DEF SetAsideMark
    <3> QED
      BY <1>a, <1>k, <2>1, <2>2, <2>4, <2>5, <3>1
<1>7. CASE Terminate
  <2>1. killed' \subseteq Jobs /\ KilledShape'
    BY <1>7, <1>o, <1>t, KillTyped DEF Terminate
  <2> QED
    BY <1>7, <1>a, <1>i, <1>t, <1>v, <2>1 DEF Terminate
<1> QED
  BY <1>1, <1>2, <1>3, <1>4, <1>5, <1>6, <1>7

\* A recovery in Dagster mode.
LEMMA RecoverTyped ==
  ASSUME DagShape, NEW d \in DocIds, Recover(d)
  PROVE  DagShape'
<1>0. TypeOK /\ Shape /\ SensorTypeOK /\ SensorShape /\ SettingShape /\ KilledShape
  BY DEF DagShape
<1>1. loop' = [op |-> "failPurge", kind |-> "upload", id |-> d, force |-> TRUE, back |-> "idle",
               todo |-> {}, n |-> 0, more |-> FALSE]
  BY DEF Recover, IdleLoop
<1>2. loop' \in Loop /\ LoopShape' /\ LoopHandles'
  BY <1>1 DEF Loop, LoopOp, Kind, LoopShape, LoopHandles, InHandOp, FailOp
<1>3. TypeOK'
  BY <1>0, <1>2, StoreAssumption DEF Recover, Supersede, Override, TypeOK, rows, redis
<1>4. Shape'
  BY <1>0, <1>2 DEF Recover, Shape, JobShape
<1>5. setting.op = "idle"
  BY DEF Recover, Free
<1> QED
  BY <1>0, <1>2, <1>3, <1>4, <1>5
     DEF Recover, dagster, DagShape, SensorTypeOK, SensorShape, SettingShape, KilledShape

\* Every step of the service in Dagster mode keeps the types.
LEMMA DagShapeKept == DagShape /\ [DagNext]_dagVars => DagShape'
<1> SUFFICES ASSUME DagShape, [DagNext]_dagVars PROVE DagShape'
  OBVIOUS
<1>1. CASE DagRequest
  <2>1. \A force \in Forces : force \in BOOLEAN
    BY RunAssumption
  <2> QED
    BY <1>1, <2>1, ApiTyped, SetAsideTyped, RecoverTyped DEF DagRequest, Free
<1>2. CASE DagHandle
  BY <1>2, ApiTyped, SetAsideTyped DEF DagHandle
<1>3. CASE SensorStep
  BY <1>3, SensorTyped
<1>4. CASE \E j \in Jobs : RunStep(j)
  BY <1>4, RunTyped
<1>5. CASE UNCHANGED dagVars
  BY <1>5 DEF dagVars, dagster, vars, rows, redis, counters, history, DagShape, TypeOK, Shape, LoopShape,
     JobShape, SensorTypeOK, SensorShape, LoopHandles, SettingShape, KilledShape
<1> QED
  BY <1>1, <1>2, <1>3, <1>4, <1>5 DEF DagNext

\* The service starts with the types, nothing in the sensor's hands and no run.
LEMMA DagInitShaped == DagInit => DagShape
<1> SUFFICES ASSUME DagInit PROVE DagShape
  OBVIOUS
<1>1. TypeOK /\ Shape
  BY InitTyped DEF DagInit
<1>2. SensorTypeOK
  BY DEF DagInit, SensorTypeOK, IdleLoop, IdleSetting, SensorOp, SettingOp, Kind
<1>3. SensorShape /\ LoopHandles /\ SettingShape /\ KilledShape
  BY StoreAssumption DEF DagInit, Init, SensorShape, HeldOp, LoopHandles, SettingShape, KilledShape,
     IdleLoop, IdleSetting
<1> QED
  BY <1>1, <1>2, <1>3 DEF DagShape

\* The shape holds in every state of Dagster mode.
LEMMA DagShapeHolds == DagSpec => []DagShape
BY DagInitShaped, DagShapeKept, PTL DEF DagSpec

\* The sensor's tick, the run requests, the run ids and what the API knows of
\* terminations keep the types of event_queue_sensor.py and dagster_utils.py,
\* with everything they share with the worker's mode.
THEOREM SensorTypesHold == DagSpec => []SensorTypeOK
<1>1. DagShape => SensorTypeOK
  BY DEF DagShape
<1> QED
  BY DagShapeHolds, <1>1, PTL

-----------------------------------------------------------------------------
(* The run ids.  A recorded run that lives is the document's own and has     *)
(* begun; the runs a request will terminate are its document's; and as long  *)
(* as no process died, a running document has either its recorded run alive   *)
(* or, with none recorded, an upload on its way to recording itself, which    *)
(* nobody has told to terminate or is about to.                               *)

RunIdShape ==
  \A d \in DocIds : Unfinished(runId[d]) =>
    job[runId[d]].id = d /\ job[runId[d]].pc \notin {"wait", "load"}

SettingRuns == \A j \in setting.runs : job[j].pc # "free" => job[j].id = setting.id

Starts(j, d) ==
  /\ job[j].id = d /\ job[j].kind = "upload" /\ job[j].pc \in {"wait", "load"}
  /\ j \notin killed
  /\ setting.op = "terminate" => j \notin setting.runs
Coming(d) ==
  \/ \E i \in DOMAIN requests : requests[i].kind = "upload" /\ requests[i].item.id = d
  \/ \E j \in Jobs : Starts(j, d)

Backed(d) ==
  status[d] = "running" => IF runId[d] = NoRun THEN Coming(d) ELSE Unfinished(runId[d])

RunInv ==
  /\ DagShape /\ RunIdShape /\ SettingRuns
  /\ crashes = 0 => \A d \in DocIds : Backed(d)

\* A step of a run keeps what is known of the run ids.
LEMMA RunKeepsIds ==
  ASSUME RunInv, NEW j \in Jobs, RunStep(j)
  PROVE  RunIdShape' /\ SettingRuns'
<1>0. TypeOK /\ SensorTypeOK /\ RunIdShape /\ SettingRuns /\ DagShape
  BY DEF RunInv, DagShape
<1>1. RunWrites(j)
  BY <1>0, RunStepWrites
<1>2. ASSUME NEW d \in DocIds, Unfinished(runId[d])'
      PROVE  job'[runId'[d]].id = d /\ job'[runId'[d]].pc \notin {"wait", "load"}
  <2>1. CASE runId'[d] = runId[d]
    <3>1. runId[d] \in Jobs
      BY <1>2, <2>1 DEF Unfinished
    <3>2. CASE runId[d] = j
      <4>1. job[j].id = d /\ job[j].pc \notin {"wait", "load"}
        BY <1>0, <1>1, <3>1, <3>2 DEF RunIdShape, Unfinished, RunWrites
      <4> QED
        BY <1>1, <1>2, <2>1, <3>2, <4>1 DEF RunWrites, Unfinished
    <3>3. CASE runId[d] # j
      BY <1>0, <1>1, <1>2, <2>1, <3>1, <3>3 DEF RunIdShape, Unfinished, RunWrites
    <3> QED
      BY <3>2, <3>3
  <2>2. CASE runId'[d] # runId[d]
    <3>1. SetRun(j) /\ job'[j].pc # "load"
      BY <1>1, <2>2 DEF RunWrites
    <3>2. runId'[d] = j /\ Doc(j) = d
      BY <1>0, <2>2, <3>1 DEF SetRun, SensorTypeOK
    <3> QED
      BY <1>1, <1>2, <3>1, <3>2 DEF RunWrites, Unfinished, Doc
  <2> QED
    BY <2>1, <2>2
<1>3. SettingRuns'
  <2>1. setting.runs \subseteq Jobs
    BY <1>0 DEF SensorTypeOK
  <2> QED
    BY <1>0, <1>1, <2>1 DEF SettingRuns, RunWrites
<1> QED
  BY <1>2, <1>3 DEF RunIdShape

\* What a step of a run leaves of an upload that has yet to record itself.
LEMMA ComingKept ==
  ASSUME DagShape, NEW j \in Jobs, RunWrites(j), NEW d \in DocIds, Coming(d),
         Starts(j, d) => job'[j].pc = "load"
  PROVE  Coming(d)'
<1>1. CASE \E i \in DOMAIN requests : requests[i].kind = "upload" /\ requests[i].item.id = d
  BY <1>1 DEF RunWrites, Coming
<1>2. ASSUME NEW i \in Jobs, Starts(i, d), i # j PROVE Coming(d)'
  BY <1>2 DEF RunWrites, Coming, Starts
<1>3. CASE Starts(j, d)
  BY <1>3 DEF RunWrites, Coming, Starts
<1> QED
  BY <1>1, <1>2, <1>3 DEF Coming

\* A step of a run leaves a running document backed, unless its process dies.
LEMMA RunBacked ==
  ASSUME RunInv, NEW j \in Jobs, RunStep(j), NEW d \in DocIds, Backed(d), crashes' = 0
  PROVE  Backed(d)'
<1>0. TypeOK /\ SensorTypeOK /\ RunIdShape /\ DagShape /\ job[j].pc \in PC
  BY JobTyped DEF RunInv, DagShape
<1>1. RunWrites(j)
  BY <1>0, RunStepWrites
<1> SUFFICES ASSUME status'[d] = "running"
             PROVE  IF runId'[d] = NoRun THEN Coming(d)' ELSE Unfinished(runId[d])'
  BY DEF Backed
\* It is enough that the row is the same and the run of the document goes on.
<1>a. ASSUME status[d] = "running", runId'[d] = runId[d], Starts(j, d) => job'[j].pc = "load",
             job[j].id = d /\ job[j].pc \notin {"wait", "load"} => job'[j].pc # "free"
      PROVE  IF runId'[d] = NoRun THEN Coming(d)' ELSE Unfinished(runId[d])'
  <2>1. CASE runId[d] = NoRun
    BY <1>0, <1>1, <1>a, <2>1, ComingKept DEF Backed
  <2>2. CASE runId[d] # NoRun
    <3>1. Unfinished(runId[d])
      BY <1>a, <2>2 DEF Backed
    <3>2. job[runId[d]].id = d /\ job[runId[d]].pc \notin {"wait", "load"}
      BY <1>0, <3>1 DEF RunIdShape
    <3>3. runId[d] \in Jobs /\ job'[runId[d]].pc # "free"
      BY <1>1, <1>a, <3>1, <3>2 DEF RunWrites, Unfinished
    <3> QED
      BY <1>a, <2>2, <3>3 DEF Unfinished
  <2> QED
    BY <2>1, <2>2
<1>s. ASSUME NEW pc \in PC, Step(j, pc) PROVE job'[j].pc = pc
  BY <1>0, <1>s, StepEffect
<1>p. /\ {"load", "begin", "parse", "fail", "failed"} \subseteq PC \ {"free"}
      /\ "load" \notin IngestPC \cup DeletePC /\ "wait" \notin IngestPC \cup DeletePC
      /\ "free" \notin IngestPC
  BY DEF PC, IngestPC, DeletePC, FailPC
<1>u. \A e, st : UpdateStatus(e, st) /\ status'[d] # status[d] => e = d /\ status'[d] = st
  BY <1>0 DEF UpdateStatus, TypeOK
<1>w. \A st : UpdateStatus(Doc(j), st) /\ st # "running" => Doc(j) # d
  BY <1>0 DEF UpdateStatus, TypeOK, HasRow
<1>r. SetRun(j) /\ Doc(j) # d => runId'[d] = runId[d]
  BY <1>0 DEF SetRun, SensorTypeOK
<1>2. CASE StartRun(j)
  <2>1. job'[j].pc = "load" /\ status'[d] = status[d] /\ runId' = runId
    BY <1>2, <1>p, <1>s DEF StartRun, rows, dagster
  <2> QED
    BY <1>2, <1>a, <2>1 DEF StartRun, At
<1>3. CASE ValidateBegin(j)
  <2>1. job'[j].pc = "begin" /\ UpdateStatus(Doc(j), "running") /\ SetRun(j)
    BY <1>3, <1>p, <1>s DEF ValidateBegin
  <2>2. CASE Doc(j) = d
    <3>1. HasRow(d)
      BY <1>0, <2>1, <2>2 DEF UpdateStatus, TypeOK, HasRow
    <3>2. runId'[d] = j
      BY <1>0, <2>1, <2>2, <3>1 DEF SetRun, SensorTypeOK
    <3> QED
      BY <2>1, <3>2, RunAssumption DEF Unfinished
  <2>3. CASE Doc(j) # d
    BY <1>a, <1>r, <1>u, <2>1, <2>3 DEF Starts, Doc
  <2> QED
    BY <2>2, <2>3
<1>4. CASE Validate(j)
  <2>1. job'[j].pc \in {"parse", "fail"} /\ job[j].pc = "begin" /\ UNCHANGED <<status, runId>>
    BY <1>4, <1>p, <1>s DEF Validate, At
  <2> QED
    BY <1>a, <2>1 DEF Starts
<1>5. CASE OpStep(j)
  <2>1. OpWrites(j)
    BY <1>0, <1>5, OpStepWrites
  <2>2. ~Starts(j, d)
    BY <1>5, <2>1, <1>p DEF OpWrites, Starts
  <2>3. CASE job[j].id # d
    <3>1. status[d] = "running"
      BY <1>u, <2>1, <2>3 DEF OpWrites, Doc
    <3>2. runId'[d] = runId[d]
      BY <1>5, <1>r, <2>3 DEF OpStep, Doc
    <3> QED
      BY <1>a, <2>2, <2>3, <3>1, <3>2
  <2>4. CASE job[j].id = d
    <3>1. \A st \in {"indexed", "outdated", "deleting", "none", "deleted"} : ~UpdateStatus(Doc(j), st)
      BY <1>w, <2>4 DEF Doc
    <3>2. status[d] = "running" /\ (job'[j].pc # "free" \/ job[j].pc = "load")
      BY <1>p, <1>u, <2>1, <2>4, <3>1 DEF OpWrites, Doc, Moved
    <3>3. ~At(j, "index") /\ ~At(j, "indexMoved") /\ ~At(j, "mark")
      BY <1>5, <3>1 DEF OpStep, At, IngestStep, DeleteStep, IngestLoad, IngestBegin, Parse, Detect,
         Identical, Resolve, MoveChunks, PurgeOther, RetireOther, Embed, Clear, Insert, SetIndexed,
         DeleteLoad, SetDeleting, DeleteChunks, DeleteFile, DeleteRow
    <3>4. runId'[d] = runId[d]
      BY <1>5, <3>3 DEF OpStep
    <3> QED
      BY <1>a, <2>2, <3>2, <3>4
  <2> QED
    BY <2>3, <2>4
<1>6. CASE RunPurge(j)
  <2>1. job'[j].pc = "failed" /\ job[j].pc = "fail" /\ UNCHANGED <<status, runId>>
    BY <1>6, <1>p, <1>s DEF RunPurge, At, dagster
  <2> QED
    BY <1>a, <2>1 DEF Starts
<1>7. CASE RunFailed(j)
  <2>1. UpdateStatus(Doc(j), "failed") /\ SetRun(j) /\ job[j].pc = "failed"
    BY <1>7 DEF RunFailed, At
  <2>2. job[j].id # d
    BY <1>w, <2>1 DEF Doc
  <2> QED
    BY <1>a, <1>r, <1>u, <2>1, <2>2 DEF Starts, Doc
<1>8. CASE Interrupted(j)
  <2>1. j \in killed /\ UNCHANGED <<status, runId>>
    BY <1>8 DEF Interrupted
  <2>2. job[j].pc \notin {"wait", "load"} => job'[j].pc = "fail"
    BY <1>8, <1>p, <1>s DEF Interrupted
  <2> QED
    BY <1>a, <2>1, <2>2 DEF Starts
<1>9. ~RunDies(j)
  BY <1>0 DEF RunDies, TypeOK
<1> QED
  BY <1>2, <1>3, <1>4, <1>5, <1>6, <1>7, <1>8, <1>9 DEF RunStep

\* The sensor's steps other than the claim and the launch leave the runs alone.
SensorQuiet ==
  /\ UNCHANGED <<job, runId, killed, setting>>
  /\ \/ UNCHANGED requests
     \/ crashes' # 0
  /\ \A d \in DocIds : status'[d] = "running" => status[d] = "running"
  /\ crashes' = 0 => crashes = 0

\* Only a dispatch and a launch move work from the lists to the runs.
LEMMA SensorIsQuiet ==
  ASSUME DagShape, SensorStep, ~Dispatch, ~Launch
  PROVE  SensorQuiet
<1>0. TypeOK
  BY DEF DagShape
<1>u. \A e : \A st \in {"pending", "failed"} : UpdateStatus(e, st) =>
        \A d \in DocIds : status'[d] = "running" => status[d] = "running"
  BY <1>0 DEF UpdateStatus, TypeOK
<1>1. CASE TickBegin \/ TickDrain
  <2>1. UNCHANGED <<job, counters, runState>>
    BY <1>1, TickIs
  <2>2. TickPending => UpdateStatus(sensor.id, "pending")
    BY DEF TickPending
  <2>3. TickPending \/ UNCHANGED status
    BY <1>1, TickIs DEF TickWaits, TickNext, TickPush, rows
  <2> QED
    BY <1>u, <2>1, <2>2, <2>3 DEF SensorQuiet, runState, counters
<1>2. CASE ZombieFail
  BY <1>2, <1>u DEF ZombieFail, SensorQuiet, runState, counters
<1>3. CASE TickFails
  BY <1>0, <1>3 DEF TickFails, SensorQuiet, rows, TypeOK
<1>4. CASE TakeEvent \/ NoMoreEvents \/ Look \/ Delay \/ ZombiePurge \/ LookError
  BY <1>4 DEF TakeEvent, NoMoreEvents, Look, Delay, ZombiePurge, LookError, SensorQuiet, runState,
     counters, vars, rows
<1> QED
  BY <1>1, <1>2, <1>3, <1>4 DEF SensorStep

\* With the requests, the runs and the run ids unchanged a running document
\* stays backed.
LEMMA QuietBacked ==
  ASSUME UNCHANGED <<job, runId, killed, setting, requests>>, NEW d \in DocIds, Backed(d),
         status'[d] = "running" => status[d] = "running"
  PROVE  Backed(d)'
<1>1. Coming(d) => Coming(d)'
  BY DEF Coming, Starts
<1> QED
  BY <1>1 DEF Backed, Unfinished

\* The claim of an upload requests the run that backs the document.
LEMMA DispatchBacked ==
  ASSUME DagShape, Dispatch, NEW d \in DocIds, Backed(d)
  PROVE  Backed(d)'
<1>0. TypeOK /\ SensorTypeOK /\ sensor.kind \in Kind
  BY TickTyped DEF DagShape
<1> DEFINE r == [kind |-> sensor.kind, item |-> Held]
<1>1. requests' = Append(requests, r) /\ UNCHANGED <<job, killed, setting>>
  BY DEF Dispatch
<1>2. requests \in Seq(RunRequest) /\ r.kind = sensor.kind /\ r.item.id = sensor.id
  BY <1>0 DEF SensorTypeOK, RunRequest, Held
<1>3. r \in RunRequest
  BY TickTyped DEF Dispatch, HeldOp, RunRequest
<1> HIDE DEF r
<1>4. /\ \A i \in DOMAIN requests : i \in DOMAIN requests' /\ requests'[i] = requests[i]
      /\ Len(requests) + 1 \in DOMAIN requests' /\ requests'[Len(requests) + 1] = r
  BY <1>1, <1>2, <1>3
<1>5. Coming(d) => Coming(d)'
  BY <1>1, <1>4 DEF Coming, Starts
<1>6. CASE sensor.kind = "upload" /\ sensor.id = d
  <2>1. Coming(d)'
    BY <1>2, <1>4, <1>6 DEF Coming
  <2>2. status'[d] = "running" => runId'[d] = NoRun
    BY <1>0, <1>6 DEF Dispatch, UpdateStatus, HasRow, TypeOK, SensorTypeOK
  <2> QED
    BY <2>1, <2>2 DEF Backed
<1>7. CASE ~(sensor.kind = "upload" /\ sensor.id = d)
  <2>1. status'[d] = status[d] /\ runId'[d] = runId[d]
    BY <1>0, <1>7 DEF Dispatch, UpdateStatus, TypeOK, SensorTypeOK
  <2> QED
    BY <1>1, <1>5, <2>1 DEF Backed, Unfinished
<1> QED
  BY <1>6, <1>7

\* The run ids after a launch name no run that was launched into an old slot,
\* and the launched run backs its document in place of the request.
LEMMA LaunchBacked ==
  ASSUME RunInv, Launch
  PROVE  /\ RunIdShape' /\ SettingRuns'
         /\ \A d \in DocIds : Backed(d) => Backed(d)'
<1>0. TypeOK /\ SensorTypeOK /\ RunIdShape /\ SettingRuns /\ DagShape
  BY DEF RunInv, DagShape
<1>s. UNCHANGED <<status, killed>>
  BY DEF Launch, rows
<1>1. CASE requests = <<>>
  <2>1. UNCHANGED <<job, requests, runId, setting>>
    BY <1>1 DEF Launch
  <2> QED
    BY <1>0, <1>s, <2>1, QuietBacked DEF RunIdShape, SettingRuns, Unfinished
<1>2. CASE requests # <<>>
  <2> DEFINE q == Head(requests)
             r == NewJob(q.kind, q.item)
  <2>1. /\ q \in RunRequest /\ requests' = Tail(requests)
        /\ q = requests[1]
        /\ \A i \in DOMAIN requests : i # 1 =>
             i - 1 \in DOMAIN Tail(requests) /\ Tail(requests)[i - 1] = requests[i]
    <3>1. requests \in Seq(RunRequest) /\ requests' = Tail(requests)
      BY <1>0, <1>2 DEF Launch, SensorTypeOK, RunRequest
    <3>2. /\ requests[1] \in RunRequest /\ Head(requests) = requests[1]
          /\ \A i \in 1 .. Len(requests) : i # 1 =>
               i - 1 \in DOMAIN Tail(requests) /\ Tail(requests)[i - 1] = requests[i]
      BY <1>2, <3>1
    <3> QED
      BY <3>1, <3>2
  <2>2. PICK j \in Jobs :
          /\ job[j].pc = "free" /\ job' = [job EXCEPT ![j] = r]
          /\ runId' = [d \in DocIds |-> IF runId[d] = j THEN OldRun ELSE runId[d]]
          /\ setting' = [setting EXCEPT !.runs = @ \ {j}]
    BY <1>2 DEF Launch
  <2>3. r.pc = "wait" /\ r.kind = q.kind /\ r.id = q.item.id
    BY DEF NewJob, FreeJob
  <2> HIDE DEF q, r
  <2>4. \A i \in Jobs : job'[i] = IF i = j THEN r ELSE job[i]
    BY <1>0, <2>2 DEF TypeOK
  <2>5. setting'.op = setting.op /\ setting'.id = setting.id /\ setting'.runs = setting.runs \ {j}
        /\ setting.runs \subseteq Jobs
    BY <1>0, <2>2 DEF SensorTypeOK
  <2>6. OldRun \notin Jobs /\ NoRun # OldRun /\ NoRun \notin Jobs
    BY RunAssumption
  <2>7. \A d \in DocIds : Unfinished(runId[d])' => Unfinished(runId[d]) /\ runId'[d] = runId[d]
    BY <2>2, <2>4, <2>6 DEF Unfinished
  <2>8. RunIdShape'
    BY <1>0, <2>2, <2>4, <2>7 DEF RunIdShape, Unfinished
  <2>9. SettingRuns'
    BY <1>0, <2>4, <2>5 DEF SettingRuns
  <2>10. j \notin killed
    BY <1>0, <2>2 DEF DagShape, KilledShape
  <2>11. ASSUME NEW d \in DocIds, Coming(d) PROVE Coming(d)'
    <3>1. ASSUME NEW i \in DOMAIN requests, requests[i].kind = "upload", requests[i].item.id = d
          PROVE  Coming(d)'
      <4>1. CASE i = 1
        <5>1. Starts(j, d)'
          BY <1>s, <2>1, <2>3, <2>4, <2>5, <2>10, <3>1, <4>1 DEF Starts
        <5> QED
          BY <5>1 DEF Coming
      <4>2. CASE i # 1
        <5>1. i - 1 \in DOMAIN requests' /\ requests'[i - 1] = requests[i]
          BY <2>1, <4>2
        <5> QED
          BY <3>1, <5>1 DEF Coming
      <4> QED
        BY <4>1, <4>2
    <3>2. ASSUME NEW i \in Jobs, Starts(i, d) PROVE Coming(d)'
      <4>1. i # j
        BY <2>2, <3>2 DEF Starts
      <4>2. Starts(i, d)'
        BY <1>s, <2>4, <2>5, <3>2, <4>1 DEF Starts
      <4> QED
        BY <4>2 DEF Coming
    <3> QED
      BY <2>11, <3>1, <3>2 DEF Coming
  <2>12. ASSUME NEW d \in DocIds, Backed(d) PROVE Backed(d)'
    <3>1. CASE runId[d] = NoRun
      <4>1. runId'[d] = NoRun
        BY <2>2, <2>6, <3>1
      <4> QED
        BY <1>s, <2>11, <2>12, <3>1, <4>1 DEF Backed
    <3>2. CASE Unfinished(runId[d])
      <4>1. runId[d] # j /\ runId[d] \in Jobs
        BY <2>2, <3>2 DEF Unfinished
      <4>2. runId'[d] = runId[d] /\ Unfinished(runId[d])'
        BY <2>2, <2>4, <3>2, <4>1 DEF Unfinished
      <4> QED
        BY <2>6, <4>1, <4>2 DEF Backed
    <3>3. CASE status[d] # "running"
      BY <1>s, <3>3 DEF Backed
    <3> QED
      BY <2>12, <3>1, <3>2, <3>3 DEF Backed
  <2> QED
    BY <2>8, <2>9, <2>12
<1> QED
  BY <1>1, <1>2

\* A step of the sensor keeps what is known of the run ids.
LEMMA SensorBacked ==
  ASSUME RunInv, SensorStep
  PROVE  RunInv'
<1>0. DagShape /\ RunIdShape /\ SettingRuns /\ SensorTypeOK
  BY DEF RunInv, DagShape
<1>1. DagShape'
  BY <1>0, SensorTyped
<1>3. CASE Dispatch
  <2>1. UNCHANGED <<job, setting, crashes>>
    BY <1>3 DEF Dispatch, counters
  <2>2. \A d \in DocIds : runId'[d] = runId[d] \/ runId'[d] = NoRun
    BY <1>0, <1>3 DEF Dispatch, SensorTypeOK
  <2>3. RunIdShape' /\ SettingRuns'
    BY <1>0, <2>1, <2>2, RunAssumption DEF RunIdShape, SettingRuns, Unfinished
  <2>4. crashes = 0 => \A d \in DocIds : Backed(d)'
    BY <1>0, <1>3, DispatchBacked DEF RunInv
  <2> QED
    BY <1>1, <2>1, <2>3, <2>4 DEF RunInv
<1>4. CASE Launch
  <2>1. crashes' = crashes
    BY <1>4 DEF Launch, counters
  <2> QED
    BY <1>1, <1>4, <2>1, LaunchBacked DEF RunInv
<1>5. CASE ~Dispatch /\ ~Launch
  <2>1. SensorQuiet
    BY <1>0, <1>5, SensorIsQuiet
  <2>2. RunIdShape' /\ SettingRuns'
    BY <1>0, <2>1 DEF SensorQuiet, RunIdShape, SettingRuns, Unfinished
  <2>3. crashes' = 0 => \A d \in DocIds : Backed(d)'
    BY <2>1, QuietBacked DEF SensorQuiet, RunInv
  <2> QED
    BY <1>1, <2>2, <2>3 DEF RunInv
<1> QED
  BY <1>3, <1>4, <1>5

\* Handlers and requests make no document running.
LEMMA ApiBacked ==
  ASSUME RunInv, DagShape', UNCHANGED dagster, DagRequest \/ Handle
  PROVE  RunInv'
<1>0. DagShape /\ TypeOK /\ RunIdShape /\ SettingRuns
  BY DEF RunInv, DagShape
<1>u. \A e : \A st \in {"pending", "failed"} : UpdateStatus(e, st) =>
        \A d \in DocIds : status'[d] = "running" => status[d] = "running"
  BY <1>0 DEF UpdateStatus, TypeOK
<1>2. UNCHANGED <<job, crashes>> /\ \A d \in DocIds : status'[d] = "running" => status[d] = "running"
  <2>1. CASE Handle
    BY <1>u, <2>1 DEF Handle, UploadPut, UploadStage, ReindexKbNext, Enqueue, SetPending, Push,
       FailPurge, FailMark, rows, counters
  <2>2. ASSUME NEW e \in DocIds, UploadBegin(e)
        PROVE  UNCHANGED <<job, crashes>>
               /\ \A d \in DocIds : status'[d] = "running" => status[d] = "running"
    BY <1>0, <2>2 DEF UploadBegin, TypeOK
  <2>3. ASSUME NEW e \in DocIds, ForceFail(e) \/ AbortIngest(e)
        PROVE  UNCHANGED <<job, crashes>> /\ UNCHANGED status
    BY <2>3 DEF ForceFail, AbortIngest, vars, rows, counters
  <2>4. CASE DagRequest
    BY <2>2, <2>3, <2>4 DEF DagRequest, DeleteBegin, ReindexBegin, ReindexKbBegin, Recover, rows, counters
  <2> QED
    BY <2>1, <2>4
<1>3. RunIdShape' /\ SettingRuns'
  BY <1>0, <1>2 DEF dagster, RunIdShape, SettingRuns, Unfinished
<1>4. crashes = 0 => \A d \in DocIds : Backed(d)'
  BY <1>2, QuietBacked DEF dagster, RunInv
<1> QED
  BY <1>2, <1>3, <1>4 DEF RunInv

\* Setting a document aside terminates only runs that have begun, or runs of a
\* document that it has just failed.
LEMMA SetAsideBacked ==
  ASSUME RunInv, DagShape',
         \/ \E d \in DocIds : ForceFail(d) \/ AbortIngest(d)
         \/ SetAsideDequeue \/ FindRuns \/ SetAsidePurge \/ SetAsideMark \/ Terminate
  PROVE  RunInv'
<1>0. DagShape /\ TypeOK /\ SensorTypeOK /\ RunIdShape /\ SettingRuns
  BY DEF RunInv, DagShape
<1>o. UNCHANGED <<job, sensor, requests, crashes>>
  BY DEF ForceFail, AbortIngest, SetAsideDequeue, FindRuns, SetAsidePurge, SetAsideMark, Terminate, vars,
     counters
<1>t. setting \in Setting /\ setting.runs \subseteq Jobs
  BY <1>0 DEF SensorTypeOK, Setting
\* It is enough to look at the rows, and at the runs that were told to terminate.
<1>a. ASSUME \A d \in DocIds : runId'[d] \in {runId[d], NoRun},
             \A i \in setting'.runs : job[i].pc # "free" => job[i].id = setting'.id,
             \A d \in DocIds : status'[d] = "running" =>
               /\ status[d] = "running" /\ runId'[d] = runId[d]
               /\ \A i \in Jobs : Starts(i, d) =>
                    i \notin killed' /\ (setting'.op = "terminate" => i \notin setting'.runs)
      PROVE  RunInv'
  <2>1. RunIdShape' /\ SettingRuns'
    BY <1>0, <1>a, <1>o, RunAssumption DEF RunIdShape, SettingRuns, Unfinished
  <2>2. ASSUME NEW d \in DocIds, Backed(d) PROVE Backed(d)'
    <3> SUFFICES ASSUME status'[d] = "running" PROVE Backed(d)'
      BY DEF Backed
    <3>1. Coming(d) => Coming(d)'
      BY <1>a, <1>o DEF Coming, Starts
    <3> QED
      BY <1>a, <1>o, <2>2, <3>1 DEF Backed, Unfinished
  <2> QED
    BY <1>o, <2>1, <2>2 DEF RunInv
<1>1. ASSUME NEW e \in DocIds, ForceFail(e) PROVE RunInv'
  <2>1. UNCHANGED <<status, runId>> /\ setting'.runs = {} /\ setting'.op # "terminate"
    BY <1>1 DEF ForceFail, IdleSetting, vars, rows
  <2>2. \A d \in DocIds : \A i \in Jobs : Starts(i, d) => i \notin killed'
    BY <1>0, <1>1 DEF ForceFail, Kill, Starts, RunIdShape
  <2> QED
    BY <1>a, <2>1, <2>2
<1>2. ASSUME NEW e \in DocIds, AbortIngest(e) PROVE RunInv'
  <2>1. /\ UNCHANGED <<status, runId, killed>> /\ setting'.op # "terminate" /\ setting'.id = e
        /\ setting'.runs \subseteq {runId[e]} \cap Jobs
    BY <1>2 DEF AbortIngest, vars, rows
  <2>2. \A i \in setting'.runs : job[i].pc # "free" => job[i].id = setting'.id
    BY <1>0, <1>2, <2>1 DEF RunIdShape, Unfinished
  <2> QED
    BY <1>a, <2>1, <2>2 DEF Starts
<1>3. CASE SetAsideDequeue \/ SetAsidePurge
  <2>1. /\ UNCHANGED <<status, runId, killed>> /\ setting'.op \in {"find", "purge", "mark"}
        /\ setting'.runs = setting.runs /\ setting'.id = setting.id
    BY <1>3, <1>t DEF SetAsideDequeue, SetAsidePurge, SetTo, rows, Setting
  <2> QED
    BY <1>0, <1>a, <2>1 DEF SettingRuns, Starts
<1>4. CASE FindRuns
  <2>1. /\ UNCHANGED <<status, runId, killed>> /\ setting'.op = "purge" /\ setting'.id = setting.id
        /\ setting'.runs \subseteq JobsOf(setting.id)
    BY <1>4, <1>t DEF FindRuns, vars, rows, Setting
  <2>2. \A i \in setting'.runs : job[i].pc # "free" => job[i].id = setting'.id
    BY <2>1 DEF JobsOf
  <2> QED
    BY <1>a, <2>1, <2>2 DEF Starts
<1>5. CASE SetAsideMark
  <2>1. /\ setting.id \in DocIds /\ UNCHANGED killed /\ UpdateStatus(setting.id, "failed")
        /\ setting'.runs \subseteq setting.runs
        /\ setting'.runs # {} => setting'.id = setting.id
        /\ runId' = runId \/ runId' = [runId EXCEPT ![setting.id] = NoRun]
    BY <1>0, <1>5 DEF SetAsideMark, IdleSetting, DagShape, SettingShape
  <2>2. \A d \in DocIds : status'[d] = "running" => d # setting.id /\ status[d] = "running"
    BY <1>0, <2>1 DEF UpdateStatus, TypeOK, HasRow
  <2>3. \A d \in DocIds : /\ runId'[d] \in {runId[d], NoRun}
                          /\ d # setting.id => runId'[d] = runId[d]
    BY <1>0, <2>1 DEF SensorTypeOK
  <2>4. \A i \in setting'.runs : job[i].pc # "free" => job[i].id = setting'.id
    BY <1>0, <1>t, <2>1 DEF SettingRuns
  <2>5. \A d \in DocIds \ {setting.id} : \A i \in Jobs : Starts(i, d) => i \notin setting'.runs
    BY <1>0, <2>1 DEF SettingRuns, Starts
  <2> QED
    BY <1>a, <2>1, <2>2, <2>3, <2>4, <2>5 DEF Starts
<1>6. CASE Terminate
  <2>1. UNCHANGED <<status, runId>> /\ setting'.runs = {} /\ setting'.op # "terminate"
    BY <1>6 DEF Terminate, IdleSetting, vars, rows
  <2>2. \A d \in DocIds : \A i \in Jobs : Starts(i, d) => i \notin killed'
    BY <1>6 DEF Terminate, Kill, Starts
  <2> QED
    BY <1>a, <2>1, <2>2
<1> QED
  BY <1>1, <1>2, <1>3, <1>4, <1>5, <1>6

\* Every step keeps the run ids what they are for.
LEMMA RunInvKept == RunInv /\ [DagNext]_dagVars => RunInv'
<1> SUFFICES ASSUME RunInv, [DagNext]_dagVars PROVE RunInv'
  OBVIOUS
<1>0. DagShape /\ DagShape' /\ TypeOK
  BY DagShapeKept DEF RunInv, DagShape
<1>1. CASE DagRequest \/ DagHandle
  <2>1. CASE UNCHANGED dagster /\ (DagRequest \/ Handle)
    BY <1>0, <2>1, ApiBacked
  <2>2. CASE \E d \in DocIds : Recover(d)
    BY <1>0, <2>2, ApiBacked DEF Recover, DagRequest
  <2> QED
    BY <1>0, <1>1, <2>1, <2>2, SetAsideBacked DEF DagRequest, DagHandle
<1>2. CASE SensorStep
  BY <1>2, SensorBacked
<1>3. ASSUME NEW j \in Jobs, RunStep(j) PROVE RunInv'
  <2>1. RunWrites(j)
    BY <1>0, <1>3, RunStepWrites
  <2>2. crashes' = 0 => crashes = 0
    BY <1>0, <1>3 DEF RunStep, StartRun, ValidateBegin, Validate, RunPurge, RunFailed, Interrupted, RunDies,
       apiVars, counters, TypeOK, OpStep, IngestStep, DeleteStep, IngestLoad, IngestBegin, Parse,
       Detect, Identical, Resolve, MoveChunks, PurgeOther, RetireOther, Embed, Clear, Insert,
       SetIndexed, DeleteLoad, SetDeleting, DeleteChunks, DeleteFile, DeleteRow
  <2>3. crashes' = 0 => \A d \in DocIds : Backed(d)'
    BY <1>3, <2>2, RunBacked DEF RunInv
  <2> QED
    BY <1>0, <1>3, <2>1, <2>2, <2>3, RunKeepsIds DEF RunWrites, RunInv
<1>4. CASE UNCHANGED dagVars
  <2>1. UNCHANGED <<status, job, runId, killed, setting, requests, sensor, crashes>>
    BY <1>4 DEF dagVars, dagster, vars, rows, counters
  <2> QED
    BY <1>0, <2>1, QuietBacked DEF RunInv, RunIdShape, SettingRuns, Unfinished
<1> QED
  BY <1>1, <1>2, <1>3, <1>4 DEF DagNext

\* Initially nothing runs and no row records a run.
LEMMA RunInvInit == DagInit => RunInv
<1> SUFFICES ASSUME DagInit PROVE RunInv
  OBVIOUS
<1>1. DagShape
  BY DagInitShaped
<1>2. runId = [d \in DocIds |-> NoRun] /\ setting.runs = {} /\ sensor.op = "idle"
      /\ status = [d \in DocIds |-> "none"]
  BY DEF DagInit, Init, IdleSetting, IdleLoop
<1> QED
  BY <1>1, <1>2, RunAssumption DEF RunInv, RunIdShape, SettingRuns, Unfinished, Backed

\* The invariant of the runs and their rows holds in every state.
LEMMA RunInvHolds == DagSpec => []RunInv
BY RunInvInit, RunInvKept, PTL DEF DagSpec

\* While no process died, _is_blocked_by_active_run drops an event only when an
\* upload of the document is requested, or is a run that has not begun: whatever
\* was aborted, terminated and recovered before, that run reads the newest file.
THEOREM DropIsCoveredHolds == DagSpec => []DropIsCovered
<1>1. RunInv => DropIsCovered
  <2> SUFFICES ASSUME RunInv, crashes = 0, sensor.op = "look", Drops
               PROVE  \/ Requested(sensor.id) # {}
                      \/ \E j \in JobsOf(sensor.id) : job[j].kind = "upload" /\ job[j].pc \in {"wait", "load"}
    BY DEF DropIsCovered
  <2>1. sensor.id \in DocIds
    BY DEF RunInv, DagShape, SensorShape, HeldOp
  <2>2. Coming(sensor.id)
    BY <2>1 DEF RunInv, Backed, Drops
  <2> QED
    BY <2>2 DEF Coming, Starts, Requested, JobsOf
<1> QED
  BY RunInvHolds, <1>1, PTL

-----------------------------------------------------------------------------
(* An active document has somebody who moves it on.  A run that was told to   *)
(* terminate, or is about to be, before its first op does not count: nothing   *)
(* is written when it goes.                                                   *)

Counts(j, d) ==
  /\ job[j].pc # "free" /\ job[j].id = d
  /\ job[j].pc \in {"wait", "load"} =>
       j \notin killed /\ (setting.op = "terminate" => j \notin setting.runs)
Manned(d) ==
  \/ Queued(d) \/ Delayed(d) \/ InSensor(d) \/ Requested(d) # {}
  \/ \E j \in Jobs : Counts(j, d)

\* Neither does an upload whose file is not stored yet, since it may fail, nor a
\* request that has failed its document and only has terminations left to make.
Watched(d) ==
  Unsettled(d) =>
    \/ Manned(d) \/ BeingFailed(d)
    \/ loop.id = d /\ loop.op \in InHandOp \ {"put"}
    \/ setting.id = d /\ setting.op \notin {"idle", "terminate"}

WatchInv == crashes = 0 => \A d \in DocIds : Watched(d)

\* A list keeps a document's events when another event is put at its end, and
\* when the head, of another document, is popped.
LEMMA ListKeeps ==
  ASSUME TypeOK, NEW k \in Kind, NEW d
  PROVE  /\ \A e \in Item : queue' = [queue EXCEPT ![k] = Append(@, e)] =>
              (Queued(d) => Queued(d)') /\ (e.id = d => Queued(d)')
         /\ queue[k] # <<>> /\ queue' = [queue EXCEPT ![k] = Tail(@)] =>
              (Queued(d) /\ Head(queue[k]).id # d => Queued(d)')
<1>1. queue[k] \in Seq(Item) /\ queue \in [Kind -> Seq(Item)]
  BY DEF TypeOK
<1>2. \A l \in Kind : Positions(queue[l], d)' = Positions(queue'[l], d)
  BY DEF Positions
<1>3. ASSUME NEW e \in Item, queue' = [queue EXCEPT ![k] = Append(@, e)]
      PROVE  (Queued(d) => Queued(d)') /\ (e.id = d => Queued(d)')
  <2>1. /\ Positions(queue[k], d) # {} => Positions(Append(queue[k], e), d) # {}
        /\ Positions(Append(queue[k], e), e.id) # {}
    BY <1>1, AppendKeeps
  <2>2. queue'[k] = Append(queue[k], e) /\ \A l \in Kind \ {k} : queue'[l] = queue[l]
    BY <1>1, <1>3
  <2> QED
    BY <1>2, <2>1, <2>2 DEF Queued
<1>4. ASSUME queue[k] # <<>>, queue' = [queue EXCEPT ![k] = Tail(@)], Queued(d), Head(queue[k]).id # d
      PROVE  Queued(d)'
  <2>1. Positions(queue[k], d) # {} => Positions(Tail(queue[k]), d) # {}
    BY <1>1, <1>4, TailKeeps
  <2>2. queue'[k] = Tail(queue[k]) /\ \A l \in Kind \ {k} : queue'[l] = queue[l]
    BY <1>1, <1>4
  <2> QED
    BY <1>2, <1>4, <2>1, <2>2 DEF Queued
<1> QED
  BY <1>3, <1>4

\* A tick that is not holding or draining has nothing in the sensor.
LEMMA NothingHeld ==
  ASSUME DagShape, NEW d \in DocIds, sensor.op \notin HeldOp, sensor.op # "drain" \/ sensor.todo = {}
  PROVE  ~InSensor(d)
BY DEF DagShape, SensorShape, InSensor, HeldOp

\* The drain moves events between the delay sets, the sensor and the lists.
LEMMA TickMans ==
  ASSUME DagShape, TickBegin \/ TickDrain, NEW d \in DocIds
  PROVE  /\ Manned(d) => Manned(d)'
         /\ Unsettled(d)' => Unsettled(d) \/ Manned(d)'
<1>0. TypeOK /\ sensor \in Tick
  BY TickTyped DEF DagShape
<1>1. UNCHANGED <<job, runState>> /\ (TickWaits \/ TickNext \/ TickPending \/ TickPush)
  BY TickIs
<1>2. (Requested(d) # {} => Requested(d)' # {}) /\ \A j \in Jobs : Counts(j, d) => Counts(j, d)'
  BY <1>1 DEF runState, Requested, Counts
<1>3. UNCHANGED queue => (Queued(d) => Queued(d)')
  BY DEF Queued, Positions
<1>4. UNCHANGED delayed => (Delayed(d) => Delayed(d)')
  BY DEF Delayed
<1>5. CASE TickWaits
  <2>1. ~InSensor(d)
    BY <1>5, NothingHeld DEF TickWaits, HeldOp
  <2>2. ASSUME NEW k \in Kind, SensorReady(k) PROVE Delayed(d) => Delayed(d)' \/ InSensor(d)'
    <3>1. PICK ready \in SUBSET delayed[k] :
            /\ delayed' = [delayed EXCEPT ![k] = @ \ ready]
            /\ sensor' = [IdleLoop EXCEPT !.op = "drain", !.kind = k, !.back = "drain", !.todo = ready]
      BY <2>2 DEF SensorReady
    <3>2. sensor'.back = "drain" /\ sensor'.todo = ready
      BY <3>1 DEF IdleLoop
    <3> QED
      BY <1>0, <3>1, <3>2 DEF TypeOK, Delayed, InSensor
  <2>3. Delayed(d) => Delayed(d)' \/ InSensor(d)'
    BY <1>4, <1>5, <2>2 DEF TickWaits, Kind
  <2>4. UNCHANGED <<status, queue>>
    BY <1>5 DEF TickWaits, rows
  <2> QED
    BY <1>2, <1>3, <2>1, <2>3, <2>4 DEF Manned, Unsettled
<1>6. CASE TickNext
  <2>1. PICK it \in sensor.todo, op \in {"push", "setPending"} :
          sensor' = [sensor EXCEPT !.id = it.id, !.force = it.force, !.todo = @ \ {it}, !.op = op]
    BY <1>6 DEF TickNext
  <2>2. sensor'.id = it.id /\ sensor'.todo = sensor.todo \ {it} /\ sensor'.back = sensor.back
    BY <1>0, <2>1 DEF Tick
  <2>3. InSensor(d) => InSensor(d)'
    BY <1>6, <2>2 DEF InSensor, TickNext, DagShape, SensorShape, HeldOp
  <2>4. UNCHANGED <<status, queue, delayed>>
    BY <1>6 DEF TickNext, rows
  <2> QED
    BY <1>2, <1>3, <1>4, <2>3, <2>4 DEF Manned, Unsettled
<1>7. CASE TickPending
  <2>1. sensor'.id = sensor.id /\ sensor'.todo = sensor.todo /\ sensor'.back = sensor.back
    BY <1>0, <1>7 DEF TickPending, Turn, Tick
  <2>2. (InSensor(d) => InSensor(d)') /\ (sensor.id = d => InSensor(d)')
    BY <2>1 DEF InSensor
  <2>3. status'[d] = status[d] \/ sensor.id = d
    BY <1>0, <1>7 DEF TickPending, UpdateStatus, TypeOK
  <2>4. UNCHANGED <<queue, delayed>>
    BY <1>7 DEF TickPending
  <2> QED
    BY <1>2, <1>3, <1>4, <2>2, <2>3, <2>4 DEF Manned, Unsettled
<1>8. CASE TickPush
  <2>1. sensor'.todo = sensor.todo /\ sensor'.back = sensor.back
    BY <1>0, <1>8 DEF TickPush, Tick
  <2>2. Held \in Item /\ Held.id = sensor.id /\ sensor.kind \in Kind
    BY <1>8, TickTyped DEF TickPush, HeldOp
  <2>3. (Queued(d) => Queued(d)') /\ (sensor.id = d => Queued(d)')
    <3>1. queue' = [queue EXCEPT ![sensor.kind] = Append(@, Held)]
      BY <1>8 DEF TickPush
    <3> QED
      BY <1>0, <2>2, <3>1, ListKeeps
  <2>4. InSensor(d) => InSensor(d)' \/ Queued(d)'
    BY <2>1, <2>3 DEF InSensor
  <2>5. UNCHANGED <<status, delayed>>
    BY <1>8 DEF TickPush, rows
  <2> QED
    BY <1>2, <1>4, <2>3, <2>4, <2>5 DEF Manned, Unsettled
<1> QED
  BY <1>1, <1>5, <1>6, <1>7, <1>8

\* The steps of the sensor that hold no event or give it back keep it somewhere:
\* what Look drops was superfluous, and a zombie stays in the sensor's hands.
LEMMA SensorMans ==
  ASSUME RunInv, SensorStep, crashes' = 0, NEW d \in DocIds
  PROVE  /\ Manned(d) => Manned(d)'
         /\ Unsettled(d)' => Unsettled(d) \/ Manned(d)'
<1>0. DagShape /\ TypeOK /\ SensorTypeOK /\ sensor \in Tick /\ sensor.kind \in Kind
  BY TickTyped DEF RunInv, DagShape
<1>c. crashes = 0 => \A e \in DocIds : Backed(e)
  BY DEF RunInv
<1>j. UNCHANGED <<job, killed, setting>> => \A j \in Jobs : Counts(j, d) => Counts(j, d)'
  BY DEF Counts
<1>r. UNCHANGED requests => (Requested(d) # {} => Requested(d)' # {})
  BY DEF Requested
<1>q. UNCHANGED queue => (Queued(d) => Queued(d)')
  BY DEF Queued, Positions
<1>l. UNCHANGED delayed => (Delayed(d) => Delayed(d)')
  BY DEF Delayed
<1>u. UNCHANGED status => (Unsettled(d)' => Unsettled(d))
  BY DEF Unsettled
<1>b. sensor.op \in HeldOp \ {"setPending", "push"} => (InSensor(d) <=> sensor.id = d)
  BY <1>0 DEF InSensor, DagShape, SensorShape, HeldOp
<1>1. CASE TickBegin \/ TickDrain
  BY <1>0, <1>1, TickMans
<1>2. CASE TakeEvent
  <2>1. /\ UNCHANGED <<status, delayed, job, runState>> /\ queue[sensor.kind] # <<>>
        /\ queue' = [queue EXCEPT ![sensor.kind] = Tail(@)]
        /\ sensor' = [sensor EXCEPT !.op = "look", !.id = Head(queue[sensor.kind]).id,
                                    !.force = Head(queue[sensor.kind]).force]
    BY <1>2 DEF TakeEvent, rows
  <2>2. ~InSensor(d)
    BY <1>0, <1>2, NothingHeld DEF TakeEvent, HeldOp
  <2>3. Queued(d) => Queued(d)' \/ Head(queue[sensor.kind]).id = d
    BY <1>0, <2>1, ListKeeps
  <2>4. Head(queue[sensor.kind]).id = d => InSensor(d)'
    BY <1>0, <2>1 DEF Tick, InSensor
  <2> QED
    BY <1>j, <1>l, <1>r, <1>u, <2>1, <2>2, <2>3, <2>4 DEF Manned, runState
<1>3. CASE NoMoreEvents
  <2>1. ~InSensor(d) /\ UNCHANGED <<status, queue, delayed, job, runState>>
    BY <1>0, <1>3, NothingHeld DEF NoMoreEvents, HeldOp, vars, rows, redis
  <2> QED
    BY <1>j, <1>l, <1>q, <1>r, <1>u, <2>1 DEF Manned, runState
<1>4. CASE Look
  <2>1. UNCHANGED <<status, queue, delayed, job, runState>> /\ crashes = 0 /\ sensor.op = "look"
        /\ sensor.id \in DocIds
    BY <1>0, <1>4 DEF Look, vars, rows, redis, counters, DagShape, SensorShape, HeldOp
  <2>2. CASE Drops
    <3>1. InSensor(d) => Coming(d)
      BY <1>b, <1>c, <2>1, <2>2 DEF Drops, Backed, HeldOp
    <3>2. Coming(d) => Requested(d) # {} \/ \E j \in Jobs : Counts(j, d)
      BY DEF Coming, Starts, Counts, Requested
    <3> QED
      BY <1>j, <1>l, <1>q, <1>r, <1>u, <2>1, <3>1, <3>2 DEF Manned, runState
  <2>3. CASE ~Drops
    <3>1. sensor'.id = sensor.id
      BY <1>0, <1>4, <2>3 DEF Look, Turn, Tick
    <3>2. InSensor(d) => InSensor(d)'
      BY <1>b, <2>1, <3>1 DEF InSensor, HeldOp
    <3> QED
      BY <1>j, <1>l, <1>q, <1>r, <1>u, <2>1, <3>2 DEF Manned, runState
  <2> QED
    BY <2>2, <2>3
<1>5. CASE Delay
  <2>1. UNCHANGED <<status, queue, job, runState>> /\ sensor.op = "delay"
        /\ delayed' = [delayed EXCEPT ![sensor.kind] = @ \cup {Held}]
    BY <1>5 DEF Delay, rows
  <2>2. Held.id = sensor.id
    BY DEF Held
  <2>3. (Delayed(d) => Delayed(d)') /\ (sensor.id = d => Delayed(d)')
    BY <1>0, <2>1, <2>2 DEF TypeOK, Delayed
  <2>4. InSensor(d) => Delayed(d)'
    BY <1>b, <2>1, <2>3 DEF HeldOp
  <2> QED
    BY <1>j, <1>q, <1>r, <1>u, <2>1, <2>3, <2>4 DEF Manned, runState
<1>6. CASE ZombiePurge \/ ZombieFail
  <2>1. UNCHANGED <<queue, delayed, job, runState>> /\ sensor.op \in {"purge", "fail"}
        /\ sensor'.id = sensor.id
    BY <1>0, <1>6 DEF ZombiePurge, ZombieFail, redis, Turn, Tick
  <2>2. InSensor(d) => InSensor(d)'
    BY <1>b, <2>1 DEF InSensor, HeldOp
  <2>3. Unsettled(d)' => Unsettled(d)
    BY <1>0, <1>6 DEF ZombiePurge, ZombieFail, rows, Unsettled, UpdateStatus, TypeOK
  <2> QED
    BY <1>j, <1>l, <1>q, <1>r, <2>1, <2>2, <2>3 DEF Manned, runState
<1>7. CASE Dispatch
  <2>1. UNCHANGED <<queue, delayed, job, killed, setting>> /\ sensor.op = "claim"
        /\ requests' = Append(requests, [kind |-> sensor.kind, item |-> Held])
    BY <1>7 DEF Dispatch, redis
  <2>2. requests \in Seq(RunRequest) /\ [kind |-> sensor.kind, item |-> Held] \in RunRequest
    BY <1>0, <2>1, TickTyped DEF SensorTypeOK, RunRequest, HeldOp
  <2>3. /\ \A i \in DOMAIN requests : i \in DOMAIN requests' /\ requests'[i] = requests[i]
        /\ Len(requests) + 1 \in DOMAIN requests'
        /\ requests'[Len(requests) + 1] = [kind |-> sensor.kind, item |-> Held]
    BY <2>1, <2>2
  <2>4. (Requested(d) # {} => Requested(d)' # {}) /\ (sensor.id = d => Requested(d)' # {})
    BY <2>3 DEF Requested, Held
  <2>5. status'[d] = status[d] \/ sensor.id = d
    BY <1>0, <1>7 DEF Dispatch, UpdateStatus, TypeOK
  <2>6. InSensor(d) => Requested(d)' # {}
    BY <1>b, <2>1, <2>4 DEF HeldOp
  <2> QED
    BY <1>j, <1>l, <1>q, <2>1, <2>4, <2>5, <2>6 DEF Manned, Unsettled
<1>8. CASE LookError
  <2>1. UNCHANGED <<status, delayed, job, runState>> /\ sensor.op = "look"
        /\ queue' = [queue EXCEPT ![sensor.kind] = Append(@, Held)]
    BY <1>8 DEF LookError, rows
  <2>2. Held \in Item /\ Held.id = sensor.id
    BY <1>0, <2>1, TickTyped DEF HeldOp
  <2>3. (Queued(d) => Queued(d)') /\ (sensor.id = d => Queued(d)')
    BY <1>0, <2>1, <2>2, ListKeeps
  <2>4. InSensor(d) => Queued(d)'
    BY <1>b, <2>1, <2>3 DEF HeldOp
  <2> QED
    BY <1>j, <1>l, <1>r, <1>u, <2>1, <2>3, <2>4 DEF Manned, runState
<1>9. CASE Launch
  <2>1. UNCHANGED <<status, queue, delayed, killed>> /\ ~InSensor(d)
    BY <1>0, <1>9, NothingHeld DEF Launch, rows, redis, HeldOp
  <2>2. CASE requests = <<>>
    <3>1. UNCHANGED <<job, requests, setting>>
      BY <1>9, <2>2 DEF Launch
    <3> QED
      BY <1>j, <1>l, <1>q, <1>r, <1>u, <2>1, <3>1 DEF Manned
  <2>3. CASE requests # <<>>
    <3> DEFINE q == Head(requests)
               r == NewJob(q.kind, q.item)
    <3>1. PICK j \in Jobs :
            /\ job[j].pc = "free" /\ job' = [job EXCEPT ![j] = r]
            /\ setting' = [setting EXCEPT !.runs = @ \ {j}] /\ requests' = Tail(requests)
      BY <1>9, <2>3 DEF Launch
    <3>2. r.pc = "wait" /\ r.id = q.item.id
      BY DEF NewJob, FreeJob
    <3>3. requests[1] = q
      OBVIOUS
    <3> HIDE DEF q, r
    <3>4. \A i \in Jobs : job'[i] = IF i = j THEN r ELSE job[i]
      BY <1>0, <3>1 DEF TypeOK
    <3>5. setting'.op = setting.op /\ setting'.runs = setting.runs \ {j}
      BY <1>0, <3>1 DEF SensorTypeOK
    <3>6. j \notin killed
      BY <1>0, <3>1 DEF DagShape, KilledShape
    <3>7. \A i \in Jobs : Counts(i, d) => Counts(i, d)'
      BY <2>1, <3>1, <3>4, <3>5 DEF Counts
    <3>8. Requested(d) # {} => Requested(d)' # {} \/ Counts(j, d)'
      <4>1. ASSUME NEW i \in DOMAIN requests, requests[i].item.id = d, i # 1
            PROVE  Requested(d)' # {}
        <5>1. requests \in Seq(RunRequest)
          BY <1>0 DEF SensorTypeOK, RunRequest
        <5>2. i - 1 \in DOMAIN requests' /\ requests'[i - 1] = requests[i]
          BY <2>3, <3>1, <4>1, <5>1
        <5> QED
          BY <4>1, <5>2 DEF Requested
      <4>2. q.item.id = d => Counts(j, d)'
        BY <2>1, <3>2, <3>4, <3>5, <3>6 DEF Counts
      <4> QED
        BY <3>3, <4>1, <4>2 DEF Requested
    <3> QED
      BY <1>l, <1>q, <1>u, <2>1, <3>7, <3>8 DEF Manned
  <2> QED
    BY <2>2, <2>3
<1>10. ~TickFails
  BY <1>0 DEF TickFails, TypeOK
<1> QED
  BY <1>1, <1>2, <1>3, <1>4, <1>5, <1>6, <1>7, <1>8, <1>9, <1>10 DEF SensorStep

\* A step of a run: the run goes on, or ends with its document settled, or was
\* told to terminate before it wrote anything.
LEMMA RunMans ==
  ASSUME RunInv, NEW j \in Jobs, RunStep(j), crashes' = 0, NEW d \in DocIds
  PROVE  /\ Manned(d) => Manned(d)' \/ ~Unsettled(d)'
         /\ Unsettled(d)' => Unsettled(d) \/ Manned(d)'
<1>0. DagShape /\ TypeOK /\ job[j].pc \in PC
  BY JobTyped DEF RunInv, DagShape
<1>1. RunWrites(j)
  BY <1>0, RunStepWrites
<1>2. /\ Queued(d)' <=> Queued(d)
      /\ Delayed(d)' <=> Delayed(d)
      /\ InSensor(d)' <=> InSensor(d)
      /\ Requested(d)' = Requested(d)
      /\ \A i \in Jobs \ {j} : Counts(i, d) => Counts(i, d)'
  BY <1>1 DEF RunWrites, redis, Queued, Delayed, InSensor, Requested, Positions, Counts
<1>3. job'[j].pc \notin {"free", "load"} /\ job[j].id = d => Counts(j, d)'
  BY <1>1 DEF RunWrites, Counts
<1>p. /\ {"load", "begin", "parse", "fail", "failed"} \subseteq PC \ {"free"}
      /\ "load" \notin IngestPC /\ "load" \notin DeletePC
  BY DEF PC, IngestPC, DeletePC, FailPC
<1>s. ASSUME NEW pc \in {"load", "begin", "parse", "fail", "failed"}, Step(j, pc) PROVE job'[j].pc = pc
  BY <1>0, <1>p, <1>s, StepEffect
<1>u. \A e, st : UpdateStatus(e, st) /\ st \notin {"pending", "running", "deleting"} =>
        /\ Unsettled(d)' => Unsettled(d) /\ e # d
  BY <1>0 DEF UpdateStatus, TypeOK, Unsettled, HasRow
\* It is enough to know the row, and the run when it ends.
<1>a. ASSUME Unsettled(d)' => Unsettled(d) \/ (job[j].id = d /\ job'[j].pc \notin {"free", "load"}),
             Counts(j, d) /\ job'[j].pc \in {"free", "load"} => Counts(j, d)' \/ ~Unsettled(d)'
      PROVE  /\ Manned(d) => Manned(d)' \/ ~Unsettled(d)'
             /\ Unsettled(d)' => Unsettled(d) \/ Manned(d)'
  <2>1. Counts(j, d) => Counts(j, d)' \/ ~Unsettled(d)'
    BY <1>3, <1>a DEF Counts
  <2>2. Unsettled(d)' => Unsettled(d) \/ Counts(j, d)'
    BY <1>3, <1>a
  <2> QED
    BY <1>2, <2>1, <2>2 DEF Manned
<1>4. CASE StartRun(j)
  <2>1. UNCHANGED <<status, killed, setting>> /\ job[j].pc = "wait" /\ job'[j].pc = "load"
    BY <1>4, <1>s DEF StartRun, At, rows, dagster
  <2> QED
    BY <1>1, <1>a, <2>1 DEF Counts, RunWrites, Unsettled
<1>5. CASE ValidateBegin(j)
  <2>1. job'[j].pc = "begin" /\ UpdateStatus(Doc(j), "running")
    BY <1>5, <1>s DEF ValidateBegin
  <2>2. status'[d] = status[d] \/ job[j].id = d
    BY <1>0, <2>1 DEF UpdateStatus, TypeOK, Doc
  <2> QED
    BY <1>a, <2>1, <2>2 DEF Unsettled
<1>6. CASE Validate(j) \/ RunPurge(j)
  <2>1. UNCHANGED status /\ job'[j].pc \in {"parse", "fail", "failed"}
    BY <1>6, <1>s DEF Validate, RunPurge
  <2> QED
    BY <1>a, <2>1 DEF Unsettled
<1>7. CASE OpStep(j)
  <2>1. OpWrites(j)
    BY <1>0, <1>7, OpStepWrites
  <2>2. job'[j].pc # "load"
    BY <1>p, <2>1 DEF OpWrites, Moved
  <2>3. job'[j].pc = "free" /\ job[j].id = d => ~Unsettled(d)'
    <3>1. job'[j].pc = "free" =>
            \/ UNCHANGED status /\ status[Doc(j)] \in {"none", "deleted"}
            \/ \E st \in {"indexed", "outdated", "none", "deleted"} : UpdateStatus(Doc(j), st)
      <4>1. "free" \notin IngestPC
        BY DEF IngestPC
      <4> QED
        BY <2>1, <4>1 DEF OpWrites, Moved
    <3> QED
      BY <1>u, <3>1 DEF Doc, Unsettled
  <2>4. Unsettled(d)' => Unsettled(d) \/ job[j].id = d
    <3>1. \A e, st : UpdateStatus(e, st) /\ e # d => (Unsettled(d)' => Unsettled(d))
      BY <1>0 DEF UpdateStatus, TypeOK, Unsettled
    <3>2. UNCHANGED status => (Unsettled(d)' => Unsettled(d))
      BY DEF Unsettled
    <3> QED
      BY <1>u, <2>1, <3>1, <3>2 DEF OpWrites, Doc
  <2> QED
    BY <1>a, <2>2, <2>3, <2>4 DEF Counts
<1>8. CASE RunFailed(j)
  <2>1. UpdateStatus(Doc(j), "failed")
    BY <1>8 DEF RunFailed
  <2> QED
    BY <1>a, <1>u, <2>1 DEF Counts, Doc
<1>9. CASE Interrupted(j)
  <2>1. j \in killed /\ UNCHANGED status
    BY <1>9 DEF Interrupted
  <2>2. job[j].pc \notin {"wait", "load"} => job'[j].pc = "fail"
    BY <1>9, <1>s DEF Interrupted
  <2> QED
    BY <1>a, <2>1, <2>2 DEF Counts, Unsettled
<1>10. ~RunDies(j)
  BY <1>0 DEF RunDies, TypeOK
<1> QED
  BY <1>4, <1>5, <1>6, <1>7, <1>8, <1>9, <1>10 DEF RunStep

\* The event loop keeps a document watched, its handlers between the requests.
LEMMA ApiWatches ==
  ASSUME DagShape, UNCHANGED dagster, DagRequest \/ Handle, NEW d \in DocIds, Watched(d)
  PROVE  Watched(d)'
<1> USE DEF InHandOp, FailOp
<1>0. TypeOK /\ Shape /\ LoopHandles /\ loop.back \in {"idle", "reindex"}
  BY DEF DagShape, Shape, LoopShape, LoopHandles
\* While a document is being set aside the loop is idle.
<1>1. setting.op = "idle"
  <2>1. CASE Handle
    BY <2>1 DEF DagShape, SettingShape, Handle, UploadPut, UploadStage, ReindexKbNext, Enqueue, SetPending,
       Push, FailPurge, FailMark
  <2>2. CASE DagRequest
    BY <2>2 DEF DagRequest, Free, ForceFail, AbortIngest, Recover
  <2> QED
    BY <2>1, <2>2
<1>2. Unsettled(d) => Manned(d) \/ BeingFailed(d) \/ (loop.id = d /\ loop.op \in InHandOp \ {"put"})
  BY <1>1 DEF Watched
<1>m. ASSUME UNCHANGED <<delayed, job>>, Queued(d) => Queued(d)'
      PROVE  Manned(d) => Manned(d)'
  BY <1>m DEF dagster, Manned, Delayed, InSensor, Requested, Counts
<1>q. UNCHANGED queue => (Queued(d) => Queued(d)')
  BY DEF Queued, Positions
<1>u. UNCHANGED status => (Unsettled(d)' => Unsettled(d))
  BY DEF Unsettled
\* A step that writes none of the row, the events and the runs.
<1>a. ASSUME UNCHANGED <<status, queue, delayed, job>>,
             Unsettled(d) => \/ Manned(d) \/ BeingFailed(d)'
                             \/ loop'.id = d /\ loop'.op \in InHandOp \ {"put"}
      PROVE  Watched(d)'
  BY <1>a, <1>m, <1>q, <1>u DEF Watched
<1>g. ASSUME NEW op \in {"stage", "enqueue", "push", "setPending", "failMark"}, Goto(op)
      PROVE  loop'.op = op /\ loop'.id = loop.id
  BY <1>0, <1>g, LoopTyped DEF Goto
<1>3. CASE DagRequest
  <2>1. loop.op = "idle" /\ (Unsettled(d) => Manned(d))
    <3>1. loop.op = "idle"
      BY <1>3 DEF DagRequest, Free, ForceFail, AbortIngest, Recover, Idle
    <3> QED
      BY <1>2, <3>1 DEF BeingFailed
  <2>2. ASSUME NEW e \in DocIds, UploadBegin(e) PROVE Watched(d)'
    <3>1. UNCHANGED <<queue, delayed, job>> /\ status' = [status EXCEPT ![e] = "uploading"]
      BY <2>2 DEF UploadBegin, redis
    <3>2. Unsettled(d)' => Unsettled(d)
      BY <1>0, <3>1 DEF Unsettled, TypeOK
    <3> QED
      BY <1>m, <1>q, <2>1, <3>1, <3>2 DEF Watched
  <2>3. UNCHANGED <<status, queue, delayed, job>> => Watched(d)'
    BY <1>a, <2>1
  <2> QED
    BY <1>3, <2>2, <2>3 DEF DagRequest, DeleteBegin, ReindexBegin, ReindexKbBegin, ForceFail, AbortIngest,
       Recover, vars, rows, redis
<1>4. CASE UploadPut \/ ReindexKbNext
  <2>1. UNCHANGED <<status, queue, delayed, job>> /\ loop.op \in {"put", "reindex"}
    BY <1>4 DEF UploadPut, ReindexKbNext, rows, redis
  <2> QED
    BY <1>2, <1>a, <2>1 DEF BeingFailed
<1>5. CASE UploadStage \/ SetPending
  <2>1. /\ UNCHANGED <<queue, delayed, job>> /\ UpdateStatus(loop.id, "pending")
        /\ loop.op \in {"stage", "setPending"} /\ (Goto("enqueue") \/ Goto("push"))
    BY <1>5 DEF UploadStage, SetPending, redis
  <2>2. loop'.id = loop.id /\ loop'.op \in InHandOp \ {"put"}
    BY <1>g, <2>1
  <2>3. d # loop.id => status'[d] = status[d]
    BY <1>0, <2>1 DEF UpdateStatus, TypeOK
  <2> QED
    BY <1>2, <1>m, <1>q, <2>1, <2>2, <2>3 DEF Watched, Unsettled, BeingFailed
<1>6. CASE Enqueue
  <2>1. UNCHANGED <<status, queue, delayed, job>> /\ loop.op = "enqueue"
    BY <1>6 DEF Enqueue, rows, redis
  <2>2. CASE status[loop.id] \in {"none", "deleted"}
    BY <1>2, <1>a, <2>1, <2>2 DEF Unsettled, BeingFailed
  <2>3. CASE \E op \in {"push", "setPending"} : Goto(op)
    <3>1. loop'.id = loop.id /\ loop'.op \in InHandOp \ {"put"}
      BY <1>g, <2>3
    <3> QED
      BY <1>2, <1>a, <2>1, <3>1 DEF BeingFailed
  <2> QED
    BY <1>6, <2>2, <2>3 DEF Enqueue
<1>7. CASE Push
  <2> DEFINE e == [id |-> loop.id, force |-> loop.force]
  <2>1. /\ UNCHANGED <<status, delayed, job>> /\ loop.op = "push"
        /\ queue' = [queue EXCEPT ![loop.kind] = Append(@, e)]
    BY <1>7 DEF Push, rows
  <2>2. e \in Item /\ e.id = loop.id /\ loop.kind \in Kind
    BY <1>0, <2>1, LoopTyped DEF Shape, LoopShape, Item
  <2> HIDE DEF e
  <2>3. (Queued(d) => Queued(d)') /\ (loop.id = d => Queued(d)')
    BY <1>0, <2>1, <2>2, ListKeeps
  <2>4. Queued(d)' => Manned(d)'
    BY DEF Manned
  <2> QED
    BY <1>2, <1>m, <1>u, <2>1, <2>3, <2>4 DEF Watched, BeingFailed
<1>8. CASE FailPurge
  <2>1. UNCHANGED <<status, queue, delayed, job>> /\ loop.op = "failPurge" /\ Goto("failMark")
    BY <1>8 DEF FailPurge, rows, redis
  <2>2. loop'.op = "failMark" /\ loop'.id = loop.id
    BY <1>g, <2>1
  <2> QED
    BY <1>2, <1>a, <2>1, <2>2 DEF BeingFailed
<1>9. CASE FailMark
  <2>1. UNCHANGED <<queue, delayed, job>> /\ UpdateStatus(loop.id, "failed") /\ loop.op = "failMark"
    BY <1>9 DEF FailMark, redis
  <2>2. Unsettled(d)' => Unsettled(d) /\ d # loop.id
    BY <1>0, <2>1 DEF UpdateStatus, TypeOK, Unsettled, HasRow
  <2> QED
    BY <1>2, <1>m, <1>q, <2>1, <2>2 DEF Watched, BeingFailed
<1> QED
  BY <1>3, <1>4, <1>5, <1>6, <1>7, <1>8, <1>9 DEF Handle

\* Setting a document aside: it is watched until it is failed, and the runs that
\* are terminated after that were not counted.
LEMMA SetAsideWatches ==
  ASSUME RunInv, NEW d \in DocIds, Watched(d),
         \/ \E e \in DocIds : ForceFail(e) \/ AbortIngest(e)
         \/ SetAsideDequeue \/ FindRuns \/ SetAsidePurge \/ SetAsideMark \/ Terminate
  PROVE  Watched(d)'
<1>0. DagShape /\ TypeOK /\ SensorTypeOK /\ RunIdShape
  BY DEF RunInv, DagShape
<1>o. UNCHANGED <<loop, job, sensor, requests>>
  BY DEF ForceFail, AbortIngest, SetAsideDequeue, FindRuns, SetAsidePurge, SetAsideMark, Terminate, vars
<1>i. loop.op = "idle"
  BY <1>0 DEF ForceFail, AbortIngest, Free, Idle, SetAsideDequeue, FindRuns, SetAsidePurge, SetAsideMark,
     Terminate, DagShape, SettingShape
<1>t. setting \in Setting /\ setting.runs \subseteq Jobs
  BY <1>0 DEF SensorTypeOK, Setting
<1>1. Unsettled(d) => Manned(d) \/ (setting.id = d /\ setting.op \notin {"idle", "terminate"})
  BY <1>i DEF Watched, BeingFailed, FailOp, InHandOp
\* It is enough to keep the events, and to count the same runs.
<1>a. ASSUME Unsettled(d)' => Unsettled(d),
             setting.id = d /\ setting.op \notin {"idle", "terminate"} /\ Unsettled(d)' =>
               setting'.id = d /\ setting'.op \notin {"idle", "terminate"},
             (setting'.id = d /\ setting'.op \notin {"idle", "terminate"})
               \/ (/\ Queued(d) => Queued(d)'
                   /\ Delayed(d) => Delayed(d)'
                   /\ \A j \in Jobs : Counts(j, d) => Counts(j, d)')
      PROVE  Watched(d)'
  <2>1. CASE setting'.id = d /\ setting'.op \notin {"idle", "terminate"}
    BY <2>1 DEF Watched
  <2>2. CASE ~(setting'.id = d /\ setting'.op \notin {"idle", "terminate"})
    <3>1. Manned(d) => Manned(d)'
      BY <1>a, <1>o, <2>2 DEF Manned, InSensor, Requested
    <3> QED
      BY <1>1, <1>a, <2>2, <3>1 DEF Watched
  <2> QED
    BY <2>1, <2>2
<1>q. UNCHANGED <<queue, delayed>> => (Queued(d) => Queued(d)') /\ (Delayed(d) => Delayed(d)')
  BY DEF Queued, Delayed, Positions
<1>u. UNCHANGED status => (Unsettled(d)' => Unsettled(d))
  BY DEF Unsettled
<1>2. ASSUME NEW e \in DocIds, ForceFail(e) PROVE Watched(d)'
  <2>1. UNCHANGED <<status, queue, delayed>> /\ setting.op = "idle" /\ setting'.op = "dequeue"
        /\ killed' \subseteq killed \cup ({runId[e]} \cap {r \in Jobs : Unfinished(r)})
    BY <1>2 DEF ForceFail, Free, IdleSetting, vars, rows, redis, Kill, Unfinished
  <2>2. \A j \in Jobs : Counts(j, d) => Counts(j, d)'
    BY <1>0, <1>o, <2>1 DEF Counts, RunIdShape
  <2> QED
    BY <1>a, <1>q, <1>u, <2>1, <2>2
<1>3. ASSUME NEW e \in DocIds, AbortIngest(e) PROVE Watched(d)'
  <2>1. UNCHANGED <<status, queue, delayed, killed>> /\ setting.op = "idle" /\ setting'.op = "dequeue"
    BY <1>3 DEF AbortIngest, Free, vars, rows, redis
  <2>2. \A j \in Jobs : Counts(j, d) => Counts(j, d)'
    BY <1>o, <2>1 DEF Counts
  <2> QED
    BY <1>a, <1>q, <1>u, <2>1, <2>2
<1>4. CASE SetAsideDequeue
  <2>1. /\ UNCHANGED <<status, killed>> /\ DequeueUploads(setting.id) /\ setting.op = "dequeue"
        /\ setting'.op \in {"find", "purge"} /\ setting'.id = setting.id
    BY <1>4, <1>t DEF SetAsideDequeue, SetTo, rows, Setting
  <2>2. \A j \in Jobs : Counts(j, d) => Counts(j, d)'
    BY <1>o, <2>1 DEF Counts
  <2>3. ASSUME d # setting.id PROVE (Queued(d) => Queued(d)') /\ (Delayed(d) => Delayed(d)')
    <3>1. /\ queue["upload"] \in Seq(Item)
          /\ queue'["upload"] = Without(queue["upload"], setting.id)
          /\ queue'["delete"] = queue["delete"]
          /\ delayed'["upload"] = {it \in delayed["upload"] : it.id # setting.id}
          /\ delayed'["delete"] = delayed["delete"]
      BY <1>0, <2>1 DEF DequeueUploads, TypeOK, Kind
    <3>2. Positions(queue["upload"], d) # {} => Positions(queue'["upload"], d) # {}
      BY <2>3, <3>1, WithoutKeeps
    <3>3. Positions(queue["delete"], d) = Positions(queue'["delete"], d)
      BY <3>1
    <3>4. \A k \in Kind : Positions(queue[k], d)' = Positions(queue'[k], d)
      BY DEF Positions
    <3> QED
      BY <2>3, <3>1, <3>2, <3>3, <3>4 DEF Queued, Delayed, Kind
  <2>4. CASE d = setting.id
    BY <1>a, <1>u, <2>1, <2>4
  <2>5. CASE d # setting.id
    BY <1>a, <1>u, <2>1, <2>2, <2>3, <2>5
  <2> QED
    BY <2>4, <2>5
<1>5. CASE FindRuns \/ SetAsidePurge
  <2>1. /\ UNCHANGED <<status, queue, delayed, killed>>
        /\ setting'.op \in {"purge", "mark"} /\ setting'.id = setting.id
    BY <1>5, <1>t DEF FindRuns, SetAsidePurge, SetTo, vars, rows, redis, Setting
  <2>2. setting.op # "terminate" /\ \A j \in Jobs : Counts(j, d) => Counts(j, d)'
    BY <1>5, <1>o, <2>1 DEF Counts, FindRuns, SetAsidePurge
  <2> QED
    BY <1>a, <1>q, <1>u, <2>1, <2>2
<1>6. CASE SetAsideMark
  <2>1. /\ UNCHANGED <<queue, delayed, killed>> /\ UpdateStatus(setting.id, "failed")
        /\ setting.op = "mark" /\ setting'.op \in {"idle", "terminate"}
        /\ setting'.runs \subseteq setting.runs
    BY <1>6, <1>t DEF SetAsideMark, IdleSetting, Setting, redis
  <2>2. Unsettled(d)' => Unsettled(d) /\ d # setting.id
    BY <1>0, <2>1 DEF UpdateStatus, TypeOK, Unsettled, HasRow
  <2>3. d # setting.id => \A j \in Jobs : Counts(j, d) => Counts(j, d)'
    <3>1. \A j \in setting.runs : job[j].pc # "free" => job[j].id = setting.id
      BY DEF RunInv, SettingRuns
    <3> QED
      BY <1>o, <2>1, <3>1 DEF Counts
  <2>4. CASE d = setting.id
    BY <2>2, <2>4 DEF Watched
  <2>5. CASE d # setting.id
    BY <1>a, <1>q, <2>1, <2>2, <2>3, <2>5
  <2> QED
    BY <2>4, <2>5
<1>7. CASE Terminate
  <2>1. UNCHANGED <<status, queue, delayed>> /\ setting.op = "terminate" /\ setting'.op = "idle"
        /\ killed' \subseteq killed \cup setting.runs
    BY <1>7 DEF Terminate, IdleSetting, vars, rows, redis, Kill
  <2>2. \A j \in Jobs : Counts(j, d) => Counts(j, d)'
    BY <1>o, <2>1 DEF Counts
  <2> QED
    BY <1>a, <1>q, <1>u, <2>1, <2>2
<1> QED
  BY <1>2, <1>3, <1>4, <1>5, <1>6, <1>7

\* Every step keeps an active document watched.
LEMMA WatchInvKept == RunInv /\ WatchInv /\ [DagNext]_dagVars => WatchInv'
<1> SUFFICES ASSUME RunInv, WatchInv, [DagNext]_dagVars, crashes' = 0, NEW d \in DocIds
             PROVE  Watched(d)'
  BY DEF WatchInv
<1>0. DagShape /\ TypeOK /\ crashes \in Nat
  BY DEF RunInv, DagShape, TypeOK
<1>2. CASE DagRequest \/ DagHandle
  <2>1. crashes' = crashes
    BY <1>2 DEF DagRequest, DagHandle, Handle, UploadPut, UploadStage, ReindexKbNext, Enqueue, SetPending, Push,
       FailPurge, FailMark, UploadBegin, DeleteBegin, ReindexBegin, ReindexKbBegin, ForceFail, AbortIngest,
       Recover, SetAsideDequeue, FindRuns, SetAsidePurge, SetAsideMark, Terminate, counters, vars
  <2>2. Watched(d)
    BY <2>1 DEF WatchInv
  <2>3. CASE UNCHANGED dagster /\ (DagRequest \/ Handle)
    BY <1>0, <2>2, <2>3, ApiWatches
  <2>4. CASE \E e \in DocIds : Recover(e)
    BY <1>0, <2>2, <2>4, ApiWatches DEF Recover, DagRequest
  <2> QED
    BY <1>2, <2>2, <2>3, <2>4, SetAsideWatches DEF DagRequest, DagHandle
<1>3. ASSUME crashes = 0, UNCHANGED loop, setting'.op = setting.op, setting'.id = setting.id,
             /\ Manned(d) => Manned(d)' \/ ~Unsettled(d)'
             /\ Unsettled(d)' => Unsettled(d) \/ Manned(d)'
      PROVE  Watched(d)'
  BY <1>3 DEF WatchInv, Watched, BeingFailed
<1>4. CASE SensorStep
  <2>1. /\ Manned(d) => Manned(d)'
        /\ Unsettled(d)' => Unsettled(d) \/ Manned(d)'
    BY <1>4, SensorMans
  <2>2. UNCHANGED loop /\ setting'.op = setting.op /\ setting'.id = setting.id
    BY <1>0, <1>4, SensorWrites DEF TickWrites
  <2>3. crashes = 0
    <3>1. crashes' = crashes \/ TickFails
      BY <1>0, <1>4, TickIs DEF SensorStep, TakeEvent, NoMoreEvents, Look, Delay, ZombiePurge, ZombieFail, Dispatch,
         LookError, Launch, counters, vars
    <3> QED
      BY <1>0, <3>1 DEF TickFails
  <2> QED
    BY <1>3, <2>1, <2>2, <2>3
<1>5. ASSUME NEW j \in Jobs, RunStep(j) PROVE Watched(d)'
  <2>1. /\ Manned(d) => Manned(d)' \/ ~Unsettled(d)'
        /\ Unsettled(d)' => Unsettled(d) \/ Manned(d)'
    BY <1>5, RunMans
  <2>2. UNCHANGED <<loop, setting>>
    BY <1>0, <1>5, RunStepWrites DEF RunWrites
  <2>3. crashes = 0
    BY <1>0, <1>5, OpStepWrites DEF RunStep, StartRun, ValidateBegin, Validate, RunPurge, RunFailed, Interrupted,
       RunDies, apiVars, counters
  <2> QED
    BY <1>3, <2>1, <2>2, <2>3
<1>6. CASE UNCHANGED dagVars
  <2>1. UNCHANGED <<status, queue, delayed, loop, job, crashes, sensor, requests, killed, setting>>
    BY <1>6 DEF dagVars, dagster, vars, rows, redis, counters
  <2>2. Manned(d) => Manned(d)'
    BY <2>1 DEF Manned, Queued, Delayed, InSensor, Requested, Positions, Counts
  <2>3. Unsettled(d)' => Unsettled(d)
    BY <2>1 DEF Unsettled
  <2> QED
    BY <1>3, <2>1, <2>2, <2>3
<1> QED
  BY <1>2, <1>4, <1>5, <1>6 DEF DagNext

\* While no process died, a document that is active in Dagster mode is in a list,
\* a delay set, the sensor's hands, a run or its request, or some handler is about
\* to move it on: no drop, abort or interrupted run leaves it behind.
THEOREM DagsterOwnedHolds == DagSpec => []DagsterOwned
<1>1. DagInit => WatchInv
  BY DEF DagInit, Init, WatchInv, Watched, Unsettled
<1>2. DagSpec => []WatchInv
  BY <1>1, WatchInvKept, RunInvHolds, PTL DEF DagSpec
<1>3. WatchInv => DagsterOwned
  <2>1. \A d \in DocIds : Manned(d) => Work(d)
    BY DEF Manned, Work, HasWork, HasJob, JobsOf, Counts
  <2> QED
    BY <2>1 DEF WatchInv, Watched, DagsterOwned, Unsettled, BeingSetAside, BeingFailed, Work, HasWork, InHand
<1> QED
  BY <1>2, <1>3, PTL

-----------------------------------------------------------------------------
(* Nothing is dispatched twice.  A document nobody overrode has its work in   *)
(* one place, and its row shows which: an event, or one the sensor looks at,  *)
(* goes with pending; a request or a run with the status the run works under  *)
(* and with the run id that the sensor's last look left or the run recorded.  *)

\* A run whose op has set its document to failed ingests it.
AgainShape == \A j \in again : job[j].pc \in FailPC /\ job[j].kind = "upload"

\* The runs with ops left to do, and the deletes that are failing; what a failing
\* ingest will write depends on the row it finds (TakenOver).
Live(d)    == {j \in JobsOf(d) : job[j].pc \notin FailPC}
Undoing(d) == {j \in JobsOf(d) : job[j].pc \in FailPC /\ job[j].kind = "delete"}
Ticking(d) == sensor.back = "drain" /\ \E it \in sensor.todo : it.id = d
NoPlace(d) == ~Queued(d) /\ Requested(d) = {} /\ Live(d) = {} /\ sensor.id # d
SettingAside(d) == setting.id = d /\ setting.op \in {"find", "purge", "mark"}

OnePlace(d) ==
  /\ OneQueued(d)
  /\ \A i, m \in Requested(d) : i = m
  /\ \A i, j \in Live(d) : i = j
  /\ Queued(d) => Requested(d) = {} /\ Live(d) = {} /\ sensor.id # d
  /\ Requested(d) # {} => Live(d) = {} /\ sensor.id # d
  /\ Live(d) # {} => sensor.id # d
  /\ ~Delayed(d) /\ ~Ticking(d)

RequestFits(i, d) ==
  IF requests[i].kind = "upload" THEN status[d] = "running" /\ runId[d] = NoRun
  ELSE status[d] = "pending"
RunFits(j, d) ==
  /\ status[d] = JobStatus(j)
  /\ job[j].kind = "upload" => runId[d] = IF job[j].pc \in {"wait", "load"} THEN NoRun ELSE j

PlaceFits(d) ==
  /\ Queued(d) => status[d] = "pending"
  /\ sensor.id = d => sensor.op \in {"look", "claim"} /\ status[d] = "pending"
  /\ \A i \in Requested(d) : RequestFits(i, d)
  /\ \A j \in Live(d) : RunFits(j, d)

\* The API works on a document, and a delete fails, only where there is no place.
Apart(d) ==
  /\ \A i, j \in Undoing(d) : i = j
  /\ Undoing(d) # {} => NoPlace(d) /\ status[d] \in {"pending", "deleting"} /\ ~InHand(d)
  /\ InHand(d) => NoPlace(d) /\ status[d] \in HandStatus
  /\ BeingFailed(d) \/ SettingAside(d) => NoPlace(d) /\ ~HasJob(d)
  /\ Listed(d) => /\ status[d] \in StableStatus /\ ~InHand(d)
                  /\ \A x, y \in loop.todo : x.id = d /\ y.id = d => x = y

DagOwned(d) == OnePlace(d) /\ PlaceFits(d) /\ Apart(d)
DispatchInv == RunInv /\ AgainShape /\ \A d \in DocIds : ~Overridden(d) => DagOwned(d)

\* A document at rest has no place, and no delete of it is failing.
LEMMA RestingIsNowhere ==
  ASSUME DagShape, NEW d \in DocIds, DagOwned(d), status[d] \notin {"pending", "running", "deleting"}
  PROVE  NoPlace(d) /\ Undoing(d) = {}
<1>1. ~Queued(d) /\ sensor.id # d /\ Undoing(d) = {}
  BY DEF DagOwned, PlaceFits, Apart
<1>2. Requested(d) = {}
  BY DEF DagOwned, PlaceFits, RequestFits
<1>3. \A j \in Jobs : JobStatus(j) \in {"pending", "running", "deleting"}
  BY DEF JobStatus
<1>4. Live(d) = {}
  BY <1>3 DEF DagOwned, PlaceFits, RunFits, Live, JobsOf
<1> QED
  BY <1>1, <1>2, <1>4 DEF NoPlace

\* A step of the event loop that adds and removes no event of d: what remains to
\* be shown concerns the loop's hand and the status only.
LEMMA HandStepApart ==
  ASSUME NEW d \in DocIds, DagOwned(d), UNCHANGED <<delayed, job, dagster>>,
         \A k \in Kind : Positions(queue'[k], d) = Positions(queue[k], d),
         ~NoPlace(d) \/ Undoing(d) # {} => status'[d] = status[d],
         InHand(d)' => NoPlace(d) /\ Undoing(d) = {} /\ status'[d] \in HandStatus',
         BeingFailed(d)' => NoPlace(d) /\ ~HasJob(d),
         Listed(d)' => /\ status'[d] \in StableStatus
                       /\ ~InHand(d)'
                       /\ \A x, y \in loop'.todo : x.id = d /\ y.id = d => x = y
  PROVE  DagOwned(d)'
<1>0. (Queued(d)' <=> Queued(d)) /\ (OneQueued(d) => OneQueued(d)')
  BY ZenonT(60) DEF Queued, OneQueued
<1>1. (Queued(d)' <=> Queued(d)) /\ (OneQueued(d) => OneQueued(d)') /\ (Delayed(d)' <=> Delayed(d))
  BY <1>0 DEF Delayed
<1>2. JobsOf(d)' = JobsOf(d) /\ Live(d)' = Live(d) /\ Undoing(d)' = Undoing(d)
      /\ \A j \in Jobs : JobStatus(j)' = JobStatus(j)
  BY DEF JobsOf, JobStatus, Live, Undoing
<1>3. /\ sensor' = sensor /\ Requested(d)' = Requested(d) /\ (Ticking(d)' <=> Ticking(d))
      /\ (SettingAside(d)' <=> SettingAside(d)) /\ runId' = runId /\ requests' = requests
  BY DEF dagster, Requested, Ticking, SettingAside
<1>4. (NoPlace(d)' <=> NoPlace(d)) /\ (HasJob(d)' <=> HasJob(d))
  BY <1>1, <1>2, <1>3 DEF NoPlace, HasJob
<1>5. OnePlace(d)'
  BY <1>1, <1>2, <1>3 DEF DagOwned, OnePlace
<1>6. PlaceFits(d)'
  <2>1. CASE NoPlace(d)
    BY <1>4, <2>1 DEF NoPlace, PlaceFits
  <2>2. CASE ~NoPlace(d)
    <3>1. status'[d] = status[d]
      BY <2>2
    <3>2. \A i \in Requested(d) : RequestFits(i, d)'
      BY <1>3, <3>1 DEF DagOwned, PlaceFits, RequestFits
    <3>3. \A j \in Live(d) : RunFits(j, d)'
      BY <1>2, <1>3, <3>1 DEF DagOwned, PlaceFits, RunFits, Live, JobsOf
    <3> QED
      BY <1>1, <1>2, <1>3, <3>1, <3>2, <3>3 DEF DagOwned, PlaceFits
  <2> QED
    BY <2>1, <2>2
<1>7. Apart(d)'
  BY <1>2, <1>3, <1>4 DEF DagOwned, Apart
<1> QED
  BY <1>5, <1>6, <1>7 DEF DagOwned

\* The same for a step that leaves the lists alone.
LEMMA LoopStepApart ==
  ASSUME NEW d \in DocIds, DagOwned(d), UNCHANGED <<queue, delayed, job, dagster>>,
         ~NoPlace(d) \/ Undoing(d) # {} => status'[d] = status[d],
         InHand(d)' => NoPlace(d) /\ Undoing(d) = {} /\ status'[d] \in HandStatus',
         BeingFailed(d)' => NoPlace(d) /\ ~HasJob(d),
         Listed(d)' => /\ status'[d] \in StableStatus
                       /\ ~InHand(d)'
                       /\ \A x, y \in loop'.todo : x.id = d /\ y.id = d => x = y
  PROVE  DagOwned(d)'
<1>1. \A k \in Kind : Positions(queue'[k], d) = Positions(queue[k], d)
  OBVIOUS
<1> QED
  BY <1>1, HandStepApart

\* An event at the end of a list adds a position of its own document only.
LEMMA AppendsEvent ==
  ASSUME TypeOK, NEW k \in Kind, NEW e \in Item, NEW d, queue' = [queue EXCEPT ![k] = Append(@, e)]
  PROVE  /\ e.id # d => \A l \in Kind : Positions(queue'[l], d) = Positions(queue[l], d)
         /\ e.id = d /\ ~Queued(d) => OneQueued(d)' /\ Queued(d)'
<1>1. queue[k] \in Seq(Item) /\ queue'[k] = Append(queue[k], e) /\ \A l \in Kind \ {k} : queue'[l] = queue[l]
  BY DEF TypeOK
<1>2. Positions(queue'[k], d) = IF e.id = d THEN Positions(queue[k], d) \cup {Len(queue[k]) + 1}
                                ELSE Positions(queue[k], d)
  <2>1. /\ DOMAIN queue'[k] = 1 .. (Len(queue[k]) + 1) /\ DOMAIN queue[k] = 1 .. Len(queue[k])
        /\ queue'[k][Len(queue[k]) + 1] = e
        /\ \A i \in 1 .. Len(queue[k]) : queue'[k][i] = queue[k][i]
        /\ Len(queue[k]) \in Nat
    BY <1>1
  <2> QED
    BY <2>1 DEF Positions
<1>3. ASSUME e.id = d, ~Queued(d) PROVE OneQueued(d)' /\ Queued(d)'
  <2>1. \A l \in Kind : Positions(queue[l], d) = {}
    BY <1>3 DEF Queued
  <2>2. /\ Positions(queue'[k], d) = {Len(queue[k]) + 1}
        /\ \A l \in Kind \ {k} : Positions(queue'[l], d) = {}
    BY <1>1, <1>2, <1>3, <2>1
  <2>3. Queued(d)'
    BY <2>2 DEF Queued
  <2>4. \A l \in Kind : \A i \in Positions(queue'[l], d) : l = k /\ i = Len(queue[k]) + 1
    BY <2>2
  <2>5. OneQueued(d)'
    BY <2>4 DEF OneQueued
  <2> QED
    BY <2>3, <2>5
<1> QED
  BY <1>1, <1>2, <1>3

\* A pop takes the head's position away and moves the others down by one.
LEMMA PopsEvent ==
  ASSUME TypeOK, NEW k \in Kind, queue[k] # <<>>, NEW d, OneQueued(d),
         queue' = [queue EXCEPT ![k] = Tail(@)]
  PROVE  /\ OneQueued(d)' /\ (Queued(d)' => Queued(d))
         /\ Head(queue[k]).id = d => Queued(d) /\ ~Queued(d)'
<1>1. queue[k] \in Seq(Item) /\ queue'[k] = Tail(queue[k]) /\ \A l \in Kind \ {k} : queue'[l] = queue[l]
  BY DEF TypeOK
<1>2. /\ \A i \in Positions(queue'[k], d) : i + 1 \in Positions(queue[k], d) /\ i \in Nat /\ i # 0
      /\ Head(queue[k]).id = d <=> 1 \in Positions(queue[k], d)
  BY <1>1, TailPositions
<1>4. OneQueued(d)'
  <2> SUFFICES ASSUME NEW l \in Kind, NEW m \in Kind, NEW i \in Positions(queue'[l], d),
                      NEW n \in Positions(queue'[m], d)
               PROVE  l = m /\ i = n
    BY DEF OneQueued
  <2>1. (IF l = k THEN i + 1 ELSE i) \in Positions(queue[l], d)
        /\ (IF m = k THEN n + 1 ELSE n) \in Positions(queue[m], d)
    BY <1>1, <1>2
  <2>2. l = m
    BY <2>1 DEF OneQueued
  <2>3. CASE l = k
    <3>1. i + 1 \in Positions(queue[k], d) /\ n + 1 \in Positions(queue[k], d)
      BY <2>1, <2>2, <2>3
    <3>2. i + 1 = n + 1
      BY <3>1 DEF OneQueued
    <3>3. i \in Nat /\ n \in Nat
      BY <1>2, <2>2, <2>3
    <3> QED
      BY <2>2, <3>2, <3>3
  <2>4. CASE l # k
    BY <2>1, <2>2, <2>4 DEF OneQueued
  <2> QED
    BY <2>2, <2>3, <2>4
<1>5. Queued(d)' => Queued(d)
  BY <1>1, <1>2 DEF Queued
<1>6. ASSUME Head(queue[k]).id = d PROVE Queued(d) /\ ~Queued(d)'
  <2>1. 1 \in Positions(queue[k], d)
    BY <1>2, <1>6
  <2>2. \A l \in Kind \ {k} : Positions(queue[l], d) = {}
    BY <2>1 DEF OneQueued
  <2>3. \A i \in Positions(queue[k], d) : i = 1
    BY <2>1 DEF OneQueued
  <2>4. Positions(queue'[k], d) = {}
    BY <1>2, <2>3
  <2> QED
    BY <1>1, <2>1, <2>2, <2>4 DEF Queued
<1> QED
  BY <1>4, <1>5, <1>6

\* The handlers' first steps accept only a document at rest, which has no place.
LEMMA RequestApart ==
  ASSUME DispatchInv, UNCHANGED dagster, NEW d \in DocIds, ~Overridden(d)',
         \/ \E e \in DocIds : UploadBegin(e) \/ Recover(e)
         \/ \E e \in DocIds, force \in BOOLEAN : DeleteBegin(e, force) \/ ReindexBegin(e, force)
         \/ \E force \in BOOLEAN : ReindexKbBegin(force)
  PROVE  DagOwned(d)'
<1>0. TypeOK /\ Shape /\ DagShape
  BY DEF DispatchInv, RunInv, DagShape
<1>1. ASSUME NEW e \in DocIds, UploadBegin(e) PROVE DagOwned(d)'
  <2>1. DagOwned(d)
    BY <1>1 DEF DispatchInv, UploadBegin, Overridden, history
  <2>2. loop.op = "idle" /\ UNCHANGED <<queue, delayed, job>>
    BY <1>1 DEF UploadBegin, Idle, redis
  <2>3. loop'.op = "put" /\ loop'.id = e /\ loop'.back = "idle"
    BY <1>1 DEF UploadBegin, Begin, IdleLoop
  <2>4. status' = [status EXCEPT ![e] = "uploading"] /\ status \in [DocIds -> Status]
    BY <1>0, <1>1 DEF UploadBegin, TypeOK
  <2>5. d = e => NoPlace(d) /\ Undoing(d) = {}
    <3>1. \/ RowOf(SourceOf[e]) = {}
          \/ HasRow(e) /\ ~IsActive(e)
      BY <1>1 DEF UploadBegin
    <3>2. status[e] \in StableStatus \cup {"none"}
      BY <3>1, <2>4 DEF RowOf, HasRow, IsActive, Status
    <3>3. status[e] \notin {"pending", "running", "deleting"}
      BY <3>2 DEF StableStatus
    <3> QED
      BY <1>0, <2>1, <3>3, RestingIsNowhere
  <2>6. "uploading" \in HandStatus'
    BY <2>3 DEF HandStatus
  <2>7. ~BeingFailed(d)' /\ ~Listed(d)' /\ (InHand(d)' => d = e)
    BY <2>3 DEF InHand, BeingFailed, Listed, FailOp
  <2>8. status'[d] = IF d = e THEN "uploading" ELSE status[d]
    BY <2>4
  <2> QED
    BY <2>1, <2>2, <2>5, <2>6, <2>7, <2>8, LoopStepApart
<1>2. ASSUME NEW e \in DocIds, NEW force \in BOOLEAN,
             DeleteBegin(e, force) \/ ReindexBegin(e, force)
      PROVE  DagOwned(d)'
  <2>1. DagOwned(d)
    BY <1>2 DEF DispatchInv, DeleteBegin, ReindexBegin, Overridden, history
  <2>2. UNCHANGED <<queue, delayed, job, status>>
    BY <1>2 DEF DeleteBegin, ReindexBegin, redis, rows
  <2>3. loop'.op = "enqueue" /\ loop'.id = e /\ loop'.back = "idle"
    BY <1>2 DEF DeleteBegin, ReindexBegin, Begin, IdleLoop
  <2>4. status[e] \in StableStatus
    BY <1>0, <1>2 DEF DeleteBegin, ReindexBegin, HasRow, IsActive, TypeOK, Status
  <2>5. d = e => NoPlace(d) /\ Undoing(d) = {}
    BY <1>0, <2>1, <2>4, RestingIsNowhere DEF StableStatus
  <2>6. StableStatus \subseteq HandStatus'
    BY <2>3 DEF HandStatus, StableStatus, Status, RowStatus
  <2>7. ~BeingFailed(d)' /\ ~Listed(d)' /\ (InHand(d)' => d = e)
    BY <2>3 DEF InHand, BeingFailed, Listed, FailOp
  <2> QED
    BY <2>1, <2>2, <2>4, <2>5, <2>6, <2>7, LoopStepApart
<1>3. ASSUME NEW force \in BOOLEAN, ReindexKbBegin(force) PROVE DagOwned(d)'
  <2>1. DagOwned(d)
    BY <1>3 DEF DispatchInv, ReindexKbBegin, Overridden, history
  <2>2. UNCHANGED <<queue, delayed, job, status>>
    BY <1>3 DEF ReindexKbBegin, redis, rows
  <2>3. /\ loop'.op = "reindex" /\ loop'.back = "reindex"
        /\ \A it \in loop'.todo : /\ it \in Item /\ it.force = force
                                  /\ status[it.id] \in {"indexed", "failed"}
    BY <1>3 DEF ReindexKbBegin, IdleLoop
  <2>4. \A x, y \in loop'.todo : x.id = d /\ y.id = d => x = y
    BY <2>3 DEF Item
  <2>5. ~BeingFailed(d)' /\ ~InHand(d)'
    BY <2>3 DEF InHand, BeingFailed, FailOp, InHandOp
  <2>6. Listed(d)' => status'[d] \in StableStatus
    BY <2>2, <2>3 DEF Listed, StableStatus
  <2> QED
    BY <2>1, <2>2, <2>4, <2>5, <2>6, LoopStepApart
<1>4. ASSUME NEW e \in DocIds, Recover(e) PROVE DagOwned(d)'
  <2>1. DagOwned(d)
    BY <1>4 DEF DispatchInv, Recover, Supersede, Override, Overridden
  <2>2. UNCHANGED <<queue, delayed, job, status>>
    BY <1>4 DEF Recover, redis, rows
  <2>3. loop'.op = "failPurge" /\ loop'.id = e /\ loop'.back = "idle"
    BY <1>4 DEF Recover, IdleLoop
  <2>4. d = e => ~Work(d)
    BY <1>4 DEF Recover, Supersede, Override, Overridden
  <2>5. ~Work(d) => NoPlace(d) /\ ~HasJob(d)
    BY DEF Work, HasWork, InSensor, NoPlace, HasJob, Live
  <2>6. ~InHand(d)' /\ ~Listed(d)' /\ (BeingFailed(d)' => d = e)
    BY <2>3 DEF InHand, BeingFailed, Listed, InHandOp
  <2> QED
    BY <2>1, <2>2, <2>4, <2>5, <2>6, LoopStepApart
<1> QED
  BY <1>1, <1>2, <1>3, <1>4

\* The push of an event hands the document from the handler to a list.
LEMMA PushApart ==
  ASSUME DispatchInv, Push, UNCHANGED dagster, NEW d \in DocIds, DagOwned(d)
  PROVE  DagOwned(d)'
<1>0. TypeOK /\ Shape
  BY DEF DispatchInv, RunInv, DagShape
<1> DEFINE k0 == loop.kind
           e  == [id |-> loop.id, force |-> loop.force]
<1>1. loop.op = "push" /\ k0 \in Kind /\ loop.id \in DocIds /\ UNCHANGED <<delayed, job, status>>
  BY <1>0, LoopTyped DEF Push, Shape, LoopShape, InHandOp, rows
<1>2. /\ queue' = [queue EXCEPT ![k0] = Append(@, e)] /\ e \in Item /\ e.id = loop.id
  BY <1>0, <1>1, LoopTyped DEF Push, Item
<1>3. ~InHand(d)' /\ ~BeingFailed(d)' /\ (Listed(d)' => Listed(d) /\ loop'.todo = loop.todo)
  BY <1>0, ReturnReleases DEF Push
<1>4. CASE d # loop.id
  <2>1. \A k \in Kind : Positions(queue'[k], d) = Positions(queue[k], d)
    BY <1>0, <1>1, <1>2, <1>4, AppendsEvent
  <2>2. Listed(d)' => /\ status'[d] \in StableStatus
                      /\ \A x, y \in loop'.todo : x.id = d /\ y.id = d => x = y
    BY <1>1, <1>3 DEF DagOwned, Apart
  <2> QED
    BY <1>1, <1>3, <2>1, <2>2, HandStepApart
<1>5. CASE d = loop.id
  <2>1. InHand(d)
    BY <1>1, <1>5 DEF InHand, InHandOp
  <2>2. NoPlace(d) /\ Undoing(d) = {} /\ status[d] = "pending" /\ ~Listed(d)
    BY <1>1, <2>1 DEF DagOwned, Apart, HandStatus
  <2>3. OneQueued(d)' /\ Queued(d)'
    BY <1>0, <1>1, <1>2, <1>5, <2>2, AppendsEvent DEF NoPlace
  <2>4. /\ Requested(d)' = {} /\ Live(d)' = {} /\ Undoing(d)' = {} /\ sensor' = sensor /\ ~Delayed(d)'
        /\ ~Ticking(d)' /\ ~SettingAside(d)'
    <3>1. ~SettingAside(d) /\ UNCHANGED <<job, delayed>>
      BY <1>0, <1>1 DEF DispatchInv, RunInv, DagShape, SettingShape, SettingAside
    <3> QED
      BY <2>2, <3>1 DEF dagster, Requested, Live, Undoing, JobsOf, NoPlace, Delayed, Ticking, SettingAside,
                        DagOwned, OnePlace
  <2>5. OnePlace(d)' /\ PlaceFits(d)'
    BY <1>1, <2>2, <2>3, <2>4 DEF OnePlace, PlaceFits, NoPlace
  <2>6. Apart(d)'
    BY <1>3, <2>2, <2>4 DEF Apart
  <2> QED
    BY <2>5, <2>6 DEF DagOwned
<1> QED
  BY <1>4, <1>5

\* The handlers' later steps keep a document in the loop's hand, push it, or
\* release it at rest.
LEMMA HandleApart ==
  ASSUME DispatchInv, Handle, UNCHANGED dagster, NEW d \in DocIds, ~Overridden(d)'
  PROVE  DagOwned(d)'
<1>0. TypeOK /\ Shape /\ DagShape /\ loop.back \in {"idle", "reindex", "drain"}
  BY DEF DispatchInv, RunInv, DagShape, Shape, LoopShape
<1>1. DagOwned(d) /\ UNCHANGED job
  BY DEF Handle, DispatchInv, Overridden, history, UploadPut, UploadStage, ReindexKbNext,
         Enqueue, SetPending, Push, FailPurge, FailMark
<1>a. /\ InHand(d) => NoPlace(d) /\ Undoing(d) = {} /\ status[d] \in HandStatus /\ ~Listed(d)
      /\ BeingFailed(d) => NoPlace(d) /\ ~HasJob(d)
      /\ Listed(d) => /\ status[d] \in StableStatus /\ ~InHand(d)
                      /\ \A x, y \in loop.todo : x.id = d /\ y.id = d => x = y
  BY <1>1 DEF DagOwned, Apart
<1>b. ~HasJob(d) => Undoing(d) = {}
  BY DEF HasJob, Undoing
<1>2. CASE UploadPut
  <2>1. loop.op = "put" /\ loop.back = "idle" /\ UNCHANGED <<queue, delayed, status>>
    BY <1>0, <1>2 DEF UploadPut, rows, redis, Shape, LoopShape
  <2>2. CASE loop' = IdleLoop
    <3>1. ~InHand(d)' /\ ~BeingFailed(d)' /\ ~Listed(d)'
      BY <2>2 DEF IdleLoop, InHand, BeingFailed, Listed, InHandOp, FailOp
    <3> QED
      BY <1>1, <2>1, <3>1, LoopStepApart
  <2>3. CASE Goto("stage")
    <3>1. loop'.op = "stage" /\ loop'.id = loop.id /\ loop'.back = "idle"
      BY <1>0, <2>1, <2>3, LoopTyped DEF Goto
    <3>2. InHand(d)' => InHand(d) /\ status'[d] \in HandStatus'
      BY <1>a, <2>1, <3>1 DEF InHand, InHandOp, HandStatus
    <3>3. ~BeingFailed(d)' /\ ~Listed(d)'
      BY <3>1 DEF BeingFailed, Listed, FailOp
    <3> QED
      BY <1>1, <1>a, <2>1, <3>2, <3>3, LoopStepApart
  <2> QED
    BY <1>2, <2>2, <2>3 DEF UploadPut
<1>3. CASE UploadStage
  <2>1. loop.op = "stage" /\ loop.back = "idle" /\ UNCHANGED <<queue, delayed>>
    BY <1>0, <1>3 DEF UploadStage, redis, Shape, LoopShape
  <2>2. loop'.op = "enqueue" /\ loop'.id = loop.id /\ loop'.back = "idle"
    BY <1>0, <1>3, <2>1, LoopTyped DEF UploadStage, Goto
  <2>3. (InHand(d)' <=> d = loop.id) /\ (InHand(d) <=> d = loop.id) /\ ~BeingFailed(d)' /\ ~Listed(d)'
    BY <2>1, <2>2 DEF InHand, InHandOp, BeingFailed, FailOp, Listed
  <2>4. status'[d] = IF d = loop.id /\ HasRow(d) THEN "pending" ELSE status[d]
    BY <1>0, <1>3, UpdateTyped DEF UploadStage, Status, RowStatus, ActiveStatus
  <2>5. InHand(d) => status'[d] \in HandStatus'
    BY <1>a, <2>1, <2>2, <2>3, <2>4 DEF HandStatus, HasRow, Status, RowStatus, ActiveStatus
  <2> QED
    BY <1>1, <1>a, <2>1, <2>3, <2>4, <2>5, LoopStepApart
<1>4. CASE ReindexKbNext
  <2>1. loop.op = "reindex" /\ loop.back = "reindex" /\ UNCHANGED <<queue, delayed, status>>
    BY <1>0, <1>4 DEF ReindexKbNext, rows, redis, Shape, LoopShape
  <2>2. CASE loop' = IdleLoop
    <3>1. ~InHand(d)' /\ ~BeingFailed(d)' /\ ~Listed(d)'
      BY <2>2 DEF IdleLoop, InHand, BeingFailed, Listed, InHandOp, FailOp
    <3> QED
      BY <1>1, <2>1, <3>1, LoopStepApart
  <2>3. ASSUME NEW it \in loop.todo,
               loop' = [loop EXCEPT !.op = "enqueue", !.id = it.id, !.force = it.force,
                                    !.todo = @ \ {it}]
        PROVE  DagOwned(d)'
    <3>2. /\ loop'.op = "enqueue" /\ loop'.id = it.id /\ loop'.back = "reindex"
          /\ loop'.todo = loop.todo \ {it}
      BY <1>0, <2>1, <2>3, LoopTyped
    <3>3. it.id = d => status[d] \in StableStatus /\ ~Listed(d)'
      BY <1>a, <2>1, <3>2 DEF Listed
    <3>4. it.id = d => NoPlace(d) /\ Undoing(d) = {}
      BY <1>0, <1>1, <3>3, RestingIsNowhere DEF StableStatus
    <3>5. StableStatus \subseteq HandStatus'
      BY <3>2 DEF HandStatus, StableStatus, Status, RowStatus
    <3>6. Listed(d)' => Listed(d)
      BY <2>1, <3>2 DEF Listed
    <3>7. (InHand(d)' <=> it.id = d) /\ ~BeingFailed(d)'
      BY <3>2 DEF InHand, InHandOp, BeingFailed, FailOp
    <3> QED
      BY <1>1, <1>a, <2>1, <3>2, <3>3, <3>4, <3>5, <3>6, <3>7, LoopStepApart
  <2>4. ASSUME NEW it \in loop.todo, loop' = [loop EXCEPT !.todo = @ \ {it}]
        PROVE  DagOwned(d)'
    <3>1. /\ loop'.op = "reindex" /\ loop'.back = "reindex" /\ loop'.todo = loop.todo \ {it}
      BY <1>0, <2>1, <2>4, LoopTyped
    <3>2. ~InHand(d)' /\ ~BeingFailed(d)' /\ (Listed(d)' => Listed(d))
      BY <2>1, <3>1 DEF InHand, InHandOp, BeingFailed, FailOp, Listed
    <3> QED
      BY <1>1, <1>a, <2>1, <3>1, <3>2, LoopStepApart
  <2> QED
    BY <1>4, <2>2, <2>3, <2>4 DEF ReindexKbNext
<1>5. CASE Enqueue
  <2>1. loop.op = "enqueue" /\ UNCHANGED <<queue, delayed, status>>
    BY <1>5 DEF Enqueue, rows, redis
  <2>2. CASE Return
    <3>1. ~InHand(d)' /\ ~BeingFailed(d)' /\ (Listed(d)' => Listed(d) /\ loop'.todo = loop.todo)
      BY <1>0, <2>2, ReturnReleases
    <3> QED
      BY <1>1, <1>a, <2>1, <3>1, LoopStepApart
  <2>3. ASSUME NEW op \in {"push", "setPending"}, loop' = [loop EXCEPT !.op = op],
               status[loop.id] \notin {"none", "deleted"},
               op = "push" => status[loop.id] \in {"running", "deleting"}
        PROVE  DagOwned(d)'
    <3>1. loop'.op = op /\ loop'.id = loop.id /\ loop'.back = loop.back /\ loop'.todo = loop.todo
      BY <1>0, <2>3, LoopTyped
    <3>2. InHand(d)' <=> InHand(d)
      BY <2>1, <3>1 DEF InHand, InHandOp
    <3>3. ~BeingFailed(d)' /\ (Listed(d)' <=> Listed(d))
      BY <3>1 DEF BeingFailed, FailOp, Listed
    <3>4. InHand(d) => status[d] \in Status \ {"running", "deleting", "none"} /\ d = loop.id
      BY <1>a, <2>1, <2>3 DEF HandStatus, InHand
    <3>5. InHand(d) => status[d] \in HandStatus'
      BY <2>3, <3>1, <3>4 DEF HandStatus
    <3> QED
      BY <1>1, <1>a, <2>1, <3>1, <3>2, <3>3, <3>5, LoopStepApart
  <2> QED
    BY <1>5, <2>2, <2>3 DEF Enqueue, Goto
<1>6. CASE SetPending
  <2>1. loop.op = "setPending" /\ UNCHANGED <<queue, delayed>>
    BY <1>6 DEF SetPending, redis
  <2>2. loop'.op = "push" /\ loop'.id = loop.id /\ loop'.back = loop.back /\ loop'.todo = loop.todo
    BY <1>0, <1>6, LoopTyped DEF SetPending, Goto
  <2>3. (InHand(d)' <=> InHand(d)) /\ (InHand(d) <=> d = loop.id)
    BY <2>1, <2>2 DEF InHand, InHandOp
  <2>4. status'[d] = IF d = loop.id /\ HasRow(d) THEN "pending" ELSE status[d]
    BY <1>0, <1>6, UpdateTyped DEF SetPending, Status, RowStatus, ActiveStatus
  <2>5. ~BeingFailed(d)' /\ (Listed(d)' <=> Listed(d))
    BY <2>2 DEF BeingFailed, FailOp, Listed
  <2>6. InHand(d) => status[d] # "none"
    BY <1>a, <2>1 DEF HandStatus
  <2>7. "pending" \in HandStatus'
    BY <2>2 DEF HandStatus
  <2>8. InHand(d) => status'[d] = "pending"
    BY <2>3, <2>4, <2>6 DEF HasRow
  <2> QED
    BY <1>1, <1>a, <2>1, <2>2, <2>3, <2>4, <2>5, <2>7, <2>8, LoopStepApart
<1>7. CASE Push
  BY <1>1, <1>7, PushApart
<1>8. CASE FailPurge
  <2>1. loop.op = "failPurge" /\ loop.back = "idle" /\ UNCHANGED <<queue, delayed, status>>
    BY <1>0, <1>8 DEF FailPurge, rows, redis, Shape, LoopShape, FailOp
  <2>2. loop'.op = "failMark" /\ loop'.id = loop.id /\ loop'.back = "idle"
    BY <1>0, <1>8, <2>1, LoopTyped DEF FailPurge, Goto
  <2>3. (BeingFailed(d)' <=> BeingFailed(d)) /\ ~InHand(d)' /\ ~Listed(d)'
    BY <2>1, <2>2 DEF BeingFailed, FailOp, InHand, InHandOp, Listed
  <2> QED
    BY <1>1, <1>a, <2>1, <2>3, LoopStepApart
<1>9. CASE FailMark
  <2>1. loop.op = "failMark" /\ loop.back = "idle" /\ UNCHANGED <<queue, delayed>>
    BY <1>0, <1>9 DEF FailMark, redis, Shape, LoopShape, FailOp
  <2>2. status'[d] = IF d = loop.id /\ HasRow(d) THEN "failed" ELSE status[d]
    BY <1>0, <1>9, UpdateTyped DEF FailMark, Status, RowStatus, StableStatus
  <2>3. d = loop.id => NoPlace(d) /\ Undoing(d) = {}
    BY <1>a, <1>b, <2>1 DEF BeingFailed, FailOp
  <2>4. CASE loop' = IdleLoop
    <3>1. ~InHand(d)' /\ ~BeingFailed(d)' /\ ~Listed(d)'
      BY <2>4 DEF IdleLoop, InHand, BeingFailed, Listed, InHandOp, FailOp
    <3> QED
      BY <1>1, <2>1, <2>2, <2>3, <3>1, LoopStepApart
  <2>5. CASE loop' = [loop EXCEPT !.op = "enqueue"]
    <3>1. loop'.op = "enqueue" /\ loop'.id = loop.id /\ loop'.back = "idle"
      BY <1>0, <2>1, <2>5, LoopTyped
    <3>2. d = loop.id => status'[d] \in HandStatus'
      BY <2>2, <3>1 DEF HandStatus, HasRow, Status, RowStatus, StableStatus
    <3>3. (InHand(d)' => d = loop.id) /\ ~BeingFailed(d)' /\ ~Listed(d)'
      BY <3>1 DEF InHand, BeingFailed, Listed, FailOp
    <3> QED
      BY <1>1, <2>1, <2>2, <2>3, <3>2, <3>3, LoopStepApart
  <2> QED
    BY <1>9, <2>4, <2>5 DEF FailMark
<1> QED
  BY <1>2, <1>3, <1>4, <1>5, <1>6, <1>7, <1>8, <1>9 DEF Handle

\* A step of the sensor that touches a document only where it has its place.
LEMMA SensorStepApart ==
  ASSUME DagShape, NEW d \in DocIds, DagOwned(d), UNCHANGED loop,
         setting'.op = setting.op, setting'.id = setting.id,
         OnePlace(d)', PlaceFits(d)', Undoing(d)' = Undoing(d),
         NoPlace(d) => NoPlace(d)' /\ status'[d] = status[d] /\ (HasJob(d)' <=> HasJob(d))
  PROVE  DagOwned(d)'
<1>1. Listed(d) => NoPlace(d)
  <2>1. Listed(d) => status[d] \notin {"pending", "running", "deleting"}
    BY DEF DagOwned, Apart, StableStatus
  <2> QED
    BY <2>1, RestingIsNowhere
<1>2. /\ InHand(d)' <=> InHand(d)
      /\ BeingFailed(d)' <=> BeingFailed(d)
      /\ Listed(d)' <=> Listed(d)
      /\ HandStatus' = HandStatus
      /\ SettingAside(d)' <=> SettingAside(d)
  BY DEF InHand, BeingFailed, Listed, HandStatus, SettingAside
<1>3. Apart(d)'
  BY <1>1, <1>2 DEF DagOwned, Apart
<1> QED
  BY <1>3 DEF DagOwned

\* A step of the sensor that gives a document no new place and takes none but an
\* event of it.
LEMMA SensorElsewhere ==
  ASSUME DagShape, NEW d \in DocIds, DagOwned(d), UNCHANGED <<loop, job>>,
         setting'.op = setting.op, setting'.id = setting.id,
         status'[d] = status[d], runId'[d] = runId[d],
         OneQueued(d)', Queued(d)' => Queued(d),
         Delayed(d)' => Delayed(d), Ticking(d)' => Ticking(d),
         Requested(d)' \subseteq Requested(d),
         \A i \in Requested(d)' : requests'[i] = requests[i],
         sensor'.id = d => sensor.id = d /\ sensor'.op \in {"look", "claim"}
  PROVE  DagOwned(d)'
<1>1. /\ JobsOf(d)' = JobsOf(d) /\ Live(d)' = Live(d) /\ Undoing(d)' = Undoing(d)
      /\ HasJob(d)' <=> HasJob(d)
      /\ \A j \in Jobs : JobStatus(j)' = JobStatus(j)
  BY DEF JobsOf, JobStatus, Live, Undoing, HasJob
<1>2. OnePlace(d)'
  BY <1>1 DEF DagOwned, OnePlace
<1>3. PlaceFits(d)'
  <2>1. \A i \in Requested(d)' : RequestFits(i, d)'
    BY DEF DagOwned, PlaceFits, RequestFits
  <2>2. \A j \in Live(d) : RunFits(j, d)'
    BY <1>1 DEF DagOwned, PlaceFits, RunFits, Live, JobsOf
  <2> QED
    BY <1>1, <2>1, <2>2 DEF DagOwned, PlaceFits
<1>4. NoPlace(d) => NoPlace(d)'
  BY <1>1 DEF NoPlace
<1> QED
  BY <1>1, <1>2, <1>3, <1>4, SensorStepApart

\* A document that the tick holds is one that waits, and it has no other place.
LEMMA HeldIsPending ==
  ASSUME NEW d \in DocIds, DagOwned(d)
  PROVE  /\ sensor.op \notin {"look", "claim"} => sensor.id # d
         /\ sensor.id = d => /\ status[d] = "pending" /\ ~Queued(d) /\ Requested(d) = {}
                             /\ Live(d) = {} /\ Undoing(d) = {}
BY DEF DagOwned, OnePlace, PlaceFits, Apart, NoPlace

\* The drain finds nothing of a document that has its place.
LEMMA DrainApart ==
  ASSUME DagShape, TickBegin \/ TickDrain, NEW d \in DocIds, DagOwned(d)
  PROVE  DagOwned(d)'
<1>0. TypeOK /\ SensorShape /\ sensor \in Tick /\ ~Delayed(d) /\ ~Ticking(d) /\ OneQueued(d)
  BY TickTyped DEF DagShape, DagOwned, OnePlace
<1>1. UNCHANGED <<loop, job, runState>> /\ (TickWaits \/ TickNext \/ TickPending \/ TickPush)
  BY TickIs
<1>2. sensor.id # d /\ NoDoc # d
  <2>1. sensor.op \notin {"look", "claim"}
    BY <1>1 DEF TickWaits, TickNext, TickPending, TickPush
  <2> QED
    BY <2>1, HeldIsPending, StoreAssumption
<1>3. Requested(d)' = Requested(d) /\ runId'[d] = runId[d]
      /\ setting'.op = setting.op /\ setting'.id = setting.id /\ requests' = requests
  BY <1>1 DEF runState, Requested
\* What remains to be shown of each step.
<1>a. ASSUME status'[d] = status[d], OneQueued(d)', Queued(d)' => Queued(d), ~Delayed(d)', ~Ticking(d)',
             sensor'.id # d
      PROVE  DagOwned(d)'
  BY <1>1, <1>3, <1>a, SensorElsewhere
<1>q. UNCHANGED queue => OneQueued(d)' /\ (Queued(d)' => Queued(d))
  BY <1>0 DEF OneQueued, Queued, Positions
<1>l. UNCHANGED delayed => ~Delayed(d)'
  BY <1>0 DEF Delayed
<1>4. CASE TickWaits
  <2>1. ASSUME NEW kind \in Kind, SensorReady(kind) PROVE ~Delayed(d)' /\ ~Ticking(d)' /\ sensor'.id # d
    <3>1. PICK ready \in SUBSET delayed[kind] :
            /\ delayed' = [delayed EXCEPT ![kind] = @ \ ready]
            /\ sensor' = [IdleLoop EXCEPT !.op = "drain", !.kind = kind, !.back = "drain", !.todo = ready]
      BY <2>1 DEF SensorReady
    <3>2. \A it \in ready : it.id # d
      BY <1>0 DEF Delayed
    <3> QED
      BY <1>0, <1>2, <3>1, <3>2 DEF Delayed, Ticking, IdleLoop, TypeOK
  <2>2. ASSUME UNCHANGED delayed, sensor' = [IdleLoop EXCEPT !.op = "take"]
        PROVE  ~Delayed(d)' /\ ~Ticking(d)' /\ sensor'.id # d
    BY <1>l, <1>2, <2>2 DEF IdleLoop, Ticking
  <2>3. UNCHANGED <<status, queue>>
    BY <1>4 DEF TickWaits, rows
  <2>4. ~Delayed(d)' /\ ~Ticking(d)' /\ sensor'.id # d
    BY <1>4, <2>1, <2>2 DEF TickWaits, Kind
  <2> QED
    BY <1>a, <1>q, <2>3, <2>4
<1>5. CASE TickNext
  <2>1. PICK it \in sensor.todo, op \in {"push", "setPending"} :
          sensor' = [sensor EXCEPT !.id = it.id, !.force = it.force, !.todo = @ \ {it}, !.op = op]
    BY <1>5 DEF TickNext
  <2>2. sensor'.id = it.id /\ sensor'.todo = sensor.todo \ {it} /\ sensor'.back = sensor.back
    BY <1>0, <2>1 DEF Tick
  <2>3. it.id # d
    BY <1>0, <1>5 DEF TickNext, SensorShape, Ticking
  <2>4. UNCHANGED <<status, queue, delayed>> /\ ~Ticking(d)'
    BY <1>0, <1>5, <2>2 DEF TickNext, rows, Ticking
  <2> QED
    BY <1>a, <1>l, <1>q, <2>2, <2>3, <2>4
<1>6. CASE TickPending
  <2>1. UNCHANGED <<queue, delayed>> /\ status'[d] = status[d]
    BY <1>0, <1>2, <1>6 DEF TickPending, UpdateStatus, TypeOK
  <2>2. sensor'.id = sensor.id /\ sensor'.todo = sensor.todo /\ sensor'.back = sensor.back
    BY <1>0, <1>6 DEF TickPending, Turn, Tick
  <2>3. ~Ticking(d)'
    BY <1>0, <2>2 DEF Ticking
  <2> QED
    BY <1>2, <1>a, <1>l, <1>q, <2>1, <2>2, <2>3
<1>7. CASE TickPush
  <2>1. UNCHANGED <<status, delayed>> /\ queue' = [queue EXCEPT ![sensor.kind] = Append(@, Held)]
    BY <1>7 DEF TickPush, rows
  <2>2. sensor'.id = NoDoc /\ sensor'.todo = sensor.todo /\ sensor'.back = sensor.back
    BY <1>0, <1>7 DEF TickPush, Tick
  <2>3. Held \in Item /\ Held.id # d /\ sensor.kind \in Kind
    BY <1>2, <1>7, TickTyped DEF TickPush, HeldOp
  <2>4. \A k \in Kind : Positions(queue'[k], d) = Positions(queue[k], d)
    BY <1>0, <2>1, <2>3, AppendsEvent
  <2>5. OneQueued(d)' /\ (Queued(d)' => Queued(d))
    BY <1>0, <2>4 DEF OneQueued, Queued
  <2>6. ~Ticking(d)'
    BY <1>0, <2>2 DEF Ticking
  <2> QED
    BY <1>2, <1>a, <1>l, <2>1, <2>2, <2>5, <2>6
<1> QED
  BY <1>1, <1>4, <1>5, <1>6, <1>7

\* An event moves from a list to the sensor's hand, goes on towards the claim or
\* back to the list: the sensor neither delays nor fails a document that waits.
LEMMA ReadApart ==
  ASSUME DagShape, NEW d \in DocIds, DagOwned(d),
         \/ TakeEvent \/ NoMoreEvents \/ Look \/ Delay \/ ZombiePurge \/ ZombieFail \/ LookError
         \/ TickFails
  PROVE  DagOwned(d)'
<1>0. TypeOK /\ SensorShape /\ sensor \in Tick /\ sensor.kind \in Kind /\ ~Delayed(d) /\ ~Ticking(d)
      /\ OneQueued(d) /\ NoDoc # d
  BY TickTyped, StoreAssumption DEF DagShape, DagOwned, OnePlace
<1>1. UNCHANGED <<loop, job, runId, setting>>
  BY DEF TakeEvent, NoMoreEvents, Look, Delay, ZombiePurge, ZombieFail, LookError, TickFails, vars, runState
<1>2. Requested(d)' \subseteq Requested(d) /\ \A i \in Requested(d)' : requests'[i] = requests[i]
  <2>1. UNCHANGED requests \/ requests' = <<>>
    BY DEF TakeEvent, NoMoreEvents, Look, Delay, ZombiePurge, ZombieFail, LookError, TickFails, runState
  <2> QED
    BY <2>1 DEF Requested
<1>3. ~Ticking(d)'
  <2>1. ~TickFails => sensor.back # "drain" /\ (sensor'.back = sensor.back \/ sensor'.back = "idle")
    <3>1. ~TickFails => sensor.op \notin {"drain", "setPending", "push"}
      BY DEF TakeEvent, NoMoreEvents, Look, Delay, ZombiePurge, ZombieFail, LookError
    <3>2. ~TickFails => sensor'.back = sensor.back \/ sensor'.back = "idle"
      BY <1>0 DEF TakeEvent, NoMoreEvents, Look, Delay, ZombiePurge, ZombieFail, LookError, EndList, Back, Turn,
         IdleLoop, Tick
    <3> QED
      BY <1>0, <3>1, <3>2 DEF SensorShape
  <2>2. TickFails => sensor'.back = "idle"
    BY DEF TickFails, IdleLoop
  <2> QED
    BY <2>1, <2>2 DEF Ticking
\* What remains to be shown of a step that gives d no new place.
<1>a. ASSUME status'[d] = status[d], OneQueued(d)', Queued(d)' => Queued(d), ~Delayed(d)',
             sensor'.id = d => sensor.id = d /\ sensor'.op \in {"look", "claim"}
      PROVE  DagOwned(d)'
  BY <1>1, <1>2, <1>3, <1>a, SensorElsewhere
<1>q. UNCHANGED queue => OneQueued(d)' /\ (Queued(d)' => Queued(d))
  BY <1>0 DEF OneQueued, Queued, Positions
<1>l. UNCHANGED delayed => ~Delayed(d)'
  BY <1>0 DEF Delayed
<1>s. UNCHANGED rows => status'[d] = status[d]
  BY DEF rows
\* A step that gives d its place anew.
<1>b. ASSUME status'[d] = "pending", OneQueued(d)', Requested(d) = {}, Live(d) = {}, ~NoPlace(d), ~Delayed(d)',
             \/ Queued(d)' /\ sensor'.id # d
             \/ ~Queued(d)' /\ sensor'.id = d /\ sensor'.op = "look"
      PROVE  DagOwned(d)'
  <2>1. Requested(d)' = {} /\ Live(d)' = {} /\ Undoing(d)' = Undoing(d)
    BY <1>1, <1>2, <1>b DEF Live, Undoing, JobsOf
  <2>2. OnePlace(d)' /\ PlaceFits(d)'
    BY <1>3, <1>b, <2>1 DEF OnePlace, PlaceFits
  <2> QED
    BY <1>1, <1>b, <2>1, <2>2, SensorStepApart
<1>4. CASE TakeEvent
  <2> DEFINE e == Head(queue[sensor.kind])
  <2>1. /\ UNCHANGED <<rows, delayed>> /\ sensor.op = "take" /\ queue[sensor.kind] # <<>>
        /\ queue' = [queue EXCEPT ![sensor.kind] = Tail(@)]
        /\ sensor'.op = "look" /\ sensor'.id = e.id
    BY <1>0, <1>4 DEF TakeEvent, Tick
  <2>2. OneQueued(d)' /\ (Queued(d)' => Queued(d)) /\ (e.id = d => Queued(d) /\ ~Queued(d)')
    BY <1>0, <2>1, PopsEvent
  <2>3. CASE e.id # d
    BY <1>a, <1>l, <1>s, <2>1, <2>2, <2>3
  <2>4. CASE e.id = d
    <3>1. Queued(d) /\ status[d] = "pending" /\ Requested(d) = {} /\ Live(d) = {} /\ ~NoPlace(d)
      BY <2>2, <2>4 DEF DagOwned, OnePlace, PlaceFits, NoPlace
    <3> QED
      BY <1>b, <1>l, <1>s, <2>1, <2>2, <2>4, <3>1
  <2> QED
    BY <2>3, <2>4
<1>5. CASE NoMoreEvents
  <2>1. UNCHANGED <<rows, queue, delayed>> /\ sensor'.id = NoDoc
    BY <1>5, TickGoes DEF NoMoreEvents, vars, redis
  <2> QED
    BY <1>0, <1>a, <1>l, <1>q, <1>s, <2>1
<1>6. CASE Look
  <2>1. UNCHANGED <<rows, queue, delayed>> /\ sensor.op = "look"
    BY <1>6 DEF Look, vars, redis
  <2>2. sensor'.id = d => sensor.id = d /\ sensor'.op = "claim"
    <3>1. CASE Back
      BY <1>0, <2>1, <3>1, TickGoes
    <3>2. CASE ~Drops
      <4>1. sensor'.id = sensor.id
        BY <1>0, <1>6, <3>2 DEF Look, Turn, Tick
      <4>2. sensor.id = d => ~Blocked /\ status[sensor.id] # "running"
        BY HeldIsPending DEF Blocked
      <4>3. sensor.id = d => sensor'.op = "claim"
        BY <1>0, <1>6, <3>2, <4>2 DEF Look, Turn, Tick
      <4> QED
        BY <4>1, <4>3
    <3> QED
      BY <1>6, <3>1, <3>2 DEF Look
  <2> QED
    BY <1>a, <1>l, <1>q, <1>s, <2>1, <2>2
<1>7. CASE Delay
  <2>1. /\ UNCHANGED <<rows, queue>> /\ sensor.op = "delay" /\ Back
        /\ delayed' = [delayed EXCEPT ![sensor.kind] = @ \cup {Held}]
    BY <1>7 DEF Delay
  <2>2. Held.id # d
    BY <2>1, HeldIsPending DEF Held
  <2>3. ~Delayed(d)' /\ sensor'.id = NoDoc
    BY <1>0, <2>1, <2>2, TickGoes DEF Delayed, TypeOK
  <2> QED
    BY <1>0, <1>a, <1>q, <1>s, <2>1, <2>3
<1>8. CASE ZombiePurge \/ ZombieFail
  <2>1. UNCHANGED <<queue, delayed>> /\ sensor.id # d /\ sensor'.id = sensor.id
    BY <1>0, <1>8, HeldIsPending DEF ZombiePurge, ZombieFail, redis, Turn, Tick
  <2>2. status'[d] = status[d]
    BY <1>0, <1>8, <2>1 DEF ZombiePurge, ZombieFail, rows, UpdateStatus, TypeOK
  <2> QED
    BY <1>a, <1>l, <1>q, <2>1, <2>2
<1>9. CASE LookError
  <2>1. /\ UNCHANGED <<rows, delayed>> /\ sensor'.id = NoDoc
        /\ queue' = [queue EXCEPT ![sensor.kind] = Append(@, Held)]
    BY <1>9, TickGoes DEF LookError
  <2>2. Held \in Item /\ Held.id = sensor.id
    BY <1>9, TickTyped DEF LookError, HeldOp
  <2>3. CASE sensor.id # d
    <3>1. \A k \in Kind : Positions(queue'[k], d) = Positions(queue[k], d)
      BY <1>0, <2>1, <2>2, <2>3, AppendsEvent
    <3>2. OneQueued(d)' /\ (Queued(d)' => Queued(d))
      BY <1>0, <3>1 DEF OneQueued, Queued
    <3> QED
      BY <1>0, <1>a, <1>l, <1>s, <2>1, <3>2
  <2>4. CASE sensor.id = d
    <3>1. status[d] = "pending" /\ ~Queued(d) /\ Requested(d) = {} /\ Live(d) = {} /\ ~NoPlace(d)
      BY <2>4, HeldIsPending DEF NoPlace
    <3>2. OneQueued(d)' /\ Queued(d)'
      BY <1>0, <2>1, <2>2, <2>4, <3>1, AppendsEvent
    <3> QED
      BY <1>0, <1>b, <1>l, <1>s, <2>1, <3>1, <3>2
  <2> QED
    BY <2>3, <2>4
<1>10. CASE TickFails
  <2>1. UNCHANGED <<rows, queue, delayed>> /\ sensor'.id = NoDoc
    BY <1>10 DEF TickFails, redis, IdleLoop
  <2> QED
    BY <1>0, <1>a, <1>l, <1>q, <1>s, <2>1
<1> QED
  BY <1>4, <1>5, <1>6, <1>7, <1>8, <1>9, <1>10

\* The claim turns the event in the sensor's hand into a request.
LEMMA DispatchApart ==
  ASSUME DagShape, Dispatch, NEW d \in DocIds, DagOwned(d)
  PROVE  DagOwned(d)'
<1> DEFINE r == [kind |-> sensor.kind, item |-> Held]
<1>0. TypeOK /\ SensorTypeOK /\ SensorShape /\ sensor \in Tick /\ sensor.kind \in Kind /\ NoDoc # d
  BY TickTyped, StoreAssumption DEF DagShape
<1>1. /\ UNCHANGED <<queue, delayed, loop, job, setting>> /\ sensor.op = "claim"
      /\ requests' = Append(requests, r)
      /\ sensor'.id = NoDoc /\ sensor'.back = sensor.back /\ sensor'.op = "take"
  BY <1>0 DEF Dispatch, redis, Tick
<1>2. requests \in Seq(RunRequest) /\ r \in RunRequest
  BY <1>0, <1>1, TickTyped DEF SensorTypeOK, RunRequest, HeldOp
<1>3. r.kind = sensor.kind /\ r.item.id = sensor.id
  BY DEF Held
<1> HIDE DEF r
<1>4. /\ \A i \in DOMAIN requests : i \in DOMAIN requests' /\ requests'[i] = requests[i]
      /\ DOMAIN requests' = DOMAIN requests \cup {Len(requests) + 1}
      /\ requests'[Len(requests) + 1] = r
  BY <1>1, <1>2
<1>5. /\ OneQueued(d)' <=> OneQueued(d)
      /\ Queued(d)' <=> Queued(d)
      /\ Delayed(d)' <=> Delayed(d)
      /\ ~Ticking(d)' /\ Live(d)' = Live(d) /\ Undoing(d)' = Undoing(d) /\ ~Delayed(d)
  BY <1>0, <1>1 DEF OneQueued, Queued, Delayed, Positions, Ticking, SensorShape, Live, Undoing, JobsOf,
     DagOwned, OnePlace
<1>6. OneQueued(d)
  BY DEF DagOwned, OnePlace
<1>7. CASE sensor.id # d
  <2>1. Requested(d)' = Requested(d) /\ \A i \in Requested(d)' : requests'[i] = requests[i]
    BY <1>3, <1>4, <1>7 DEF Requested
  <2>2. status'[d] = status[d] /\ runId'[d] = runId[d]
    BY <1>0, <1>7 DEF Dispatch, UpdateStatus, TypeOK, SensorTypeOK
  <2> QED
    BY <1>0, <1>1, <1>5, <1>6, <2>1, <2>2, SensorElsewhere
<1>8. CASE sensor.id = d
  <2>1. status[d] = "pending" /\ ~Queued(d) /\ Requested(d) = {} /\ Live(d) = {} /\ ~NoPlace(d)
    BY <1>8, HeldIsPending DEF NoPlace
  <2>2. Requested(d)' = {Len(requests) + 1}
    BY <1>3, <1>4, <1>8, <2>1 DEF Requested
  <2>3. \A i \in Requested(d)' : i = Len(requests) + 1
    BY <2>2
  <2>4. IF sensor.kind = "upload" THEN status'[d] = "running" /\ runId'[d] = NoRun
        ELSE status'[d] = "pending"
    BY <1>0, <1>8, <2>1 DEF Dispatch, UpdateStatus, HasRow, TypeOK, SensorTypeOK
  <2>5. \A i \in Requested(d)' : RequestFits(i, d)'
    BY <1>3, <1>4, <2>3, <2>4 DEF RequestFits
  <2>6. OnePlace(d)' /\ PlaceFits(d)'
    BY <1>0, <1>1, <1>5, <1>6, <2>1, <2>3, <2>5 DEF OnePlace, PlaceFits
  <2> QED
    BY <1>1, <1>5, <2>1, <2>6, SensorStepApart
<1> QED
  BY <1>7, <1>8

\* A launch turns the first request into a run.
LEMMA LaunchApart ==
  ASSUME DagShape, Launch, NEW d \in DocIds, DagOwned(d)
  PROVE  DagOwned(d)'
<1>0. TypeOK /\ SensorTypeOK /\ SensorShape /\ NoDoc # d /\ requests \in Seq(RunRequest)
  BY StoreAssumption DEF DagShape, SensorTypeOK, RunRequest
<1>1. UNCHANGED <<status, queue, delayed, loop>> /\ sensor.op = "launch"
  BY DEF Launch, rows, redis
<1>2. sensor.id # d /\ sensor.back # "drain" /\ sensor'.id # d /\ sensor'.back # "drain"
  <2>1. sensor' = sensor \/ sensor' = IdleLoop
    BY DEF Launch
  <2> QED
    BY <1>0, <1>1, <2>1, HeldIsPending DEF SensorShape, IdleLoop
<1>3. /\ OneQueued(d) /\ OneQueued(d)'
      /\ Queued(d)' <=> Queued(d)
      /\ ~Delayed(d) /\ ~Delayed(d)' /\ ~Ticking(d)'
  BY <1>1, <1>2 DEF OneQueued, Queued, Delayed, Positions, Ticking, DagOwned, OnePlace
<1>4. CASE requests = <<>>
  <2>1. UNCHANGED <<job, requests, runId, setting>>
    BY <1>4 DEF Launch
  <2> QED
    BY <1>1, <1>2, <1>3, <2>1, SensorElsewhere DEF Requested
<1>5. CASE requests # <<>>
  <2> DEFINE q == Head(requests)
             r == NewJob(q.kind, q.item)
  <2>1. PICK j \in Jobs :
          /\ job[j].pc = "free" /\ job' = [job EXCEPT ![j] = r]
          /\ runId' = [e \in DocIds |-> IF runId[e] = j THEN OldRun ELSE runId[e]]
          /\ setting' = [setting EXCEPT !.runs = @ \ {j}] /\ requests' = Tail(requests) /\ UNCHANGED sensor
    <3>1. UNCHANGED sensor
      BY <1>5 DEF Launch
    <3> QED
      BY <1>5, <3>1 DEF Launch
  <2>2. r.pc = "wait" /\ r.kind = q.kind /\ r.id = q.item.id
    BY DEF NewJob, FreeJob
  <2>3. requests[1] = q /\ q.kind \in Kind
    <3>1. q = requests[1] /\ q \in RunRequest
      BY <1>0, <1>5
    <3> QED
      BY <3>1 DEF RunRequest
  <2> HIDE DEF q, r
  <2>4. \A i \in Jobs : job'[i] = IF i = j THEN r ELSE job[i]
    BY <1>0, <2>1 DEF TypeOK
  <2>5. setting'.op = setting.op /\ setting'.id = setting.id
    BY <1>0, <2>1 DEF SensorTypeOK
  <2>6. NoRun \notin Jobs
    BY RunAssumption
  <2>7. \A i \in DOMAIN Tail(requests) :
          i \in Nat /\ i # 0 /\ i + 1 \in DOMAIN requests /\ Tail(requests)[i] = requests[i + 1]
    BY <1>0, <1>5
  <2>8. /\ 1 \in DOMAIN requests
        /\ \A i \in DOMAIN requests' :
             i \in Nat /\ i # 0 /\ i + 1 \in DOMAIN requests /\ requests'[i] = requests[i + 1]
    BY <1>0, <1>5, <2>1, <2>7
  <2>9. \A i \in Requested(d)' : i \in Nat /\ i # 0 /\ i + 1 \in Requested(d) /\ requests'[i] = requests[i + 1]
    BY <2>8 DEF Requested
  <2>10. Undoing(d)' = Undoing(d)
    BY <2>1, <2>2, <2>4 DEF Undoing, JobsOf, FailPC
  <2>11. CASE q.item.id = d
    <3>1. 1 \in Requested(d)
      BY <2>3, <2>8, <2>11 DEF Requested
    <3>2. \A i \in Requested(d) : i = 1
      BY <3>1 DEF DagOwned, OnePlace
    <3>3. ~Queued(d) /\ Live(d) = {} /\ RequestFits(1, d) /\ ~NoPlace(d)
      BY <3>1 DEF DagOwned, OnePlace, PlaceFits, NoPlace
    <3>4. Requested(d)' = {}
      BY <2>9, <3>2
    <3>5. Live(d)' = {j}
      BY <2>1, <2>2, <2>4, <2>11, <3>3 DEF Live, JobsOf, FailPC
    <3>6. RunFits(j, d)'
      <4>1. JobStatus(j)' = IF q.kind = "upload" THEN "running" ELSE "pending"
        BY <2>2, <2>4 DEF JobStatus
      <4>2. status'[d] = JobStatus(j)'
        BY <1>1, <2>3, <3>3, <4>1 DEF RequestFits
      <4>3. q.kind = "upload" => runId'[d] = NoRun
        BY <2>1, <2>3, <2>6, <3>3 DEF RequestFits
      <4> QED
        BY <2>2, <2>4, <4>2, <4>3 DEF RunFits
    <3>7. OnePlace(d)' /\ PlaceFits(d)'
      BY <1>2, <1>3, <3>3, <3>4, <3>5, <3>6 DEF OnePlace, PlaceFits
    <3> QED
      BY <1>1, <2>5, <2>10, <3>3, <3>7, SensorStepApart
  <2>12. CASE q.item.id # d
    <3>1. JobsOf(d)' = JobsOf(d) /\ Live(d)' = Live(d) /\ j \notin JobsOf(d)
      BY <2>1, <2>2, <2>4, <2>12 DEF JobsOf, Live
    <3>2. \A i \in Requested(d)' : RequestFits(i, d)'
      <4>1. runId[d] = NoRun => runId'[d] = NoRun
        BY <2>1, <2>6
      <4> QED
        BY <1>1, <2>9, <4>1 DEF DagOwned, PlaceFits, RequestFits
    <3>3. \A i \in Live(d) : RunFits(i, d)'
      <4> SUFFICES ASSUME NEW i \in Live(d) PROVE RunFits(i, d)'
        OBVIOUS
      <4>1. i \in Jobs /\ i # j /\ job'[i] = job[i] /\ RunFits(i, d)
        BY <2>4, <3>1 DEF Live, JobsOf, DagOwned, PlaceFits
      <4>2. JobStatus(i)' = JobStatus(i)
        BY <4>1 DEF JobStatus
      <4>3. runId[d] # j => runId'[d] = runId[d]
        BY <2>1
      <4> QED
        BY <1>1, <2>6, <4>1, <4>2, <4>3 DEF RunFits
    <3>4. \A i, m \in Requested(d)' : i = m
      <4> SUFFICES ASSUME NEW i \in Requested(d)', NEW m \in Requested(d)' PROVE i = m
        OBVIOUS
      <4>1. i + 1 = m + 1 /\ i \in Nat /\ m \in Nat
        BY <2>9 DEF DagOwned, OnePlace
      <4> QED
        BY <4>1
    <3>5. Requested(d)' # {} => Requested(d) # {}
      BY <2>9
    <3>6. OnePlace(d)' /\ PlaceFits(d)'
      BY <1>1, <1>2, <1>3, <3>1, <3>2, <3>3, <3>4, <3>5 DEF OnePlace, PlaceFits, DagOwned
    <3>7. NoPlace(d) => NoPlace(d)' /\ (HasJob(d)' <=> HasJob(d))
      BY <1>2, <1>3, <3>1, <3>5 DEF NoPlace, HasJob
    <3> QED
      BY <1>1, <2>5, <2>10, <3>6, <3>7, SensorStepApart
  <2> QED
    BY <2>11, <2>12
<1> QED
  BY <1>4, <1>5

\* Every step of the sensor keeps the work of a document in one place.
LEMMA SensorApart ==
  ASSUME DagShape, SensorStep, NEW d \in DocIds, DagOwned(d)
  PROVE  DagOwned(d)'
BY DrainApart, ReadApart, DispatchApart, LaunchApart DEF SensorStep

\* What a step of a run leaves alone.
LEMMA RunStepFrame ==
  ASSUME NEW j \in Jobs, RunWrites(j), NEW d \in DocIds
  PROVE  /\ sensor' = sensor /\ requests' = requests /\ Requested(d)' = Requested(d)
         /\ Queued(d)' <=> Queued(d)
         /\ OneQueued(d)' <=> OneQueued(d)
         /\ Delayed(d)' <=> Delayed(d)
         /\ Ticking(d)' <=> Ticking(d)
         /\ InHand(d)' <=> InHand(d)
         /\ BeingFailed(d)' <=> BeingFailed(d)
         /\ SettingAside(d)' <=> SettingAside(d)
         /\ Listed(d)' <=> Listed(d)
         /\ loop' = loop /\ HandStatus' = HandStatus
         /\ \A i \in Jobs \ {j} : /\ i \in JobsOf(d)' <=> i \in JobsOf(d)
                                  /\ i \in Live(d)' <=> i \in Live(d)
                                  /\ i \in Undoing(d)' <=> i \in Undoing(d)
                                  /\ job'[i] = job[i] /\ JobStatus(i)' = JobStatus(i)
BY DEF RunWrites, redis, Requested, Queued, OneQueued, Positions, Delayed, Ticking, InHand, BeingFailed,
       SettingAside, Listed, HandStatus, JobsOf, Live, Undoing, JobStatus

\* A run of another document changes d only when it retires it, at rest.
LEMMA OtherRunApart ==
  ASSUME DagShape, NEW j \in Jobs, RunWrites(j), NEW d \in DocIds, DagOwned(d), job[j].id # d,
         runId'[d] = runId[d],
         \/ status'[d] = status[d]
         \/ status[d] \in StableStatus /\ status'[d] \in StableStatus /\ ~InHand(d)
  PROVE  DagOwned(d)'
<1>1. /\ JobsOf(d)' = JobsOf(d) /\ Live(d)' = Live(d) /\ Undoing(d)' = Undoing(d)
      /\ (HasJob(d)' <=> HasJob(d)) /\ j \notin Live(d)
  <2>1. j \notin JobsOf(d) /\ j \notin JobsOf(d)'
    BY DEF JobsOf, RunWrites
  <2>2. JobsOf(d)' = JobsOf(d)
    BY <2>1, RunStepFrame DEF JobsOf
  <2>3. /\ j \notin Live(d) /\ j \notin Live(d)' /\ j \notin Undoing(d) /\ j \notin Undoing(d)'
        /\ Live(d) \subseteq Jobs /\ Live(d)' \subseteq Jobs
        /\ Undoing(d) \subseteq Jobs /\ Undoing(d)' \subseteq Jobs
    <3>1. /\ Live(d) \subseteq JobsOf(d) /\ Undoing(d) \subseteq JobsOf(d) /\ JobsOf(d) \subseteq Jobs
          /\ Live(d)' \subseteq JobsOf(d)' /\ Undoing(d)' \subseteq JobsOf(d)' /\ JobsOf(d)' \subseteq Jobs
      BY DEF Live, Undoing, JobsOf
    <3> QED
      BY <2>1, <3>1
  <2>4. \A i \in Jobs \ {j} : (i \in Live(d)' <=> i \in Live(d)) /\ (i \in Undoing(d)' <=> i \in Undoing(d))
    BY RunStepFrame
  <2>5. Live(d)' = Live(d) /\ Undoing(d)' = Undoing(d)
    <3>1. \A i \in Live(d)' : i \in Live(d)
      BY <2>3, <2>4
    <3>2. \A i \in Live(d) : i \in Live(d)'
      BY <2>3, <2>4
    <3>3. \A i \in Undoing(d)' : i \in Undoing(d)
      BY <2>3, <2>4
    <3>4. \A i \in Undoing(d) : i \in Undoing(d)'
      BY <2>3, <2>4
    <3> QED
      BY <3>1, <3>2, <3>3, <3>4
  <2> QED
    BY <2>2, <2>3, <2>5 DEF HasJob
<1>2. status'[d] = status[d] \/ (NoPlace(d) /\ Undoing(d) = {})
  BY RestingIsNowhere DEF StableStatus
<1>3. (NoPlace(d)' <=> NoPlace(d)) /\ OnePlace(d)'
  BY <1>1, RunStepFrame DEF NoPlace, OnePlace, DagOwned
<1>4. PlaceFits(d)'
  <2>1. CASE NoPlace(d)
    BY <1>3, <2>1 DEF NoPlace, PlaceFits
  <2>2. CASE ~NoPlace(d)
    <3>1. status'[d] = status[d]
      BY <1>2, <2>2
    <3>2. \A i \in Requested(d)' : RequestFits(i, d)'
      BY <3>1, RunStepFrame DEF DagOwned, PlaceFits, RequestFits
    <3>3. \A i \in Live(d)' : RunFits(i, d)'
      <4>1. \A i \in Live(d) : i \in Jobs \ {j} /\ RunFits(i, d)
        BY <1>1 DEF DagOwned, PlaceFits, Live, JobsOf
      <4> QED
        BY <1>1, <3>1, <4>1, RunStepFrame DEF RunFits
    <3> QED
      BY <3>1, <3>2, <3>3, RunStepFrame DEF DagOwned, PlaceFits
  <2> QED
    BY <2>1, <2>2
<1>5. Apart(d)'
  BY <1>1, <1>2, <1>3, RunStepFrame DEF Apart, DagOwned
<1> QED
  BY <1>3, <1>4, <1>5 DEF DagOwned

\* A run with ops left to do goes on under its status, ends, or fails.
LEMMA LiveRunApart ==
  ASSUME NEW j \in Jobs, RunWrites(j), NEW d \in DocIds, DagOwned(d), j \in Live(d),
         job'[j].pc \notin FailPC \cup {"free"} => RunFits(j, d)',
         job'[j].pc \in FailPC => status'[d] = status[d]
  PROVE  DagOwned(d)'
<1>1. /\ job[j].id = d /\ \A i \in Live(d) : i = j
      /\ ~Queued(d) /\ Requested(d) = {} /\ sensor.id # d /\ ~Delayed(d) /\ ~Ticking(d) /\ OneQueued(d)
      /\ status[d] = JobStatus(j)
  BY DEF DagOwned, OnePlace, PlaceFits, RunFits, Live, JobsOf
<1>2. Undoing(d) = {} /\ ~InHand(d) /\ ~BeingFailed(d) /\ ~SettingAside(d) /\ ~Listed(d)
  <2>1. ~NoPlace(d)
    BY DEF NoPlace
  <2>2. JobStatus(j) \notin StableStatus
    BY DEF JobStatus, StableStatus
  <2> QED
    BY <1>1, <2>1, <2>2 DEF DagOwned, Apart
<1>3. (\A i \in Live(d)' : i = j) /\ \A i \in Undoing(d)' : i = j
  <2>1. Live(d)' \subseteq Jobs /\ Undoing(d)' \subseteq Jobs
    BY DEF Live, Undoing, JobsOf
  <2> QED
    BY <1>1, <1>2, <2>1, RunStepFrame
<1>4. OnePlace(d)'
  BY <1>1, <1>3, RunStepFrame DEF OnePlace
<1>5. j \in Live(d)' => job'[j].pc \notin FailPC \cup {"free"}
  BY DEF Live, JobsOf
<1>6. PlaceFits(d)'
  BY <1>1, <1>3, <1>5, RunStepFrame DEF PlaceFits
<1>7. Undoing(d)' # {} => NoPlace(d)' /\ status'[d] \in {"pending", "deleting"}
  <2> SUFFICES ASSUME Undoing(d)' # {} PROVE NoPlace(d)' /\ status'[d] \in {"pending", "deleting"}
    OBVIOUS
  <2>1. j \in Undoing(d)'
    BY <1>3
  <2>2. job'[j].pc \in FailPC /\ job[j].kind = "delete"
    BY <2>1 DEF Undoing, JobsOf, RunWrites
  <2>3. j \notin Live(d)'
    BY <1>5, <2>2
  <2>4. Live(d)' = {}
    BY <1>3, <2>3
  <2> QED
    BY <1>1, <2>2, <2>4, RunStepFrame DEF NoPlace, JobStatus
<1>8. Apart(d)'
  BY <1>2, <1>3, <1>7, RunStepFrame DEF Apart
<1> QED
  BY <1>4, <1>6, <1>8 DEF DagOwned

\* A failing run writes the row only where there is no place.
LEMMA FailingRunApart ==
  ASSUME NEW j \in Jobs, RunWrites(j), NEW d \in DocIds, DagOwned(d), job[j].id = d, job[j].pc \in FailPC,
         job'[j].pc \in FailPC \cup {"free"},
         ~NoPlace(d) => status'[d] = status[d] /\ runId'[d] = runId[d],
         \/ status'[d] = status[d]
         \/ ~InHand(d) /\ ~Listed(d) /\ Undoing(d)' = {}
  PROVE  DagOwned(d)'
<1>1. HasJob(d) /\ j \notin Live(d) /\ j \notin Live(d)'
  BY DEF HasJob, JobsOf, Live, FailPC
<1>2. ~BeingFailed(d) /\ ~SettingAside(d)
  BY <1>1 DEF DagOwned, Apart
<1>3. Live(d)' = Live(d)
  BY <1>1, RunStepFrame DEF Live, JobsOf
<1>4. Undoing(d)' \subseteq Undoing(d)
  <2>1. j \in Undoing(d)' => j \in Undoing(d)
    BY DEF Undoing, JobsOf, RunWrites, FailPC
  <2>2. Undoing(d)' \subseteq Jobs
    BY DEF Undoing, JobsOf
  <2> QED
    BY <2>1, <2>2, RunStepFrame
<1>5. OnePlace(d)' /\ (NoPlace(d)' <=> NoPlace(d))
  BY <1>3, RunStepFrame DEF OnePlace, NoPlace, DagOwned
<1>6. PlaceFits(d)'
  <2>1. CASE NoPlace(d)
    BY <1>5, <2>1 DEF NoPlace, PlaceFits
  <2>2. CASE ~NoPlace(d)
    <3>1. \A i \in Requested(d)' : RequestFits(i, d)'
      BY <2>2, RunStepFrame DEF DagOwned, PlaceFits, RequestFits
    <3>2. \A i \in Live(d)' : RunFits(i, d)'
      <4>1. \A i \in Live(d) : i \in Jobs \ {j} /\ RunFits(i, d)
        BY <1>1 DEF DagOwned, PlaceFits, Live, JobsOf
      <4> QED
        BY <1>3, <2>2, <4>1, RunStepFrame DEF RunFits
    <3> QED
      BY <2>2, <3>1, <3>2, RunStepFrame DEF DagOwned, PlaceFits
  <2> QED
    BY <2>1, <2>2
<1>7. Apart(d)'
  BY <1>2, <1>4, <1>5, RunStepFrame DEF Apart, DagOwned
<1> QED
  BY <1>5, <1>6, <1>7 DEF DagOwned

\* Where set_failed may write the row of a document that nobody overrode.
LEMMA FailsItsOwn ==
  ASSUME DagShape, NEW j \in Jobs, NEW d \in DocIds, DagOwned(d), job[j].id = d, job[j].pc \in FailPC,
         HasRow(d), ~TakenOver(j)
  PROVE  NoPlace(d) /\ (status[d] = "failed" \/ (~InHand(d) /\ ~Listed(d)))
<1>0. j \in JobsOf(d) /\ j \notin Live(d) /\ job[j].kind \in Kind
  BY JobTyped DEF DagShape, JobsOf, Live, FailPC
<1>h. {"running", "deleting"} \cap HandStatus = {} /\ NoRun \notin Jobs
  BY RunAssumption DEF HandStatus
<1>1. CASE job[j].kind = "delete"
  <2>1. j \in Undoing(d)
    BY <1>0, <1>1 DEF Undoing
  <2>2. NoPlace(d) /\ ~InHand(d) /\ status[d] \in {"pending", "deleting"}
    BY <2>1 DEF DagOwned, Apart
  <2> QED
    BY <2>2 DEF DagOwned, Apart, StableStatus
<1>2. CASE job[j].kind = "upload" /\ status[d] = "failed"
  BY <1>2, RestingIsNowhere
<1>3. CASE job[j].kind = "upload" /\ status[d] = "running" /\ runId[d] = j
  <2>1. ~Queued(d) /\ sensor.id # d /\ Requested(d) = {}
    BY <1>3, <1>h DEF DagOwned, PlaceFits, RequestFits
  <2>2. \A i \in Live(d) : FALSE
    <3> SUFFICES ASSUME NEW i \in Live(d) PROVE FALSE
      OBVIOUS
    <3>1. RunFits(i, d) /\ i # j
      BY <1>0 DEF DagOwned, PlaceFits
    <3>2. job[i].kind = "upload"
      BY <1>3, <3>1 DEF RunFits, JobStatus
    <3> QED
      BY <1>3, <1>h, <3>1, <3>2 DEF RunFits
  <2>3. ~InHand(d) /\ ~Listed(d)
    BY <1>3, <1>h DEF DagOwned, Apart, StableStatus
  <2> QED
    BY <2>1, <2>2, <2>3 DEF NoPlace
<1> QED
  BY <1>0, <1>1, <1>2, <1>3 DEF TakenOver, Kind, Doc

\* A run's ops, its failure and its death keep the work of its document in one
\* place.
LEMMA OwnRunApart ==
  ASSUME DispatchInv, NEW j \in Jobs, RunStep(j), NEW d \in DocIds, job[j].id = d, DagOwned(d), ~Overridden(d)'
  PROVE  DagOwned(d)'
<1>0. DagShape /\ TypeOK /\ SensorTypeOK /\ AgainShape /\ JobShape(j) /\ job[j].pc \in PC /\ job[j].kind \in Kind
  BY JobTyped DEF DispatchInv, RunInv, DagShape, Shape
<1>1. RunWrites(j)
  BY <1>0, RunStepWrites
<1>2. job[j].pc # "free" /\ j \in JobsOf(d) /\ (job[j].pc \notin FailPC => j \in Live(d))
  BY <1>1 DEF RunWrites, JobsOf, Live
<1>3. j \in Live(d) => status[d] = JobStatus(j) /\ RunFits(j, d)
  BY DEF DagOwned, PlaceFits, RunFits
<1>4. JobStatus(j) # "none"
  BY DEF JobStatus
<1>5. {"begin", "parse"} \subseteq IngestPC /\ FailPC = {"fail", "failed"} /\ "load" \notin IngestPC
      /\ FailPC \cap IngestPC = {} /\ FailPC \cap DeletePC = {} /\ "free" \notin FailPC
      /\ FailPC \cup IngestPC \cup {"load", "free"} \subseteq PC
  BY DEF IngestPC, FailPC, DeletePC, PC
<1>s. ASSUME NEW pc \in PC, Step(j, pc) PROVE job'[j].pc = pc /\ job'[j].kind = job[j].kind
  BY <1>0, <1>s, StepEffect
<1>e. End(j) => job'[j].pc = "free"
  BY <1>0, EndEffect
<1>r. SetRun(j) => runId'[d] = IF HasRow(d) THEN j ELSE runId[d]
  BY <1>0 DEF SetRun, SensorTypeOK, Doc
<1>u. \A st : UpdateStatus(Doc(j), st) => status'[d] = IF HasRow(d) THEN st ELSE status[d]
  BY <1>0 DEF UpdateStatus, TypeOK, HasRow, Doc
\* What remains to be shown of a run that goes on.
<1>a. ASSUME j \in Live(d), job'[j].pc \notin FailPC \cup {"free"} => RunFits(j, d)',
             job'[j].pc \in FailPC => status'[d] = status[d]
      PROVE  DagOwned(d)'
  BY <1>1, <1>a, LiveRunApart
<1>b. ASSUME job[j].pc \in FailPC, job'[j].pc \in FailPC \cup {"free"}, status'[d] = status[d], runId'[d] = runId[d]
      PROVE  DagOwned(d)'
  BY <1>1, <1>b, FailingRunApart
<1>6. CASE StartRun(j)
  <2>1. job[j].pc = "wait" /\ job'[j].pc = "load" /\ job'[j].kind = job[j].kind /\ UNCHANGED <<status, runId>>
    BY <1>5, <1>6, <1>s DEF StartRun, At, rows, dagster
  <2>2. j \in Live(d)
    BY <1>2, <1>5, <2>1
  <2>3. RunFits(j, d)'
    BY <1>3, <2>1, <2>2 DEF RunFits, JobStatus
  <2> QED
    BY <1>5, <1>a, <2>1, <2>2, <2>3
<1>7. CASE ValidateBegin(j)
  <2>1. /\ job[j].pc = "load" /\ job[j].kind = "upload" /\ job'[j].pc = "begin"
        /\ job'[j].kind = job[j].kind /\ UpdateStatus(Doc(j), "running") /\ SetRun(j)
    BY <1>5, <1>7, <1>s DEF ValidateBegin, At
  <2>2. j \in Live(d)
    BY <1>2, <1>5, <2>1
  <2>3. HasRow(d)
    BY <1>3, <1>4, <2>2 DEF HasRow
  <2>4. status'[d] = "running" /\ runId'[d] = j
    BY <1>r, <1>u, <2>1, <2>3
  <2>5. RunFits(j, d)'
    BY <2>1, <2>4 DEF RunFits, JobStatus
  <2> QED
    BY <1>5, <1>a, <2>1, <2>2, <2>5
<1>8. CASE Validate(j)
  <2>1. /\ job[j].pc = "begin" /\ job'[j].pc \in {"parse", "fail"} /\ job'[j].kind = job[j].kind
        /\ UNCHANGED <<status, runId>>
    BY <1>5, <1>8, <1>s DEF Validate, At
  <2>2. j \in Live(d) /\ job[j].kind = "upload"
    BY <1>0, <1>2, <1>5, <2>1 DEF JobShape
  <2>3. job'[j].pc = "parse" => RunFits(j, d)'
    BY <1>3, <2>1, <2>2 DEF RunFits, JobStatus
  <2>4. job'[j].pc \notin FailPC \cup {"free"} => RunFits(j, d)'
    BY <1>5, <2>1, <2>3
  <2> QED
    BY <1>a, <2>1, <2>2, <2>4
<1>9. CASE OpStep(j)
  <2>1. OpWrites(j) /\ j \in Live(d)
    BY <1>0, <1>2, <1>5, <1>9, OpStepWrites DEF OpStep
  <2>2. runId'[d] = runId[d] \/ runId'[d] = j
    BY <1>9, <1>r DEF OpStep
  <2>3. HasRow(d) /\ status[d] = JobStatus(j)
    BY <1>3, <1>4, <2>1 DEF HasRow
  <2>4. CASE job'[j].pc = "free"
    BY <1>5, <1>a, <2>1, <2>4
  <2>5. CASE job[j].kind = "upload" /\ job'[j].pc # "free"
    <3>1. job[j].pc \in IngestPC /\ job'[j].pc \in IngestPC \cup {"fail"} /\ job'[j].kind = "upload"
      BY <2>1, <2>5, <1>5 DEF OpWrites, Moved
    <3>2. status'[d] = status[d]
      <4>1. CASE UNCHANGED status
        BY <4>1
      <4>2. CASE /\ job[j].dup \in DocIds /\ UpdateStatus(job[j].dup, "outdated")
                 /\ Override(job[j].dup, Stale(job[j].dup))
        <5>1. job[j].dup # d
          BY <1>2, <4>2 DEF Override, Overridden, Stale, HasWork, HasJob
        <5> QED
          BY <1>0, <4>2, <5>1 DEF UpdateStatus, TypeOK
      <4> QED
        BY <2>1, <2>5, <4>1, <4>2 DEF OpWrites, Moved
    <3>3. runId[d] = j
      BY <1>3, <1>5, <2>1, <2>5, <3>1 DEF RunFits, IngestPC
    <3>4. "wait" \notin IngestPC
      BY DEF IngestPC
    <3>5. job'[j].pc \in IngestPC => RunFits(j, d)'
      BY <1>5, <2>2, <2>3, <2>5, <3>1, <3>2, <3>3, <3>4 DEF RunFits, JobStatus
    <3> QED
      BY <1>5, <1>a, <2>1, <3>1, <3>2, <3>5
  <2>6. CASE job[j].kind = "delete" /\ job'[j].pc # "free"
    <3>1. job'[j].kind = "delete"
      BY <1>1, <2>6 DEF RunWrites
    <3>2. CASE job[j].pc = "load" /\ job'[j].pc = "mark" /\ UNCHANGED status
      <4>1. RunFits(j, d)'
        BY <2>3, <2>6, <3>1, <3>2 DEF RunFits, JobStatus
      <4> QED
        BY <1>5, <1>a, <2>1, <3>2, <4>1
    <3>3. CASE job[j].pc = "mark" /\ job'[j].pc = "purge" /\ UpdateStatus(Doc(j), "deleting")
      <4>1. status'[d] = "deleting"
        BY <1>u, <2>3, <3>3
      <4>2. RunFits(j, d)'
        BY <3>1, <3>3, <4>1 DEF RunFits, JobStatus
      <4> QED
        BY <1>5, <1>a, <2>1, <3>3, <4>2
    <3>4. CASE /\ job[j].pc \in {"purge", "file"} /\ job'[j].pc \in {"file", "row", "fail"}
               /\ UNCHANGED status
      <4>1. job'[j].pc # "fail" => RunFits(j, d)'
        BY <2>3, <2>6, <3>1, <3>4 DEF RunFits, JobStatus
      <4> QED
        BY <1>5, <1>a, <2>1, <3>4, <4>1
    <3> QED
      BY <2>1, <2>6, <3>2, <3>3, <3>4 DEF OpWrites, Moved
  <2> QED
    BY <1>0, <2>4, <2>5, <2>6 DEF Kind
<1>10. CASE RunPurge(j)
  <2>1. job[j].pc \in FailPC /\ job'[j].pc \in FailPC /\ UNCHANGED <<status, runId>>
    BY <1>5, <1>10, <1>s DEF RunPurge, At, dagster
  <2> QED
    BY <1>b, <2>1
<1>11. CASE RunFailed(j)
  <2>1. /\ job[j].pc = "failed" /\ UpdateStatus(Doc(j), "failed") /\ SetRun(j) /\ ~TakenOver(j)
        /\ \/ j \in again /\ job'[j].pc = "fail"
           \/ j \notin again /\ job'[j].pc = "free"
    <3>1. ~TakenOver(j)
      BY <1>11 DEF RunFailed, Override, Overridden, Doc
    <3>2. \/ j \in again /\ job'[j].pc = "fail"
          \/ j \notin again /\ job'[j].pc = "free"
      BY <1>5, <1>11, <1>e, <1>s DEF RunFailed
    <3> QED
      BY <1>11, <3>1, <3>2 DEF RunFailed, At
  <2>2. CASE ~HasRow(d)
    BY <1>5, <1>b, <1>r, <1>u, <2>1, <2>2
  <2>3. CASE HasRow(d)
    <3>1. NoPlace(d) /\ (status[d] = "failed" \/ (~InHand(d) /\ ~Listed(d)))
      BY <1>0, <1>5, <2>1, <2>3, FailsItsOwn
    <3>2. status'[d] = "failed"
      BY <1>u, <2>1, <2>3
    <3>3. status[d] # "failed" => Undoing(d)' = {}
      <4>1. \A i \in Undoing(d)' : i = j
        <5>1. CASE job[j].kind = "delete"
          <6>1. j \in Undoing(d)
            BY <1>2, <1>5, <2>1, <5>1 DEF Undoing
          <6> QED
            BY <1>1, <6>1, RunStepFrame DEF DagOwned, Apart, Undoing, JobsOf
        <5>2. CASE job[j].kind = "upload" /\ status[d] # "failed"
          <6>1. status[d] = "running"
            BY <2>1, <2>3, <5>2 DEF TakenOver, Doc
          <6>2. Undoing(d) = {}
            BY <6>1 DEF DagOwned, Apart
          <6> QED
            BY <1>1, <6>2, RunStepFrame DEF Undoing, JobsOf
        <5>3. CASE status[d] = "failed"
          <6>1. Undoing(d) = {}
            BY <5>3 DEF DagOwned, Apart
          <6> QED
            BY <1>1, <6>1, RunStepFrame DEF Undoing, JobsOf
        <5> QED
          BY <1>0, <5>1, <5>2, <5>3 DEF Kind
      <4>2. j \notin Undoing(d)'
        BY <1>0, <1>1, <2>1 DEF Undoing, JobsOf, AgainShape, RunWrites
      <4> QED
        BY <4>1, <4>2
    <3> QED
      BY <1>1, <1>5, <2>1, <3>1, <3>2, <3>3, FailingRunApart
  <2> QED
    BY <2>2, <2>3
<1>12. CASE Interrupted(j)
  <2>1. UNCHANGED <<status, runId>> /\ (job[j].pc \in {"wait", "load"} => job'[j].pc = "free")
        /\ (job[j].pc \notin {"wait", "load"} => job'[j].pc = "fail")
    BY <1>5, <1>12, <1>e, <1>s DEF Interrupted
  <2>2. CASE job[j].pc \in FailPC
    BY <1>5, <1>b, <2>1, <2>2
  <2>3. CASE job[j].pc \notin FailPC
    BY <1>2, <1>5, <1>a, <2>1, <2>3
  <2> QED
    BY <2>2, <2>3
<1>13. CASE RunDies(j)
  <2>1. UNCHANGED <<status, runId>> /\ job'[j].pc = "free"
    BY <1>13, <1>e DEF RunDies, rows
  <2>2. CASE job[j].pc \in FailPC
    BY <1>b, <2>1, <2>2
  <2>3. CASE job[j].pc \notin FailPC
    BY <1>2, <1>5, <1>a, <2>1, <2>3
  <2> QED
    BY <2>2, <2>3
<1> QED
  BY <1>6, <1>7, <1>8, <1>9, <1>10, <1>11, <1>12, <1>13 DEF RunStep

\* Every step of a run keeps the work of a document in one place.
LEMMA RunApart ==
  ASSUME DispatchInv, NEW j \in Jobs, RunStep(j), NEW d \in DocIds, ~Overridden(d)'
  PROVE  DagOwned(d)'
<1>0. DagShape /\ TypeOK /\ SensorTypeOK
  BY DEF DispatchInv, RunInv, DagShape
<1>1. RunWrites(j)
  BY <1>0, RunStepWrites
<1>2. OpStep(j) => OpWrites(j)
  BY <1>0, OpStepWrites
<1>3. overridden \subseteq overridden'
  BY <1>2 DEF RunStep, StartRun, ValidateBegin, Validate, OpWrites, RunPurge, RunFailed, Interrupted, RunDies,
     Override, history
<1>4. DagOwned(d)
  BY <1>3 DEF DispatchInv, Overridden
<1>5. CASE job[j].id = d
  BY <1>4, <1>5, OwnRunApart
<1>6. CASE job[j].id # d
  <2>1. runId'[d] = runId[d]
    BY <1>0, <1>1, <1>6 DEF RunWrites, SetRun, SensorTypeOK, Doc
  <2>u. \A e, st : UpdateStatus(e, st) /\ e # d => status'[d] = status[d]
    BY <1>0 DEF UpdateStatus, TypeOK
  <2>2. \/ status'[d] = status[d]
        \/ OpStep(j) /\ job[j].dup = d /\ UpdateStatus(d, "outdated") /\ Override(d, Stale(d))
    BY <1>2, <1>6, <2>u DEF RunStep, StartRun, ValidateBegin, Validate, OpWrites, RunPurge, RunFailed,
       Interrupted, RunDies, rows, Doc
  <2>3. CASE UpdateStatus(d, "outdated") /\ Override(d, Stale(d))
    <3>1. status[d] = "indexed" /\ ~InHand(d)
      BY <2>3 DEF Override, Overridden, Stale, HasWork
    <3>2. status'[d] = "outdated"
      BY <1>0, <2>3, <3>1 DEF UpdateStatus, HasRow, TypeOK
    <3> QED
      BY <1>0, <1>1, <1>4, <1>6, <2>1, <3>1, <3>2, OtherRunApart DEF StableStatus
  <2> QED
    BY <1>0, <1>1, <1>4, <1>6, <2>1, <2>2, <2>3, OtherRunApart
<1> QED
  BY <1>5, <1>6

\* Only the op that rejects a file leaves a failure to its hook.
LEMMA AgainKept ==
  ASSUME DagShape, AgainShape, SensorStep \/ (\E j \in Jobs : RunStep(j))
  PROVE  AgainShape'
<1>0. TypeOK /\ SensorTypeOK /\ again \subseteq Jobs
  BY DEF DagShape, SensorTypeOK
<1>1. CASE SensorStep
  <2>1. again' = again
    BY <1>1, SensorWrites DEF TickWrites
  <2>2. \A i \in again : job'[i] = job[i]
    <3> SUFFICES ASSUME NEW i \in again PROVE job'[i] = job[i]
      OBVIOUS
    <3>1. i \in Jobs /\ job[i].pc # "free"
      BY <1>0 DEF AgainShape, FailPC
    <3> QED
      BY <1>0, <1>1, <3>1, SensorWrites DEF TickWrites, TypeOK
  <2> QED
    BY <2>1, <2>2 DEF AgainShape
<1>2. ASSUME NEW j \in Jobs, RunStep(j) PROVE AgainShape'
  <2>1. RunWrites(j) /\ JobShape(j)
    BY <1>2, RunStepWrites DEF DagShape, Shape
  <2>2. \A i \in again' \ {j} : i \in again /\ job'[i] = job[i]
    BY <1>0, <2>1 DEF RunWrites
  <2>3. ASSUME j \in again' PROVE job'[j].pc \in FailPC /\ job'[j].kind = "upload"
    <3>s. ASSUME NEW pc \in {"fail", "failed"}, Step(j, pc) PROVE job'[j].pc \in FailPC /\ job'[j].pc # "free"
      BY <1>0, <3>s, StepEffect DEF PC, FailPC
    <3>1. CASE Validate(j)
      <4>1. job[j].pc = "begin" /\ j \notin again
        BY <1>0, <3>1 DEF Validate, At, AgainShape, FailPC
      <4>2. job'[j].pc \in FailPC
        BY <2>3, <3>1, <3>s, <4>1 DEF Validate
      <4>3. job[j].kind = "upload"
        BY <2>1, <4>1 DEF JobShape, IngestPC
      <4> QED
        BY <2>1, <4>2, <4>3 DEF RunWrites, FailPC
    <3>2. CASE RunPurge(j)
      <4>1. j \in again /\ job'[j].pc \in FailPC /\ job'[j].pc # "free"
        BY <2>3, <3>2, <3>s DEF RunPurge, dagster
      <4> QED
        BY <1>0, <2>1, <4>1 DEF RunWrites, AgainShape
    <3>3. ~RunFailed(j) /\ ~Interrupted(j) /\ ~RunDies(j)
      BY <2>3 DEF RunFailed, Interrupted, RunDies
    <3>4. CASE StartRun(j) \/ ValidateBegin(j) \/ OpStep(j)
      <4>1. again' = again /\ job[j].pc \notin FailPC
        BY <3>4 DEF StartRun, ValidateBegin, OpStep, At, FailPC, dagster
      <4> QED
        BY <2>3, <4>1 DEF AgainShape
    <3> QED
      BY <1>2, <3>1, <3>2, <3>3, <3>4 DEF RunStep
  <2> QED
    BY <2>2, <2>3 DEF AgainShape
<1> QED
  BY <1>1, <1>2

\* What LREM leaves of a document's entries is where its rank puts them.
LEMMA WithoutMoves ==
  ASSUME NEW q \in Seq(Item), NEW e, NEW d
  PROVE  \A n \in Positions(Without(q, e), d) :
           \E i \in Positions(q, d) : q[i].id # e /\ Rank(q, e, i) = n
<1>1. DOMAIN Without(q, e) = 1 .. Len(Without(q, e)) /\ DOMAIN q = 1 .. Len(q)
  BY WithoutEntries
<1> SUFFICES ASSUME NEW n \in Positions(Without(q, e), d)
             PROVE  \E i \in Positions(q, d) : q[i].id # e /\ Rank(q, e, i) = n
  OBVIOUS
<1>2. n \in 1 .. Len(Without(q, e)) /\ Without(q, e)[n].id = d
  BY <1>1 DEF Positions
<1>3. PICK i \in 1 .. Len(q) : Without(q, e)[n] = q[i] /\ q[i].id # e /\ Rank(q, e, i) = n
  BY <1>2, WithoutEntries
<1> QED
  BY <1>1, <1>2, <1>3 DEF Positions

\* A step of the setting aside that takes at most events from a document, and
\* that sets it aside only where it has no place left.
LEMMA AsideElsewhere ==
  ASSUME NEW d \in DocIds, DagOwned(d), UNCHANGED <<loop, job, sensor, requests>>,
         ~InHand(d), ~BeingFailed(d), ~Listed(d),
         OneQueued(d)', Queued(d)' => Queued(d), Delayed(d)' => Delayed(d),
         \/ status'[d] = status[d] /\ runId'[d] = runId[d]
         \/ NoPlace(d) /\ ~HasJob(d),
         SettingAside(d)' => NoPlace(d)' /\ ~HasJob(d)
  PROVE  DagOwned(d)'
<1>1. /\ JobsOf(d)' = JobsOf(d) /\ Live(d)' = Live(d) /\ Undoing(d)' = Undoing(d)
      /\ HasJob(d)' <=> HasJob(d)
      /\ \A j \in Jobs : JobStatus(j)' = JobStatus(j)
      /\ Requested(d)' = Requested(d)
      /\ Ticking(d)' <=> Ticking(d)
  BY DEF JobsOf, JobStatus, Live, Undoing, HasJob, Requested, Ticking
<1>2. ~InHand(d)' /\ ~BeingFailed(d)' /\ ~Listed(d)'
  BY DEF InHand, BeingFailed, Listed
<1>3. OnePlace(d)' /\ (NoPlace(d) => NoPlace(d)')
  BY <1>1 DEF DagOwned, OnePlace, NoPlace
<1>4. PlaceFits(d)'
  <2>1. CASE NoPlace(d)
    BY <1>3, <2>1 DEF NoPlace, PlaceFits
  <2>2. CASE status'[d] = status[d] /\ runId'[d] = runId[d]
    <3>1. \A i \in Requested(d)' : RequestFits(i, d)'
      BY <1>1, <2>2 DEF DagOwned, PlaceFits, RequestFits
    <3>2. \A j \in Live(d)' : RunFits(j, d)'
      BY <1>1, <2>2 DEF DagOwned, PlaceFits, RunFits, Live, JobsOf
    <3> QED
      BY <2>2, <3>1, <3>2 DEF DagOwned, PlaceFits
  <2> QED
    BY <2>1, <2>2
<1>5. Apart(d)'
  <2>1. ~HasJob(d) => Undoing(d) = {}
    BY DEF HasJob, Undoing
  <2> QED
    BY <1>1, <1>2, <1>3, <2>1 DEF Apart, DagOwned
<1> QED
  BY <1>3, <1>4, <1>5 DEF DagOwned

\* Setting a document aside takes its events away and, unless other work of it
\* goes on, leaves it without a place.
LEMMA SetAsideApart ==
  ASSUME DispatchInv, NEW d \in DocIds, ~Overridden(d)',
         \/ \E e \in DocIds : ForceFail(e) \/ AbortIngest(e)
         \/ SetAsideDequeue \/ FindRuns \/ SetAsidePurge \/ SetAsideMark \/ Terminate
  PROVE  DagOwned(d)'
<1>0. TypeOK /\ SensorTypeOK /\ Shape /\ DagShape /\ setting \in Setting
  BY DEF DispatchInv, RunInv, DagShape, SensorTypeOK, Setting
<1>1. overridden \subseteq overridden' /\ UNCHANGED <<loop, job, sensor, requests>>
  BY DEF ForceFail, AbortIngest, SetAsideDequeue, FindRuns, SetAsidePurge, SetAsideMark, Terminate, vars,
     history, Supersede, Override
<1>2. DagOwned(d)
  BY <1>1 DEF DispatchInv, Overridden
<1>3. ~InHand(d) /\ ~BeingFailed(d) /\ ~Listed(d)
  <2>1. (\E e \in DocIds : ForceFail(e) \/ AbortIngest(e)) \/ setting.op # "idle"
    BY DEF SetAsideDequeue, FindRuns, SetAsidePurge, SetAsideMark, Terminate
  <2>2. loop.op = "idle"
    BY <1>0, <2>1 DEF ForceFail, AbortIngest, Free, Idle, DagShape, SettingShape
  <2> QED
    BY <1>0, <2>2 DEF Shape, LoopShape, InHand, InHandOp, BeingFailed, FailOp, Listed
<1>4. OneQueued(d) /\ (SettingAside(d) => NoPlace(d) /\ ~HasJob(d))
  BY <1>2 DEF DagOwned, OnePlace, Apart
\* What remains to be shown of a step that leaves the events alone.
<1>a. ASSUME UNCHANGED <<queue, delayed>>, SettingAside(d)' => SettingAside(d),
             (status'[d] = status[d] /\ runId'[d] = runId[d]) \/ SettingAside(d)
      PROVE  DagOwned(d)'
  <2>1. OneQueued(d)' /\ (Queued(d)' <=> Queued(d)) /\ (Delayed(d)' <=> Delayed(d))
    BY <1>4, <1>a DEF OneQueued, Queued, Delayed, Positions
  <2>2. Live(d)' = Live(d) /\ Requested(d)' = Requested(d)
    BY <1>1 DEF Live, JobsOf, Requested
  <2>3. NoPlace(d) => NoPlace(d)'
    BY <1>1, <2>1, <2>2 DEF NoPlace
  <2> QED
    BY <1>1, <1>2, <1>3, <1>4, <1>a, <2>1, <2>3, AsideElsewhere
<1>5. CASE \E e \in DocIds : ForceFail(e) \/ AbortIngest(e)
  <2>1. UNCHANGED <<status, queue, delayed, runId>> /\ setting'.op = "dequeue"
    <3>1. ASSUME NEW e \in DocIds, ForceFail(e)
          PROVE  UNCHANGED <<status, queue, delayed, runId>> /\ setting'.op = "dequeue"
      BY <3>1 DEF ForceFail, IdleSetting, vars, rows, redis
    <3>2. ASSUME NEW e \in DocIds, AbortIngest(e)
          PROVE  UNCHANGED <<status, queue, delayed, runId>> /\ setting'.op = "dequeue"
      BY <3>2 DEF AbortIngest, vars, rows, redis
    <3> QED
      BY <1>5, <3>1, <3>2
  <2> QED
    BY <1>a, <2>1 DEF SettingAside
<1>6. CASE SetAsideDequeue
  <2> DEFINE s == setting.id
  <2>1. /\ UNCHANGED <<status, runId>> /\ Override(s, OutOfReach(s)) /\ setting'.id = s
        /\ queue["upload"] \in Seq(Item) /\ queue'["upload"] = Without(queue["upload"], s)
        /\ queue'["delete"] = queue["delete"]
        /\ delayed'["upload"] = {it \in delayed["upload"] : it.id # s}
        /\ delayed'["delete"] = delayed["delete"]
    BY <1>0, <1>6 DEF SetAsideDequeue, Supersede, DequeueUploads, SetTo, Setting, TypeOK, Kind, rows
  <2> HIDE DEF s
  <2>2. \A n \in Positions(queue'["upload"], d) :
          \E i \in Positions(queue["upload"], d) :
            queue["upload"][i].id # s /\ Rank(queue["upload"], s, i) = n
    BY <2>1, WithoutMoves
  <2>3. Positions(queue'["delete"], d) = Positions(queue["delete"], d)
    BY <2>1
  <2>4. OneQueued(d)'
    <3>1. Kind = {"upload", "delete"}
      BY DEF Kind
    <3> SUFFICES ASSUME NEW k \in Kind, NEW l \in Kind, NEW i \in Positions(queue'[k], d),
                        NEW m \in Positions(queue'[l], d)
                 PROVE  k = l /\ i = m
      BY DEF OneQueued
    <3>2. Positions(queue[k], d) # {} /\ Positions(queue[l], d) # {}
      BY <2>2, <2>3, <3>1
    <3>3. k = l
      BY <1>4, <3>2 DEF OneQueued
    <3>4. CASE k = "delete"
      BY <1>4, <2>3, <3>3, <3>4 DEF OneQueued
    <3>5. CASE k = "upload"
      <4>1. \A x, y \in Positions(queue["upload"], d) : x = y
        BY <1>4, <3>1 DEF OneQueued
      <4> QED
        BY <2>2, <3>3, <3>5, <4>1
    <3> QED
      BY <3>1, <3>3, <3>4, <3>5
  <2>5. (Queued(d)' => Queued(d)) /\ (Delayed(d)' => Delayed(d))
    <3>1. Queued(d)' => Positions(queue'["upload"], d) # {} \/ Positions(queue'["delete"], d) # {}
      BY DEF Queued, Kind
    <3> QED
      BY <2>1, <2>2, <2>3, <3>1 DEF Queued, Delayed, Kind
  <2>6. SettingAside(d)' => NoPlace(d)' /\ ~HasJob(d)
    <3> SUFFICES ASSUME d = s PROVE NoPlace(d)' /\ ~HasJob(d)
      BY <2>1 DEF SettingAside
    <3>1. ~OutOfReach(d)
      BY <2>1 DEF Override, Overridden
    <3>2. ~HasJob(d) /\ Positions(queue["delete"], d) = {} /\ Requested(d) = {} /\ sensor.id # d
      BY <3>1 DEF OutOfReach, Unreachable, InSensor
    <3>3. Positions(queue'["upload"], d) = {}
      BY <2>2 DEF Positions
    <3>4. ~Queued(d)'
      BY <2>3, <3>2, <3>3 DEF Queued, Kind
    <3>5. Live(d)' = {} /\ Requested(d)' = {}
      BY <1>1, <3>2 DEF Live, JobsOf, HasJob, Requested
    <3> QED
      BY <1>1, <3>2, <3>4, <3>5 DEF NoPlace
  <2> QED
    BY <1>1, <1>2, <1>3, <2>1, <2>4, <2>5, <2>6, AsideElsewhere
<1>7. CASE FindRuns \/ SetAsidePurge
  <2>1. UNCHANGED <<status, queue, delayed, runId>> /\ setting'.id = setting.id
        /\ setting.op \in {"find", "purge"}
    BY <1>0, <1>7 DEF FindRuns, SetAsidePurge, SetTo, vars, rows, redis, Setting
  <2> QED
    BY <1>a, <2>1 DEF SettingAside
<1>8. CASE SetAsideMark
  <2>1. /\ UNCHANGED <<queue, delayed>> /\ UpdateStatus(setting.id, "failed") /\ setting.op = "mark"
        /\ setting'.op \in {"idle", "terminate"}
    BY <1>0, <1>8 DEF SetAsideMark, redis, IdleSetting, Setting
  <2>2. d # setting.id => status'[d] = status[d] /\ runId'[d] = runId[d]
    BY <1>0, <1>8, <2>1 DEF SetAsideMark, UpdateStatus, TypeOK, SensorTypeOK
  <2> QED
    BY <1>a, <2>1, <2>2 DEF SettingAside
<1>9. CASE Terminate
  <2>1. UNCHANGED <<status, queue, delayed, runId>> /\ setting'.op = "idle"
    BY <1>9 DEF Terminate, vars, rows, redis, IdleSetting
  <2> QED
    BY <1>a, <2>1 DEF SettingAside
<1> QED
  BY <1>5, <1>6, <1>7, <1>8, <1>9

\* What the requests and the API's steps leave alone.
LEMMA ApiLeavesRuns ==
  ASSUME DagRequest \/ DagHandle
  PROVE  UNCHANGED <<job, again>>
<1>1. CASE DagRequest
  <2>1. \A e \in DocIds : ForceFail(e) \/ AbortIngest(e) \/ Recover(e) => UNCHANGED <<job, again>>
    BY DEF ForceFail, AbortIngest, Recover, vars, dagster
  <2>2. \A e : UploadBegin(e) => UNCHANGED job
    BY DEF UploadBegin
  <2>3. \A e, force : DeleteBegin(e, force) \/ ReindexBegin(e, force) \/ ReindexKbBegin(force)
          => UNCHANGED job
    BY DEF DeleteBegin, ReindexBegin, ReindexKbBegin
  <2>4. UNCHANGED dagster => UNCHANGED again
    BY DEF dagster
  <2> QED
    BY <1>1, <2>1, <2>2, <2>3, <2>4 DEF DagRequest
<1>2. CASE DagHandle
  <2>1. Handle => UNCHANGED job
    BY DEF Handle, UploadPut, UploadStage, ReindexKbNext, Enqueue, SetPending, Push, FailPurge, FailMark
  <2>2. UNCHANGED dagster => UNCHANGED again
    BY DEF dagster
  <2>3. SetAsideDequeue \/ FindRuns \/ SetAsidePurge \/ SetAsideMark \/ Terminate => UNCHANGED <<job, again>>
    BY DEF SetAsideDequeue, FindRuns, SetAsidePurge, SetAsideMark, Terminate, vars
  <2> QED
    BY <1>2, <2>1, <2>2, <2>3 DEF DagHandle
<1> QED
  BY <1>1, <1>2

\* A request, and a step of the API, keeps the work of a document in one place.
LEMMA ApiApart ==
  ASSUME DispatchInv, DagRequest \/ DagHandle, NEW d \in DocIds, ~Overridden(d)'
  PROVE  DagOwned(d)'
<1>1. CASE \/ \E e \in DocIds : ForceFail(e) \/ AbortIngest(e)
           \/ SetAsideDequeue \/ FindRuns \/ SetAsidePurge \/ SetAsideMark \/ Terminate
  BY <1>1, SetAsideApart
<1>2. CASE /\ UNCHANGED dagster
           /\ \/ \E e \in DocIds : UploadBegin(e) \/ Recover(e)
              \/ \E e \in DocIds, force \in BOOLEAN : DeleteBegin(e, force) \/ ReindexBegin(e, force)
              \/ \E force \in BOOLEAN : ReindexKbBegin(force)
  BY <1>2, RequestApart
<1>3. CASE Handle /\ UNCHANGED dagster
  BY <1>3, HandleApart
<1>4. CASE DagRequest
  <2>1. \A e \in DocIds : Recover(e) => UNCHANGED dagster
    BY DEF Recover
  <2>2. Forces \subseteq BOOLEAN
    BY RunAssumption
  <2> QED
    BY <1>1, <1>2, <1>4, <2>1, <2>2 DEF DagRequest
<1> QED
  BY <1>1, <1>3, <1>4 DEF DagHandle

\* Every step keeps the work of a document that nobody overrode in one place.
LEMMA DispatchInvKept == DispatchInv /\ [DagNext]_dagVars => DispatchInv'
<1> SUFFICES ASSUME DispatchInv, [DagNext]_dagVars PROVE DispatchInv'
  OBVIOUS
<1>0. DagShape /\ AgainShape /\ RunInv'
  BY RunInvKept DEF DispatchInv, RunInv
<1>1. ASSUME UNCHANGED dagVars
      PROVE  UNCHANGED <<status, queue, delayed, loop, job, overridden, sensor, requests, runId, again, setting,
                         dagster>>
  BY <1>1 DEF dagVars, dagster, vars, rows, redis, history
<1>2. AgainShape'
  <2>1. UNCHANGED <<job, again>> => AgainShape'
    BY <1>0 DEF AgainShape
  <2>2. CASE SensorStep \/ \E j \in Jobs : RunStep(j)
    BY <1>0, <2>2, AgainKept
  <2>3. CASE DagRequest \/ DagHandle \/ UNCHANGED dagVars
    BY <1>1, <2>1, <2>3, ApiLeavesRuns
  <2> QED
    BY <2>2, <2>3 DEF DagNext
<1>3. ASSUME NEW d \in DocIds, ~Overridden(d)' PROVE DagOwned(d)'
  <2>1. CASE DagRequest \/ DagHandle
    BY <1>3, <2>1, ApiApart
  <2>2. CASE SensorStep
    <3>1. overridden' = overridden
      BY <1>0, <2>2, SensorWrites DEF TickWrites, history
    <3>2. DagOwned(d)
      BY <1>3, <3>1 DEF DispatchInv, Overridden
    <3> QED
      BY <1>0, <2>2, <3>2, SensorApart
  <2>3. ASSUME NEW j \in Jobs, RunStep(j) PROVE DagOwned(d)'
    BY <1>3, <2>3, RunApart
  <2>4. CASE UNCHANGED dagVars
    <3>1. DagOwned(d)
      BY <1>1, <1>3, <2>4 DEF DispatchInv, Overridden
    <3>2. /\ InHand(d)' <=> InHand(d)
          /\ BeingFailed(d)' <=> BeingFailed(d)
          /\ Listed(d)' <=> Listed(d)
          /\ HandStatus' = HandStatus
      BY <1>1, <2>4 DEF InHand, BeingFailed, Listed, HandStatus
    <3> QED
      BY <1>1, <2>4, <3>1, <3>2, LoopStepApart DEF DagOwned, Apart
  <2> QED
    BY <2>1, <2>2, <2>3, <2>4 DEF DagNext
<1> QED
  BY <1>0, <1>2, <1>3 DEF DispatchInv

\* A document whose work is in one place by the row is in one place.
LEMMA OnePlaceIsOne ==
  ASSUME DagShape, NEW d \in DocIds, OnePlace(d), NEW p \in Places(d), NEW q \in Places(d)
  PROVE  p = q
<1> DEFINE IsRun(x) == \E j \in Live(d) : x = <<"run", j>>
           IsRequest(x) == \E i \in Requested(d) : x = <<"request", i>>
           IsEvent(x) == \E k \in Kind : \E i \in Positions(queue[k], d) : x = <<"list", k, i>>
           IsHeld(x) == sensor.id = d /\ x = <<"held">>
<1>1. ASSUME NEW x \in Places(d) PROVE IsRun(x) \/ IsRequest(x) \/ IsEvent(x) \/ IsHeld(x)
  <2> DEFINE runs == {<<"run", j>> : j \in {j \in JobsOf(d) : job[j].pc \notin FailPC}}
             asks == {<<"request", i>> : i \in Requested(d)}
             events == UNION {{<<"list", k, i>> : i \in Positions(queue[k], d)} : k \in Kind}
             waits == UNION {{<<"delay", k, it>> : it \in {it \in delayed[k] : it.id = d}} : k \in Kind}
             ticks == {<<"tick", it>> : it \in {it \in sensor.todo : sensor.back = "drain" /\ it.id = d}}
             held == IF sensor.id = d THEN {<<"held">>} ELSE {}
  <2>1. Places(d) = runs \cup asks \cup events \cup waits \cup ticks \cup held
    BY DEF Places
  <2>2. \A k \in Kind : {it \in delayed[k] : it.id = d} = {}
    BY DEF OnePlace, Delayed
  <2>3. {it \in sensor.todo : sensor.back = "drain" /\ it.id = d} = {}
    BY DEF OnePlace, Ticking
  <2>4. x \notin waits /\ x \notin ticks
    BY <2>2, <2>3
  <2>5. x \in runs => IsRun(x)
    BY DEF Live
  <2>6. (x \in asks => IsRequest(x)) /\ (x \in events => IsEvent(x)) /\ (x \in held => IsHeld(x))
    OBVIOUS
  <2> HIDE DEF runs, asks, events, waits, ticks, held, IsRun, IsRequest, IsEvent, IsHeld
  <2> QED
    BY <1>1, <2>1, <2>4, <2>5, <2>6
<1>2. \A k \in Kind : Positions(queue[k], d) # {} => Queued(d)
  BY DEF Queued
<1>3. IsEvent(p) /\ IsEvent(q) => p = q
  BY DEF OnePlace, OneQueued
<1>4. IsRun(p) /\ IsRun(q) => p = q
  BY DEF OnePlace
<1>5. IsRequest(p) /\ IsRequest(q) => p = q
  BY DEF OnePlace
<1>6. \A x : (IsEvent(x) => Queued(d)) /\ (IsRun(x) => Live(d) # {}) /\ (IsRequest(x) => Requested(d) # {})
             /\ (IsHeld(x) => sensor.id = d)
  BY <1>2
<1>7. (IsRun(p) \/ IsRequest(p) \/ IsEvent(p) \/ IsHeld(p)) /\ (IsRun(q) \/ IsRequest(q) \/ IsEvent(q) \/ IsHeld(q))
  BY <1>1
<1>8. IsHeld(p) /\ IsHeld(q) => p = q
  OBVIOUS
<1> HIDE DEF IsRun, IsRequest, IsEvent, IsHeld
<1> QED
  BY <1>3, <1>4, <1>5, <1>6, <1>7, <1>8 DEF OnePlace

\* Nothing is dispatched yet, and every step keeps it so that a document has one place.
LEMMA DispatchInvHolds == DagSpec => []DispatchInv
<1>1. DagInit => DispatchInv
  <2> SUFFICES ASSUME DagInit PROVE DispatchInv
    OBVIOUS
  <2>1. RunInv
    BY RunInvInit
  <2>2. /\ queue = [k \in Kind |-> <<>>] /\ delayed = [k \in Kind |-> {}] /\ loop = IdleLoop
        /\ \A j \in Jobs : job[j].pc = "free"
        /\ sensor = IdleLoop /\ requests = <<>> /\ again = {} /\ setting = IdleSetting
    BY DEF DagInit, Init, FreeJob
  <2>3. AgainShape
    BY <2>2 DEF AgainShape
  <2>4. ASSUME NEW d \in DocIds PROVE DagOwned(d)
    <3>1. \A k \in Kind : Positions(queue[k], d) = {} /\ delayed[k] = {}
      BY <2>2 DEF Positions
    <3>2. ~Queued(d) /\ ~Delayed(d) /\ OneQueued(d)
      BY <3>1 DEF Queued, Delayed, OneQueued
    <3>3. JobsOf(d) = {} /\ Requested(d) = {} /\ Live(d) = {} /\ Undoing(d) = {}
      BY <2>2 DEF JobsOf, Requested, Live, Undoing
    <3>4. loop.op = "idle" /\ loop.back = "idle" /\ sensor.back = "idle" /\ sensor.id = NoDoc
          /\ setting.op = "idle" /\ NoDoc # d
      BY <2>2, StoreAssumption DEF IdleLoop, IdleSetting
    <3>5. ~InHand(d) /\ ~BeingFailed(d) /\ ~Listed(d) /\ ~SettingAside(d) /\ ~Ticking(d)
      BY <3>4 DEF InHand, InHandOp, BeingFailed, FailOp, Listed, SettingAside, Ticking
    <3> QED
      BY <3>2, <3>3, <3>4, <3>5 DEF DagOwned, OnePlace, PlaceFits, Apart
  <2> QED
    BY <2>1, <2>3, <2>4 DEF DispatchInv
<1> QED
  BY <1>1, DispatchInvKept, PTL DEF DagSpec

\* In Dagster mode as with the queue worker, the work of a document is in one
\* place: however the sensor's reads of the row, the runs' and the API's writes
\* of it, failed ticks, deaths and terminations interleave, a document that no
\* request overrode is never in a list, in the sensor's hand, requested or worked
\* on by a run more than once.
THEOREM OneDispatchHolds == DagSpec => []OneDispatch
<1>1. DispatchInv => OneDispatch
  BY OnePlaceIsOne DEF DispatchInv, RunInv, DagOwned, OneDispatch
<1> QED
  BY <1>1, DispatchInvHolds, PTL

\* Only the look ends in the zombie branch.
LEMMA PurgeIsLooked ==
  ASSUME DagShape, [DagNext]_dagVars, sensor.op = "look", sensor'.op = "purge"
  PROVE  Look
<1>0. sensor' # sensor /\ sensor.op \notin {"drain", "setPending", "push"}
  OBVIOUS
<1>1. CASE DagRequest \/ DagHandle
  <2>1. UNCHANGED sensor
    BY <1>1 DEF DagRequest, DagHandle, dagster, ForceFail, AbortIngest, Recover, SetAsideDequeue,
       FindRuns, SetAsidePurge, SetAsideMark, Terminate
  <2> QED
    BY <1>0, <2>1
<1>2. CASE SensorStep
  <2>1. ~TickBegin /\ ~TickDrain
    BY <1>0, TickIs DEF TickWaits, TickNext, TickPending, TickPush
  <2>2. ~(TakeEvent \/ NoMoreEvents \/ Delay \/ ZombiePurge \/ ZombieFail \/ Dispatch \/ Launch)
    BY DEF TakeEvent, NoMoreEvents, Delay, ZombiePurge, ZombieFail, Dispatch, Launch
  <2>3. ~LookError /\ ~TickFails
    BY <1>0, TickGoes DEF LookError, TickFails, IdleLoop
  <2> QED
    BY <1>2, <2>1, <2>2, <2>3 DEF SensorStep
<1>3. ASSUME NEW j \in Jobs, RunStep(j) PROVE FALSE
  <2>1. UNCHANGED sensor
    BY <1>3, RunStepWrites DEF RunWrites, OfRun, DagShape
  <2> QED
    BY <1>0, <2>1
<1>4. ~UNCHANGED dagVars
  BY <1>0 DEF dagVars, dagster
<1> QED
  BY <1>1, <1>2, <1>3, <1>4 DEF DagNext

\* While no process died, _is_blocked_by_active_run fails a document as a zombie
\* only when it was set aside under running work and its recorded run was
\* terminated: a run that Dagster calls active is waited for, and one that ended
\* by itself has left no document running.
THEOREM ZombieWasTerminatedHolds == DagSpec => ZombieWasTerminated
<1>1. ASSUME RunInv, DispatchInv, [DagNext]_dagVars, crashes = 0, sensor.op = "look", sensor'.op = "purge"
      PROVE  runId[sensor.id] \in killed /\ Overridden(sensor.id)
  <2>0. sensor.id \in DocIds /\ DagShape
    BY <1>1 DEF RunInv, DagShape, SensorShape, HeldOp
  <2>1. status[sensor.id] = "running" /\ ~Drops /\ ~Blocked
    <3>1. sensor \in Tick /\ Look
      BY <1>1, <2>0, TickTyped, PurgeIsLooked
    <3>2. ~Back
      BY <1>1, <2>0, TickGoes
    <3>3. \A op \in {"delay", "claim"} : ~Turn(op)
      BY <1>1, <3>1 DEF Turn, Tick
    <3> QED
      BY <3>1, <3>2, <3>3 DEF Look
  <2>2. runId[sensor.id] \in killed
    BY <1>1, <2>0, <2>1 DEF RunInv, Backed, Drops, Blocked, Active, Unfinished
  <2>3. DagOwned(sensor.id) => status[sensor.id] = "pending"
    BY <2>0, HeldIsPending
  <2> QED
    BY <1>1, <2>0, <2>1, <2>2, <2>3 DEF DispatchInv
<1> QED
  BY <1>1, RunInvHolds, DispatchInvHolds, PTL DEF DagSpec, ZombieWasTerminated
=============================================================================
