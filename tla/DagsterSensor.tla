------------------------------ MODULE DagsterSensor ------------------------------
(***************************************************************************)
(* The other deployment: queue_worker.enabled is false, and Dagster consumes *)
(* the events.  defs/sensors/event_queue_sensor.py runs in a process of its  *)
(* own, next to the API's event loop; what it decides becomes runs of        *)
(* ingest_job and delete_job (defs/ops/ingest_ops.py, delete_ops.py), which   *)
(* call the same pipeline steps and can be terminated                        *)
(* (infra/dagster_utils.py).  A job slot is a run; "wait" is QUEUED or       *)
(* STARTING.  The drain is the queue worker's, on the sensor's own state.    *)
(***************************************************************************)
EXTENDS DocSystem

CONSTANTS
  NoRun,   \* stands for run_id ""
  OldRun,  \* the id of a finished run whose slot is used again
  MaxQueued, \* bound: clients ask for more only while each list is shorter
  Forces,  \* bound: the values of force that clients give
  Aborts   \* bound: may a connector or knowledge base abort ingests?

ASSUME RunAssumption == NoRun # OldRun /\ {NoRun, OldRun} \cap Jobs = {} /\ Aborts \in BOOLEAN /\ Forces \subseteq BOOLEAN /\ MaxQueued \in Nat

VARIABLES
  sensor,    \* what a tick of the sensor is in the middle of
  requests,  \* the RunRequests of the tick, launched when it returns
  runId,     \* documents.run_id
  again,     \* runs whose failure hook will call set_failed once more
  killed,    \* runs that Dagster has marked canceled; their process goes on for now
  setting    \* the request on the event loop that sets a document aside

dagster == <<sensor, requests, runId, again, killed, setting>>
dagVars == <<vars, dagster>>
runState == <<requests, runId, again, killed, setting>>

Drain == INSTANCE QueueWorker WITH loop <- sensor
Queue == INSTANCE DocsApi WITH loop <- sensor

SensorOp == {"idle", "drain", "setPending", "push", "take", "look", "delay", "purge",
             "fail", "claim", "launch"}
SettingOp == {"idle", "dequeue", "find", "purge", "mark", "terminate"}

\* The tick, its requests, the run ids and the termination requests keep their shape.
SensorTypeOK ==
  /\ sensor \in [op : SensorOp, kind : Kind, id : DocIds \cup {NoDoc}, force : BOOLEAN,
                 back : {"idle", "drain"}, todo : SUBSET Item, n : Nat, more : BOOLEAN]
  /\ requests \in Seq([kind : Kind, item : Item])
  /\ runId \in [DocIds -> Jobs \cup {NoRun, OldRun}]
  /\ again \subseteq Jobs /\ killed \subseteq Jobs
  /\ setting \in [op : SettingOp, id : DocIds \cup {NoDoc}, kind : {"fail", "abort"},
                  runs : SUBSET Jobs, lost : BOOLEAN]

IdleSetting == [op |-> "idle", id |-> NoDoc, kind |-> "fail", runs |-> {}, lost |-> FALSE]

DagInit ==
  /\ Init
  /\ sensor = IdleLoop
  /\ requests = <<>>
  /\ runId = [d \in DocIds |-> NoRun]
  /\ again = {} /\ killed = {}
  /\ setting = IdleSetting

-----------------------------------------------------------------------------
InSensor(d) ==
  \/ sensor.id = d
  \/ sensor.back = "drain" /\ \E it \in sensor.todo : it.id = d
Requested(d) == {i \in DOMAIN requests : requests[i].item.id = d}
Work(d) == HasWork(d) \/ InSensor(d) \/ Requested(d) # {}

\* A run that was terminated is finished for Dagster (MARK_AS_CANCELED_IMMEDIATELY)
\* before its process is.
Unfinished(r) == r \in Jobs /\ job[r].pc # "free"
Active(r) == Unfinished(r) /\ r \notin killed

-----------------------------------------------------------------------------
(* A tick: drain both delay sets, then the upload list, then the delete list. *)

TickBegin == Drain!PollBegin /\ requests = <<>> /\ UNCHANGED <<loop, runState>>
TickDrain == (Drain!DrainNext \/ Drain!DrainDone \/ Queue!SetPending \/ Queue!Push)
               /\ UNCHANGED <<loop, runState>>

Back == sensor' = [sensor EXCEPT !.op = "take", !.id = NoDoc, !.force = FALSE]
Turn(op) == sensor' = [sensor EXCEPT !.op = op]
Held == [id |-> sensor.id, force |-> sensor.force]

TakeEvent ==
  /\ sensor.op = "take" /\ sensor.n < MaxPerPoll
  /\ queue[sensor.kind] # <<>>
  /\ LET e == Head(queue[sensor.kind]) IN
       sensor' = [sensor EXCEPT !.op = "look", !.id = e.id, !.force = e.force]
  /\ queue' = [queue EXCEPT ![sensor.kind] = Tail(@)]
  /\ UNCHANGED <<rows, s3, chunks, delayed, loop, job, counters, history, runState>>

\* The quota is shared by the two lists.
EndList ==
  IF sensor.kind = "upload"
  THEN sensor' = [sensor EXCEPT !.op = "take", !.kind = "delete", !.id = NoDoc, !.force = FALSE]
  ELSE sensor' = [IdleLoop EXCEPT !.op = "launch"]
NoMoreEvents ==
  /\ sensor.op = "take"
  /\ queue[sensor.kind] = <<>> \/ sensor.n = MaxPerPoll
  /\ EndList
  /\ UNCHANGED <<vars, runState>>

\* A running document whose run has not recorded itself yet: the event is dropped.
Drops == status[sensor.id] = "running" /\ runId[sensor.id] = NoRun
Blocked ==
  \/ sensor.kind = "upload" /\ status[sensor.id] = "deleting"
  \/ status[sensor.id] = "running" /\ Active(runId[sensor.id])

\* Mutant: only the status is looked at, as if every running document were a zombie.
LookOnce ==
  /\ sensor.op = "look"
  /\ Turn(IF status[sensor.id] = "running" THEN "purge" ELSE "claim")
  /\ UNCHANGED <<vars, runState>>

\* get_doc_by_id and _is_blocked_by_active_run.
Look ==
  /\ sensor.op = "look"
  /\ \/ Drops /\ Back
     \/ ~Drops /\ Blocked /\ Turn("delay")
     \/ ~Drops /\ ~Blocked /\ Turn(IF status[sensor.id] = "running" THEN "purge" ELSE "claim")
  /\ UNCHANGED <<vars, runState>>

Delay ==
  /\ sensor.op = "delay"
  /\ delayed' = [delayed EXCEPT ![sensor.kind] = @ \cup {Held}]
  /\ Back
  /\ UNCHANGED <<rows, s3, chunks, queue, loop, job, counters, history, runState>>

\* The zombie's set_failed, in two steps; its run_id stays.
ZombiePurge ==
  /\ sensor.op = "purge"
  /\ PurgeChunks(sensor.id)
  /\ Turn("fail")
  /\ UNCHANGED <<rows, s3, redis, loop, job, counters, history, runState>>
ZombieFail ==
  /\ sensor.op = "fail"
  /\ UpdateStatus(sensor.id, "failed")
  /\ Turn("claim")
  /\ UNCHANGED <<version, used, s3, chunks, redis, loop, job, counters, history, runState>>

\* set_processing(doc_id) for an upload, then the RunRequest.
Dispatch ==
  /\ sensor.op = "claim"
  /\ IF sensor.kind = "upload"
     THEN /\ UpdateStatus(sensor.id, "running")
          /\ runId' = IF HasRow(sensor.id) THEN [runId EXCEPT ![sensor.id] = NoRun] ELSE runId
     ELSE UNCHANGED <<status, runId>>
  /\ requests' = Append(requests, [kind |-> sensor.kind, item |-> Held])
  /\ sensor' = [sensor EXCEPT !.op = "take", !.id = NoDoc, !.force = FALSE, !.n = @ + 1]
  /\ UNCHANGED <<version, used, s3, chunks, redis, loop, job, counters, history,
                 again, killed, setting>>

\* Mutant: the event is not put back.
LookErrorLoses ==
  /\ sensor.op = "look"
  /\ EndList
  /\ UNCHANGED <<vars, runState>>

\* A database error puts the event back at the far end and ends the list.
LookError ==
  /\ sensor.op = "look"
  /\ queue' = [queue EXCEPT ![sensor.kind] = Append(@, Held)]
  /\ EndList
  /\ UNCHANGED <<rows, s3, chunks, delayed, loop, job, counters, history, runState>>

\* The daemon creates the runs when the tick has returned.
Launch ==
  /\ sensor.op = "launch"
  /\ IF requests = <<>>
     THEN sensor' = IdleLoop /\ UNCHANGED <<job, requests, runId, setting>>
     ELSE /\ \E j \in Jobs :
               /\ job[j].pc = "free"
               /\ job' = [job EXCEPT ![j] = NewJob(Head(requests).kind, Head(requests).item)]
               /\ runId' = [d \in DocIds |-> IF runId[d] = j THEN OldRun ELSE runId[d]]
               /\ setting' = [setting EXCEPT !.runs = @ \ {j}]
          /\ requests' = Tail(requests)
          /\ UNCHANGED sensor
  /\ UNCHANGED <<rows, s3, chunks, redis, loop, counters, history, again, killed>>

\* Any other exception (Redis, or the database while draining) or the death of
\* the process fails the tick: what it held and what it requested is lost.
TickFails ==
  /\ sensor.op # "idle" /\ crashes < MaxCrashes
  /\ crashes' = crashes + 1
  /\ sensor' = IdleLoop /\ requests' = <<>>
  /\ UNCHANGED <<rows, s3, chunks, redis, loop, job, uploads, overrides, history,
                 runId, again, killed, setting>>

SensorStep ==
  TickBegin \/ TickDrain \/ TakeEvent \/ NoMoreEvents \/ Look \/ Delay \/ ZombiePurge
    \/ ZombieFail \/ Dispatch \/ LookError \/ Launch \/ TickFails
=============================================================================
