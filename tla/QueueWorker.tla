------------------------------ MODULE QueueWorker ------------------------------
(***************************************************************************)
(* pipeline/queue/queue_worker.py: the loop that drains the delay sets into *)
(* the lists, pops events and starts one asyncio task per event.  _poll has *)
(* no await, and start() awaits it directly, so from the first drain until  *)
(* a poll that did not fill its quota the event loop does nothing else.     *)
(* Time is abstracted: any part of a delay set may be ready.                *)
(***************************************************************************)
EXTENDS RagStore

\* The ready members leave the delay set before any of them reaches the list.
TakeReady(kind) ==
  \E ready \in SUBSET delayed[kind] :
    /\ delayed' = [delayed EXCEPT ![kind] = @ \ ready]
    /\ loop' = [IdleLoop EXCEPT !.op = "drain", !.kind = kind, !.back = "drain", !.todo = ready]

PollBegin ==
  /\ loop.op = "idle"
  /\ TakeReady("upload")
  /\ UNCHANGED <<rows, s3, chunks, queue, job, counters, history>>

\* _drain_delay_queue, one event: pending unless running or deleting, then push.
DrainNext ==
  /\ loop.op = "drain"
  /\ \E it \in loop.todo :
       loop' = [loop EXCEPT !.id = it.id, !.force = it.force, !.todo = @ \ {it},
                  !.op = IF status[it.id] \in {"running", "deleting"}
                         THEN "push" ELSE "setPending"]
  /\ UNCHANGED <<rows, s3, chunks, redis, job, counters, history>>

\* The delay sets are drained in turn, then the upload list is popped.
DrainDone ==
  /\ loop.op = "drain" /\ loop.todo = {}
  /\ \/ loop.kind = "upload" /\ TakeReady("delete")
     \/ /\ loop.kind = "delete" /\ UNCHANGED delayed
        /\ loop' = [IdleLoop EXCEPT !.op = "take"]
  /\ UNCHANGED <<rows, s3, chunks, queue, job, counters, history>>

\* An event whose document is busy waits in the delay set; one that may start is
\* claimed.  A delete event waits only for a running document.
Take ==
  /\ loop.op = "take" /\ loop.n < MaxPerPoll
  /\ queue[loop.kind] # <<>>
  /\ LET e == Head(queue[loop.kind])
         busy == \/ status[e.id] = "running"
                 \/ loop.kind = "upload" /\ status[e.id] = "deleting"
     IN /\ queue' = [queue EXCEPT ![loop.kind] = Tail(@)]
        /\ delayed' = IF busy THEN [delayed EXCEPT ![loop.kind] = @ \cup {e}] ELSE delayed
        /\ loop' = IF busy THEN loop
                   ELSE [loop EXCEPT !.op = "claim", !.id = e.id, !.force = e.force]
  /\ UNCHANGED <<rows, s3, chunks, job, counters, history>>

\* Mutant: the worker starts the task without set_processing.
ClaimUnmarked ==
  /\ loop.op = "claim"
  /\ \E j \in Jobs :
       /\ job[j].pc = "free"
       /\ job' = [job EXCEPT ![j] = NewJob(loop.kind, loop)]
  /\ loop' = [loop EXCEPT !.op = "take", !.id = NoDoc, !.force = FALSE, !.n = @ + 1]
  /\ UNCHANGED <<rows, s3, chunks, redis, counters, history>>

\* set_processing (uploads only) and create_task.
Claim ==
  /\ loop.op = "claim"
  /\ IF loop.kind = "upload" THEN UpdateStatus(loop.id, "running") ELSE UNCHANGED status
  /\ \E j \in Jobs :
       /\ job[j].pc = "free"
       /\ job' = [job EXCEPT ![j] = NewJob(loop.kind, loop)]
  /\ loop' = [loop EXCEPT !.op = "take", !.id = NoDoc, !.force = FALSE, !.n = @ + 1]
  /\ UNCHANGED <<version, used, s3, chunks, redis, counters, history>>

\* A quota filled by either list makes the next poll follow at once, without
\* yielding to the event loop; otherwise the worker sleeps.
NextList ==
  \/ /\ loop.kind = "upload"
     /\ loop' = [loop EXCEPT !.kind = "delete", !.n = 0, !.more = (loop.n = MaxPerPoll)]
     /\ UNCHANGED delayed
  \/ /\ loop.kind = "delete"
     /\ IF loop.more \/ loop.n = MaxPerPoll
        THEN TakeReady("upload")
        ELSE loop' = IdleLoop /\ UNCHANGED delayed

\* An empty list or a full quota ends the polling of a list.
ListDone ==
  /\ loop.op = "take"
  /\ queue[loop.kind] = <<>> \/ loop.n = MaxPerPoll
  /\ NextList
  /\ UNCHANGED <<rows, s3, chunks, queue, job, counters, history>>

\* Mutant: after a database error the event is not put back.
TakeErrorLoses ==
  /\ loop.op = "take" /\ loop.n < MaxPerPoll
  /\ queue[loop.kind] # <<>>
  /\ queue' = [queue EXCEPT ![loop.kind] = Tail(@)]
  /\ NextList
  /\ UNCHANGED <<rows, s3, chunks, job, counters, history>>

\* So does a database error, after the event went back to the far end.
TakeError ==
  /\ loop.op = "take" /\ loop.n < MaxPerPoll
  /\ queue[loop.kind] # <<>>
  /\ queue' = [queue EXCEPT ![loop.kind] = Append(Tail(@), Head(@))]
  /\ NextList
  /\ UNCHANGED <<rows, s3, chunks, job, counters, history>>

Poll == PollBegin \/ DrainNext \/ DrainDone \/ Take \/ Claim \/ ListDone \/ TakeError

-----------------------------------------------------------------------------
(* _run_ingest and _run_delete: a task gets one of max_workers permits when  *)
(* the event loop resumes it, and then runs its pipeline in a thread.        *)

Working == {j \in Jobs : job[j].pc \notin {"free", "wait"}}

StartTask(j) ==
  /\ loop.op = "idle"
  /\ job[j].pc = "wait"
  /\ Cardinality(Working) < MaxWorkers
  /\ job' = [job EXCEPT ![j].pc = "load"]
  /\ UNCHANGED <<rows, s3, chunks, redis, loop, counters, history>>

\* The process dies and restarts: its loop and its tasks are gone, Postgres,
\* S3, Qdrant and Redis keep what they had, and nothing repairs a status.
Crash ==
  /\ crashes < MaxCrashes
  /\ crashes' = crashes + 1
  /\ loop' = IdleLoop
  /\ job' = [j \in Jobs |-> FreeJob]
  /\ UNCHANGED <<rows, s3, chunks, redis, uploads, overrides, history>>
=============================================================================
