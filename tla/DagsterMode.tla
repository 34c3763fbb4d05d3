-------------------------------- MODULE DagsterMode --------------------------------
(***************************************************************************)
(* The runs that DagsterSensor launches, the requests that terminate them,   *)
(* and the whole service in Dagster mode: API process, sensor process and    *)
(* one process per run.  Upload, delete and reindex are those of DocsApi.    *)
(***************************************************************************)
EXTENDS DagsterSensor

OfRun == <<sensor, requests, setting>>

\* The launcher starts a queued run.
StartRun(j) ==
  /\ At(j, "wait")
  /\ Step(j, "load")
  /\ UNCHANGED <<rows, s3, chunks, redis, loop, counters, history, dagster>>

SetRun(j) == runId' = IF HasRow(Doc(j)) THEN [runId EXCEPT ![Doc(j)] = j] ELSE runId

\* Mutant: the run does not record its id.
ValidateUnrecorded(j) ==
  /\ At(j, "load") /\ job[j].kind = "upload"
  /\ UpdateStatus(Doc(j), "running")
  /\ Step(j, "begin")
  /\ UNCHANGED <<s3, chunks, overridden, apiVars, OfRun, runId, again, killed>>

\* validate_op: the run records itself first, then validates.
ValidateBegin(j) ==
  /\ At(j, "load") /\ job[j].kind = "upload"
  /\ UpdateStatus(Doc(j), "running")
  /\ SetRun(j)
  /\ Step(j, "begin")
  /\ UNCHANGED <<s3, chunks, overridden, apiVars, OfRun, again, killed>>

\* A missing row or a rejected file: validate_op calls set_failed and raises, and
\* then the failure hook calls it again.
Validate(j) ==
  /\ At(j, "begin")
  /\ \/ HasRow(Doc(j)) /\ Step(j, "parse") /\ UNCHANGED again
     \/ Step(j, "fail") /\ again' = again \cup {j}
  /\ UNCHANGED <<status, s3, chunks, overridden, apiVars, OfRun, runId, killed>>

\* The ops in between and the end of a delete, with the marks that carry the run id.
OpStep(j) ==
  /\ job[j].pc \notin {"begin", "fail", "failed"}
  /\ job[j].kind = "upload" => ~At(j, "load")
  /\ IngestStep(j) \/ DeleteStep(j)
  /\ IF At(j, "index") \/ At(j, "indexMoved") \/ At(j, "mark") THEN SetRun(j) ELSE UNCHANGED runId
  /\ killed' = IF job'[j].pc = "free" THEN killed \ {j} ELSE killed
  /\ UNCHANGED <<OfRun, again>>

\* The row was taken over by a request that was accepted after the set_failed of
\* validate_op: its failure hook will overwrite it.
TakenOver(j) ==
  /\ job[j].kind = "upload" /\ HasRow(Doc(j)) /\ status[Doc(j)] # "failed"
  /\ ~(status[Doc(j)] = "running" /\ runId[Doc(j)] = j)

\* set_failed, of validate_op or of the failure hook, which ends the run.
RunPurge(j) ==
  /\ At(j, "fail")
  /\ PurgeChunks(Doc(j))
  /\ Override(Doc(j), TakenOver(j))
  /\ Step(j, "failed")
  /\ UNCHANGED <<status, s3, apiVars, dagster>>

RunFailed(j) ==
  /\ At(j, "failed")
  /\ UpdateStatus(Doc(j), "failed")
  /\ Override(Doc(j), TakenOver(j))
  /\ SetRun(j)
  /\ IF j \in again THEN Step(j, "fail") /\ UNCHANGED killed ELSE End(j) /\ killed' = killed \ {j}
  /\ again' = again \ {j}
  /\ UNCHANGED <<s3, chunks, apiVars, OfRun>>

\* SIGTERM interrupts an op, with its hook, or the run before its first op; a
\* failure hook runs to its end.
Interrupted(j) ==
  /\ j \in killed
  /\ job[j].pc \in FailPC => j \in again
  /\ IF job[j].pc \in {"wait", "load"} THEN End(j) /\ killed' = killed \ {j}
     ELSE Step(j, "fail") /\ UNCHANGED killed
  /\ again' = again \ {j}
  /\ UNCHANGED <<status, s3, chunks, overridden, apiVars, OfRun, runId>>

\* The process of a run dies without its hook: a zombie if it was recorded.
RunDies(j) ==
  /\ crashes < MaxCrashes /\ job[j].pc \notin {"free", "wait"}
  /\ crashes' = crashes + 1
  /\ End(j) /\ killed' = killed \ {j} /\ again' = again \ {j}
  /\ UNCHANGED <<rows, s3, chunks, redis, loop, uploads, overrides, history, OfRun, runId>>

RunStep(j) ==
  StartRun(j) \/ ValidateBegin(j) \/ Validate(j) \/ OpStep(j) \/ RunPurge(j) \/ RunFailed(j)
    \/ Interrupted(j) \/ RunDies(j)

-----------------------------------------------------------------------------
(* Force-fail, recover and abort.  A read of the row is one step with the call *)
(* that follows it.                                                          *)

Free == Idle /\ setting.op = "idle"
\* terminate_dagster_run: the run is canceled at once, its process is told to end.
Kill(runs) == killed' = killed \cup {r \in runs : Unfinished(r)}
SetTo(op) == setting' = [setting EXCEPT !.op = op]

\* force_fail_doc: the recorded run is terminated first; when Dagster refuses,
\* the request fails.
ForceFail(d) ==
  /\ Free /\ "fail" \in Clients
  /\ status[d] \in {"uploading", "pending", "running", "deleting"}
  /\ Kill({runId[d]})
  /\ setting' = [IdleSetting EXCEPT !.op = "dequeue", !.id = d]
  /\ UNCHANGED <<vars, sensor, requests, runId, again>>

\* Mutant: an empty run id is terminated like any other.
AbortAnyRun(d) ==
  /\ Free /\ Aborts
  /\ status[d] \in {"pending", "running"}
  /\ setting' = [op |-> "dequeue", id |-> d, kind |-> "abort",
                 runs |-> IF status[d] = "running" THEN {runId[d]} ELSE {}, lost |-> FALSE]
  /\ UNCHANGED <<vars, sensor, requests, runId, again, killed>>

\* abort_active_ingest, for a document listed as pending or running.
AbortIngest(d) ==
  /\ Free /\ Aborts
  /\ status[d] \in {"pending", "running"}
  /\ setting' = [op |-> "dequeue", id |-> d, kind |-> "abort",
                 runs |-> IF status[d] = "running" THEN {runId[d]} \cap Jobs ELSE {},
                 lost |-> status[d] = "running" /\ runId[d] = NoRun]
  /\ UNCHANGED <<vars, sensor, requests, runId, again, killed>>

\* What goes on with a document that was set aside: everything but its events in
\* the upload list and delay set; or it came to rest since the row was read.
OutOfReach(d) == Unreachable(d) \/ InSensor(d) \/ Requested(d) # {} \/ ~IsActive(d)

SetAsideDequeue ==
  /\ setting.op = "dequeue"
  /\ DequeueUploads(setting.id)
  /\ Supersede(setting.id, OutOfReach(setting.id))
  /\ SetTo(IF setting.lost THEN "find" ELSE "purge")
  /\ UNCHANGED <<rows, s3, chunks, loop, job, uploads, crashes, asked, sensor, requests, runId, again, killed>>

\* find_active_run_ids_by_doc_ids, by tag; it returns nothing when Dagster fails.
FindRuns ==
  /\ setting.op = "find"
  /\ \E found \in {{}, {j \in JobsOf(setting.id) : j \notin killed}} :
       setting' = [setting EXCEPT !.op = "purge", !.runs = found]
  /\ UNCHANGED <<vars, sensor, requests, runId, again, killed>>

SetAsidePurge ==
  /\ setting.op = "purge"
  /\ PurgeChunks(setting.id)
  /\ SetTo("mark")
  /\ UNCHANGED <<rows, s3, redis, loop, job, counters, history, sensor, requests, runId, again, killed>>

\* set_failed; force-fail keeps the run id, an abort writes "".
SetAsideMark ==
  /\ setting.op = "mark"
  /\ UpdateStatus(setting.id, "failed")
  /\ runId' = IF setting.kind = "abort" THEN [runId EXCEPT ![setting.id] = NoRun] ELSE runId
  /\ asked' = [asked EXCEPT ![setting.id] = "fail"]
  /\ setting' = IF setting.kind = "abort" THEN [setting EXCEPT !.op = "terminate"] ELSE IdleSetting
  /\ UNCHANGED <<version, used, s3, chunks, redis, loop, job, counters, overridden,
                 sensor, requests, again, killed>>

\* terminate_dagster_run, best effort.
Terminate ==
  /\ setting.op = "terminate"
  /\ \E told \in {{}, setting.runs} : Kill(told)
  /\ setting' = IdleSetting
  /\ UNCHANGED <<vars, sensor, requests, runId, again>>

\* recover_doc terminates nothing.
Recover(d) ==
  /\ Free /\ "recover" \in Clients
  /\ status[d] = "running"
  /\ Supersede(d, Work(d))
  /\ loop' = [IdleLoop EXCEPT !.op = "failPurge", !.id = d, !.force = TRUE]
  /\ UNCHANGED <<rows, s3, chunks, redis, job, uploads, crashes, asked, dagster>>

DagRequest ==
  \/ /\ Free /\ \A k \in Kind : Len(queue[k]) < MaxQueued
     /\ \/ \E d \in DocIds : UploadBegin(d)
        \/ \E d \in DocIds, force \in Forces : DeleteBegin(d, force) \/ ReindexBegin(d, force)
        \/ \E force \in Forces : ReindexKbBegin(force)
     /\ UNCHANGED dagster
  \/ \E d \in DocIds : ForceFail(d) \/ AbortIngest(d) \/ Recover(d)

DagHandle ==
  \/ Handle /\ UNCHANGED dagster
  \/ SetAsideDequeue \/ FindRuns \/ SetAsidePurge \/ SetAsideMark \/ Terminate

DagNext == DagRequest \/ DagHandle \/ SensorStep \/ \E j \in Jobs : RunStep(j)

DagSpec == DagInit /\ [][DagNext]_dagVars

-----------------------------------------------------------------------------
\* Nothing dispatches a document twice: unless somebody set it aside under
\* running work, there is at most one of an event, a RunRequest, a run with ops
\* left to do and a sensor holding it, although the sensor decides in another
\* process than the API.  duplicate-request-handling.md section 3.2.
Places(d) ==
  {<<"run", j>> : j \in {j \in JobsOf(d) : job[j].pc \notin FailPC}}
    \cup {<<"request", i>> : i \in Requested(d)}
    \cup (UNION {{<<"list", k, i>> : i \in Positions(queue[k], d)} : k \in Kind})
    \cup (UNION {{<<"delay", k, it>> : it \in {it \in delayed[k] : it.id = d}} : k \in Kind})
    \cup {<<"tick", it>> : it \in {it \in sensor.todo : sensor.back = "drain" /\ it.id = d}}
    \cup (IF sensor.id = d THEN {<<"held">>} ELSE {})
OneDispatch == \A d \in DocIds : ~Overridden(d) => \A p, q \in Places(d) : p = q

\* The dropped event was superfluous: when the sensor drops one because the run
\* is not recorded yet, a run of the document exists, or is requested, that has
\* not read the file.  Only a failed tick can have lost it.
DropIsCovered ==
  crashes = 0 /\ sensor.op = "look" /\ Drops =>
    \/ Requested(sensor.id) # {}
    \/ \E j \in JobsOf(sensor.id) : job[j].kind = "upload" /\ job[j].pc \in {"wait", "load"}

\* As long as no run has died, the sensor declares a zombie only when somebody set
\* the document aside under running work and the recorded run was terminated: no
\* run that ends by itself leaves its document running, and none that Dagster
\* calls active is given up, although three processes write the row it decides by.
ZombieWasTerminated ==
  [][crashes = 0 /\ sensor.op = "look" /\ sensor'.op = "purge" =>
       runId[sensor.id] \in killed /\ Overridden(sensor.id)]_dagVars

\* An active status has somebody who will move it on, in one of three processes.
BeingSetAside(d) == (loop.id = d /\ loop.op \in FailOp) \/ (setting.id = d /\ setting.op # "idle")
DagsterOwned ==
  crashes = 0 => \A d \in DocIds :
    status[d] \in {"pending", "running", "deleting"} => Work(d) \/ BeingSetAside(d)
=============================================================================
