-------------------------------- MODULE DocsApi --------------------------------
(***************************************************************************)
(* The handlers of api/routers/docs.py that change a document: upload (one  *)
(* file, or each file of a batch), delete, reindex of a document or of the  *)
(* knowledge base, force-fail and recover.  Each runs on the event loop     *)
(* without awaiting, one database, S3 or Redis call per step here, so that  *)
(* pipeline threads interleave with it and other handlers do not.  Two      *)
(* reads of the same row with nothing written between them are one step.    *)
(***************************************************************************)
EXTENDS RagStore

Idle == loop.op = "idle"
Begin(op, kind, d, force) ==
  loop' = [IdleLoop EXCEPT !.op = op, !.kind = kind, !.id = d, !.force = force]
Goto(op) == loop' = [loop EXCEPT !.op = op]
\* Back to the handler that called enqueue, or to the idle loop.
Return == loop' = IF loop.back = "idle" THEN IdleLoop
                  ELSE [loop EXCEPT !.op = loop.back, !.id = NoDoc, !.force = FALSE]

RowOf(s) == {d \in DocIds : SourceOf[d] = s /\ HasRow(d)}

\* upload_doc: a new row or, when the existing one is stable, the same row again.
UploadBegin(d) ==
  /\ Idle /\ "upload" \in Clients /\ uploads < MaxUploads
  /\ \/ d \notin used /\ RowOf(SourceOf[d]) = {}
     \/ HasRow(d) /\ ~IsActive(d)
  /\ status' = [status EXCEPT ![d] = "uploading"]
  /\ used' = used \cup {d}
  /\ uploads' = uploads + 1
  /\ Begin("put", "upload", d, FALSE)
  /\ UNCHANGED <<version, s3, chunks, redis, job, crashes, overrides, history>>

\* upload_object overwrites the file, or raises and leaves the row uploading.
UploadPut ==
  /\ loop.op = "put"
  /\ \/ s3' = [s3 EXCEPT ![SourceOf[loop.id]] = uploads] /\ Goto("stage")
     \/ UNCHANGED s3 /\ loop' = IdleLoop
  /\ UNCHANGED <<rows, chunks, redis, job, counters, history>>

UploadStage ==
  /\ loop.op = "stage"
  /\ UpdateStatus(loop.id, "pending")
  /\ version' = IF HasRow(loop.id) THEN [version EXCEPT ![loop.id] = uploads] ELSE version
  /\ Goto("enqueue")
  /\ UNCHANGED <<used, s3, chunks, redis, job, counters, history>>

\* Mutant: the is_active check is missing.
DeleteUnchecked(d, force) ==
  /\ Idle /\ "delete" \in Clients /\ HasRow(d)
  /\ Begin("enqueue", "delete", d, force)
  /\ UNCHANGED <<rows, s3, chunks, redis, job, counters, history>>

\* delete_doc (the handler): only a stable document, then enqueue_delete_event.
DeleteBegin(d, force) ==
  /\ Idle /\ "delete" \in Clients /\ HasRow(d) /\ ~IsActive(d)
  /\ Begin("enqueue", "delete", d, force)
  /\ UNCHANGED <<rows, s3, chunks, redis, job, counters, history>>

\* The stored file differs from the one the row was accepted with.
Changed(d) == s3[SourceOf[d]] = 0 \/ s3[SourceOf[d]] # version[d]

ReindexBegin(d, force) ==
  /\ Idle /\ "reindex" \in Clients /\ HasRow(d) /\ ~IsActive(d)
  /\ force \/ Changed(d)
  /\ Begin("enqueue", "upload", d, force)
  /\ UNCHANGED <<rows, s3, chunks, redis, job, counters, history>>

\* reindex_kb: the rows are listed once; a document that was at rest in the
\* listing and whose file differs, or any with force, is then enqueued.
ReindexKbBegin(force) ==
  /\ Idle /\ "reindexKb" \in Clients
  /\ loop' = [IdleLoop EXCEPT !.op = "reindex", !.back = "reindex",
                !.todo = {it \in Item : /\ it.force = force
                                        /\ status[it.id] \in {"indexed", "failed"}}]
  /\ loop'.todo # {}
  /\ UNCHANGED <<rows, s3, chunks, redis, job, counters, history>>

ReindexKbNext ==
  /\ loop.op = "reindex"
  /\ \/ \E it \in loop.todo :
          \/ /\ it.force \/ Changed(it.id)
             /\ loop' = [loop EXCEPT !.op = "enqueue", !.id = it.id, !.force = it.force,
                                     !.todo = @ \ {it}]
          \/ /\ ~it.force /\ ~Changed(it.id)
             /\ loop' = [loop EXCEPT !.todo = @ \ {it}]
     \/ loop.todo = {} /\ loop' = IdleLoop
  /\ UNCHANGED <<rows, s3, chunks, redis, job, counters, history>>

-----------------------------------------------------------------------------
(* enqueue_upload_event and enqueue_delete_event. *)

\* The row is read once: a missing or deleted document's event is dropped, a
\* running or deleting one keeps its status.
Enqueue ==
  /\ loop.op = "enqueue"
  /\ IF status[loop.id] \in {"none", "deleted"} THEN Return
     ELSE Goto(IF status[loop.id] \in {"running", "deleting"} THEN "push" ELSE "setPending")
  /\ UNCHANGED <<rows, s3, chunks, redis, job, counters, history>>

\* The history of what was asked for is written with the row; a drained event
\* was asked for before.
Accepted ==
  CASE loop.kind = "upload" -> "ingest"
    [] loop.kind = "delete" /\ status[loop.id] = "indexed" /\ ~loop.force -> "softDelete"
    [] OTHER -> "delete"

SetPending ==
  /\ loop.op = "setPending"
  /\ UpdateStatus(loop.id, "pending")
  /\ Goto("push")
  /\ asked' = IF loop.back = "drain" THEN asked ELSE [asked EXCEPT ![loop.id] = Accepted]
  /\ UNCHANGED <<version, used, s3, chunks, redis, job, counters, overridden>>

\* Mutant: a delete event goes to the upload list.
PushToUploads ==
  /\ loop.op = "push"
  /\ queue' = [queue EXCEPT !["upload"] =
                 Append(@, [id |-> loop.id, force |-> loop.force])]
  /\ Return
  /\ UNCHANGED <<rows, s3, chunks, delayed, job, counters, history>>

Push ==
  /\ loop.op = "push"
  /\ queue' = [queue EXCEPT ![loop.kind] =
                 Append(@, [id |-> loop.id, force |-> loop.force])]
  /\ Return
  /\ UNCHANGED <<rows, s3, chunks, delayed, job, counters, history>>

-----------------------------------------------------------------------------
(* Manual overrides.  In worker mode no background task can be terminated.  *)

\* Work that dequeue_upload_events does not reach.
Unreachable(d) ==
  \/ HasJob(d)
  \/ Positions(queue["delete"], d) # {}
  \/ \E it \in delayed["delete"] : it.id = d

\* The work that goes on after a request set the row aside.
Supersede(d, busy) ==
  /\ Override(d, busy)
  /\ busy => overrides < MaxOverrides
  /\ overrides' = IF busy THEN overrides + 1 ELSE overrides

\* Mutant: a document at rest can be force-failed too.
ForceFailAnything(d) ==
  /\ Idle /\ "fail" \in Clients
  /\ HasRow(d)
  /\ DequeueUploads(d)
  /\ Supersede(d, Unreachable(d))
  /\ Begin("failPurge", "upload", d, FALSE)
  /\ UNCHANGED <<rows, s3, chunks, job, uploads, crashes, asked>>

\* force_fail_doc: drop the document's upload events, then set_failed.
ForceFailBegin(d) ==
  /\ Idle /\ "fail" \in Clients
  /\ status[d] \in {"uploading", "pending", "running", "deleting"}
  /\ DequeueUploads(d)
  /\ Supersede(d, Unreachable(d))
  /\ Begin("failPurge", "upload", d, FALSE)
  /\ UNCHANGED <<rows, s3, chunks, job, uploads, crashes, asked>>

\* recover_doc: set_failed, then enqueue_upload_event(force=True).
RecoverBegin(d) ==
  /\ Idle /\ "recover" \in Clients
  /\ status[d] = "running"
  /\ Supersede(d, HasWork(d))
  /\ loop' = [IdleLoop EXCEPT !.op = "failPurge", !.id = d, !.force = TRUE]
  /\ UNCHANGED <<rows, s3, chunks, redis, job, uploads, crashes, asked>>

\* set_failed reads the row and purges the document's chunks first, swallowing
\* failures, and writes the status second.
PurgeChunks(d) ==
  \/ chunks' = [chunks EXCEPT ![d] = IF HasRow(d) THEN {} ELSE @]
  \/ QdrantFails /\ UNCHANGED chunks

FailPurge ==
  /\ loop.op = "failPurge"
  /\ PurgeChunks(loop.id)
  /\ Goto("failMark")
  /\ UNCHANGED <<rows, s3, redis, job, counters, history>>

FailMark ==
  /\ loop.op = "failMark"
  /\ UpdateStatus(loop.id, "failed")
  /\ asked' = [asked EXCEPT ![loop.id] = "fail"]
  /\ loop' = IF loop.force THEN [loop EXCEPT !.op = "enqueue"] ELSE IdleLoop
  /\ UNCHANGED <<version, used, s3, chunks, redis, job, counters, overridden>>

-----------------------------------------------------------------------------
(* Requests that clients and operators may make, and the steps that finish them. *)

Request ==
  \/ \E d \in DocIds : UploadBegin(d) \/ ForceFailBegin(d) \/ RecoverBegin(d)
  \/ \E d \in DocIds, force \in BOOLEAN : DeleteBegin(d, force) \/ ReindexBegin(d, force)
  \/ \E force \in BOOLEAN : ReindexKbBegin(force)

Handle ==
  UploadPut \/ UploadStage \/ ReindexKbNext \/ Enqueue \/ SetPending \/ Push
    \/ FailPurge \/ FailMark
=============================================================================
