------------------------------ MODULE ConnectorsApi ------------------------------
(***************************************************************************)
(* The handlers of api/routers/connectors.py and delete_kb of               *)
(* api/routers/kb.py.  They run on the event loop without awaiting, like    *)
(* those of DocsApi; the ones with several steps occupy the slot Api, during *)
(* which the worker does not poll but threads go on.                         *)
(***************************************************************************)
EXTENDS ConnectorSync

LoopFree == loop.op = "idle" /\ Pc(Api) = "free"
Admitted == LoopFree /\ admin < MaxAdmin /\ admin' = admin + 1
\* A background task is added.
Spawn(c, pc) ==
  \E t \in Threads : Pc(t) = "free" /\ task' = [task EXCEPT ![t].pc = pc, ![t].conn = c]
stores == <<rows, s3, chunks, redis, overridden, kb, owner, marked>>

CreateConnector(c, type) ==
  /\ LoopFree /\ kb # "none"
  /\ conn[c].st = "none"
  /\ conn' = [conn EXCEPT ![c] = [type |-> type, st |-> "active", sync |-> "idle"]]
  /\ UNCHANGED <<stores, aborts, task, others>>

\* patch_connector with a status: pause or resume, whatever the status is.
PatchConnector(c, st) ==
  /\ Admitted /\ Exists(c)
  /\ SetConn(c, st)
  /\ UNCHANGED <<stores, aborts, task, quiet, syncs>>

\* Mutant: a running sync does not refuse another.
TriggerUnchecked(c) ==
  /\ LoopFree /\ syncs < MaxSyncs
  /\ Exists(c) /\ conn[c].st # "paused"
  /\ SetSync(c, "running")
  /\ Spawn(c, "list")
  /\ syncs' = syncs + 1
  /\ UNCHANGED <<stores, aborts, quiet, admin>>

TriggerSync(c) ==
  /\ LoopFree /\ syncs < MaxSyncs
  /\ Exists(c) /\ conn[c].st # "paused" /\ conn[c].sync = "idle"
  /\ SetSync(c, "running")
  /\ Spawn(c, "list")
  /\ syncs' = syncs + 1
  /\ UNCHANGED <<stores, aborts, quiet, admin>>

\* abort_sync: the request is registered after the row was read.
AbortSync(c) ==
  /\ Admitted /\ Exists(c) /\ conn[c].sync = "running"
  /\ task' = [task EXCEPT ![Api].pc = "flag", ![Api].conn = c]
  /\ UNCHANGED <<stores, conn, aborts, quiet, syncs>>

RequestAbort ==
  /\ Pc(Api) = "flag"
  /\ flags' = flags \cup {Owner(Api)}
  /\ cut' = cut \cup Syncing(Owner(Api))
  /\ UNCHANGED unlocked
  /\ SetSync(Owner(Api), "idle")
  /\ Jump(Api, "abortDocs")
  /\ UNCHANGED <<stores, others>>

DeleteConnector(c) ==
  /\ Admitted /\ Exists(c) /\ conn[c].sync = "idle"
  /\ SetConn(c, "deleting")
  /\ Spawn(c, "cascade")
  /\ UNCHANGED <<stores, aborts, quiet, syncs>>

-----------------------------------------------------------------------------
(* abort_active_ingest, called by abort_sync, _cascade_delete and delete_kb: *)
(* dequeue every document first, then set_failed("Aborted") each.  In worker *)
(* mode no pipeline is terminated.                                           *)

\* get_active_ingest_docs_for_connector.
ActiveDocs(c) == {d \in DocIds : owner[d] = c /\ status[d] \in {"pending", "running"}}
\* get_active_ingest_docs_for_kb.
ActiveKbDocs == {d \in DocIds : status[d] \in {"pending", "running"}}

\* The caller goes on at back; abort_sync is done.
AbortOf(t, docs, back) ==
  \/ /\ docs # {}
     /\ task' = [task EXCEPT ![t].pc = "abort", ![t].back = back, ![t].todo = docs, ![t].sub = docs]
  \/ docs = {} /\ back = "free" /\ task' = [task EXCEPT ![t] = FreeTask]
  \/ docs = {} /\ back # "free" /\ Jump(t, back)

AbortActive(t) ==
  /\ Pc(t) \in {"abortDocs", "cascade"}
  /\ AbortOf(t, ActiveDocs(Owner(t)), IF Pc(t) = "cascade" THEN "docs" ELSE "free")
  /\ UNCHANGED <<stores, conn, aborts, others>>

AbortDequeue(t) ==
  /\ Pc(t) = "abort"
  /\ \E d \in task[t].todo :
       /\ DequeueUploads(d)
       /\ task' = [task EXCEPT ![t].todo = @ \ {d},
                     ![t].pc = IF task[t].todo = {d} THEN "abortPurge" ELSE @]
  /\ UNCHANGED <<rows, s3, chunks, overridden, tables, aborts, others>>

\* set_failed of the next document, although it may be at rest by now; its
\* pipeline, if any, goes on.
AbortPurge(t) ==
  /\ Pc(t) = "abortPurge"
  /\ \E d \in task[t].sub :
       /\ PurgeChunks(d)
       /\ Override(d, Shared(t, d) \/ ~IsActive(d))
       /\ task' = [task EXCEPT ![t].pc = "abortMark", ![t].doc = d, ![t].sub = @ \ {d}]
  /\ UNCHANGED <<rows, s3, redis, tables, aborts, others>>

AbortMark(t) ==
  /\ Pc(t) = "abortMark"
  /\ UpdateStatus(Page(t), "failed")
  /\ marked' = IF HasRow(Page(t)) THEN marked \cup {Page(t)} ELSE marked
  /\ Disturb(t, Page(t))
  /\ task' = [task EXCEPT ![t] =
       IF @.sub # {} THEN [@ EXCEPT !.pc = "abortPurge", !.doc = NoDoc]
       ELSE IF @.back = "free" THEN FreeTask
       ELSE [@ EXCEPT !.pc = task[t].back, !.back = "free", !.doc = NoDoc]]
  /\ UNCHANGED <<version, used, s3, chunks, redis, kb, conn, owner, aborts, others>>

-----------------------------------------------------------------------------
(* _cascade_delete: every document the connector still owns is soft-deleted, *)
(* then the row goes and its documents keep no connector.                    *)

CascadeDocs(t) ==
  /\ Pc(t) = "docs"
  /\ task' = [task EXCEPT ![t].pc = "chunks",
                ![t].todo = {d \in DocIds : owner[d] = Owner(t) /\ status[d] # "deleted"}]
  /\ UNCHANGED <<stores, conn, aborts, others>>

\* Mutant: only the row is deleted.
CascadeRowsOnly(t) ==
  /\ Pc(t) = "chunks"
  /\ \E d \in task[t].todo :
       /\ Disturb(t, d)
       /\ task' = [task EXCEPT ![t].pc = "retire", ![t].doc = d, ![t].todo = @ \ {d}]
  /\ UNCHANGED <<rows, s3, chunks, redis, tables, aborts, others>>

\* A Qdrant failure ends the task; the connector stays deleting.
CascadeChunks(t) ==
  /\ Pc(t) = "chunks"
  /\ \/ \E d \in task[t].todo :
          /\ chunks' = [chunks EXCEPT ![d] = {}]
          /\ Disturb(t, d)
          /\ task' = [task EXCEPT ![t].pc = "retire", ![t].doc = d, ![t].todo = @ \ {d}]
     \/ /\ QdrantFails /\ task[t].todo # {}
        /\ task' = [task EXCEPT ![t] = FreeTask]
        /\ UNCHANGED <<chunks, overridden>>
  /\ UNCHANGED <<rows, s3, redis, tables, aborts, others>>

CascadeRetire(t) ==
  /\ Pc(t) = "retire"
  /\ UpdateStatus(Page(t), "deleted")
  /\ Disturb(t, Page(t))
  /\ NextItem(t, "chunks")
  /\ UNCHANGED <<version, used, s3, chunks, redis, tables, aborts, others>>

Remove(c) == [conn[c] EXCEPT !.st = IF Exists(c) THEN "gone" ELSE @, !.sync = "idle"]

CascadeForget(t) ==
  /\ Pc(t) = "chunks" /\ task[t].todo = {}
  /\ conn' = [conn EXCEPT ![Owner(t)] = Remove(Owner(t))]
  /\ owner' = [d \in DocIds |-> IF owner[d] = Owner(t) THEN NoConn ELSE owner[d]]
  /\ task' = [task EXCEPT ![t] = FreeTask]
  /\ UNCHANGED <<rows, s3, chunks, redis, overridden, kb, marked, aborts, others>>

-----------------------------------------------------------------------------
(* delete_kb. *)

DeleteKb ==
  /\ Admitted /\ kb # "none"
  /\ \A c \in Conns : conn[c].sync = "idle"
  /\ kb' = "deleting"
  /\ AbortOf(Api, ActiveKbDocs, "collection")
  /\ UNCHANGED <<rows, s3, chunks, redis, overridden, conn, owner, marked, aborts, quiet, syncs>>

\* Whose work goes on while the knowledge base is torn down under it.
Survivors == {SourceOf[d] : d \in {x \in DocIds : HasWork(x) \/ \E t \in Threads : Page(t) = x}}

DropCollection ==
  /\ Pc(Api) = "collection"
  /\ chunks' = [d \in DocIds |-> {}]
  /\ overridden' = overridden \cup Survivors
  /\ Jump(Api, "prefix")
  /\ UNCHANGED <<rows, s3, redis, tables, aborts, others>>

DeletePrefix ==
  /\ Pc(Api) = "prefix"
  /\ s3' = [s \in Sources |-> 0]
  /\ Jump(Api, "meta")
  /\ UNCHANGED <<rows, chunks, redis, overridden, tables, aborts, others>>

\* delete_kb_meta cascades to the connectors and the documents.
DeleteMeta ==
  /\ Pc(Api) = "meta"
  /\ kb' = "none"
  /\ conn' = [c \in Conns |-> Remove(c)]
  /\ status' = [d \in DocIds |-> "none"]
  /\ owner' = [d \in DocIds |-> NoConn]
  /\ marked' = {}
  /\ task' = [task EXCEPT ![Api] = FreeTask]
  /\ UNCHANGED <<version, used, s3, chunks, redis, overridden, aborts, others>>

-----------------------------------------------------------------------------
Admin ==
  \/ \E c \in Conns : TriggerSync(c) \/ AbortSync(c) \/ DeleteConnector(c)
  \/ \E c \in Conns, type \in Types : CreateConnector(c, type)
  \/ \E c \in Conns, st \in {"active", "paused"} : PatchConnector(c, st)
  \/ DeleteKb
AbortStep(t)   == AbortActive(t) \/ AbortDequeue(t) \/ AbortPurge(t) \/ AbortMark(t)
AdminStep      == RequestAbort \/ AbortStep(Api) \/ DropCollection \/ DeletePrefix \/ DeleteMeta
CascadeStep(t) == AbortStep(t) \/ CascadeDocs(t) \/ CascadeChunks(t) \/ CascadeRetire(t)
                    \/ CascadeForget(t)
=============================================================================
