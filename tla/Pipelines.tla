-------------------------------- MODULE Pipelines --------------------------------
(***************************************************************************)
(* pipeline/runner.py and the steps it calls, as executed by a worker       *)
(* thread: run_ingest_pipeline (validate, parse, dedup, chunk, embed,       *)
(* upsert, set_indexed; set_failed on an exception) and run_delete_pipeline *)
(* (delete_doc).  One call to Postgres, S3 or Qdrant is one step.  The text *)
(* of a document is abstracted to the version of its file; dedup bands and  *)
(* parent chunks follow the row and are left out, so detection may report   *)
(* any other indexed document.                                              *)
(***************************************************************************)
EXTENDS RagStore

At(j, pc)   == job[j].pc = pc
Step(j, pc) == job' = [job EXCEPT ![j].pc = pc]
End(j)      == job' = [job EXCEPT ![j] = FreeJob]
Doc(j)      == job[j].id
Dup(j)      == job[j].dup

\* What no pipeline step touches.
apiVars == <<version, used, redis, loop, counters, asked>>

\* The first read: a missing row ends the run (no set_failed: there is no row);
\* validate may reject the file's size.
IngestLoad(j) ==
  /\ At(j, "load") /\ job[j].kind = "upload"
  /\ IF HasRow(Doc(j)) THEN Step(j, "begin") \/ Step(j, "fail") ELSE End(j)
  /\ UNCHANGED <<status, s3, chunks, overridden, apiVars>>

\* set_processing(run_id="direct").
IngestBegin(j) ==
  /\ At(j, "begin")
  /\ UpdateStatus(Doc(j), "running")
  /\ Step(j, "parse")
  /\ UNCHANGED <<s3, chunks, overridden, apiVars>>

\* parse reads the stored file; a missing or unreadable file raises.
Parse(j) ==
  /\ At(j, "parse")
  /\ \/ /\ s3[SourceOf[Doc(j)]] # 0
        /\ job' = [job EXCEPT ![j].pc = "dedup", ![j].ver = s3[SourceOf[Doc(j)]]]
     \/ Step(j, "fail")
  /\ UNCHANGED <<status, s3, chunks, overridden, apiVars>>

-----------------------------------------------------------------------------
(* run_dedup_pipeline.  The candidate is chosen by what it was when the      *)
(* bands were queried; everything after acts on it unconditionally.          *)

Candidates(j) == {d \in DocIds \ {Doc(j)} : status[d] = "indexed"}

\* With dedup off, for a file that is not a document, or with no match, the run
\* goes on.  Saving bands for a missing row raises, and so may the embedding
\* that compares the file with a candidate's chunks.
Detect(j) ==
  /\ At(j, "dedup")
  /\ \/ Step(j, "embed")
     \/ /\ DedupOn /\ (~HasRow(Doc(j)) \/ Candidates(j) # {})
        /\ Step(j, "fail")
     \/ /\ DedupOn
        /\ \E d \in Candidates(j), pc \in {"identical", "resolveMoved", "resolveSimilar"} :
             job' = [job EXCEPT ![j].pc = pc, ![j].dup = d]
  /\ UNCHANGED <<status, s3, chunks, overridden, apiVars>>

\* handle_identical, and the loser's branch of the two other verdicts.
MarkOutdated(j) == UpdateStatus(Doc(j), "outdated") /\ End(j)

\* Mutant: an identical upload is discarded.
IdenticalDiscards(j) ==
  /\ At(j, "identical")
  /\ UpdateStatus(Doc(j), "deleted") /\ End(j)
  /\ UNCHANGED <<s3, chunks, overridden, apiVars>>

Identical(j) ==
  /\ At(j, "identical")
  /\ MarkOutdated(j)
  /\ UNCHANGED <<s3, chunks, overridden, apiVars>>

\* _resolve_newer: a row that is gone, or an older incoming one, loses.
Resolve(j) ==
  /\ At(j, "resolveMoved") \/ At(j, "resolveSimilar")
  /\ \/ /\ HasRow(Doc(j)) /\ HasRow(Dup(j))
        /\ Step(j, IF At(j, "resolveMoved") THEN "moveChunks" ELSE "purgeOther")
        /\ UNCHANGED status
     \/ MarkOutdated(j)
  /\ UNCHANGED <<s3, chunks, overridden, apiVars>>

\* A verdict on a document that is no longer the idle indexed one detected.
Stale(d) == status[d] # "indexed" \/ HasWork(d)

\* handle_title_changed, incoming newer: the chunks change owner, the other
\* document is retired, this one is indexed without embedding.
MoveChunks(j) ==
  /\ At(j, "moveChunks")
  /\ \/ /\ chunks' = [chunks EXCEPT ![Dup(j)] = {}, ![Doc(j)] = @ \cup chunks[Dup(j)]]
        /\ Step(j, "retireMoved")
        /\ Override(Dup(j), Stale(Dup(j)))
     \/ QdrantFails /\ Step(j, "fail") /\ UNCHANGED <<chunks, overridden>>
  /\ UNCHANGED <<status, s3, apiVars>>

\* handle_similar, incoming newer: the other document's chunks are deleted.
PurgeOther(j) ==
  /\ At(j, "purgeOther")
  /\ \/ /\ chunks' = [chunks EXCEPT ![Dup(j)] = {}]
        /\ Step(j, "retireOther")
        /\ Override(Dup(j), Stale(Dup(j)))
     \/ QdrantFails /\ Step(j, "fail") /\ UNCHANGED <<chunks, overridden>>
  /\ UNCHANGED <<status, s3, apiVars>>

RetireOther(j) ==
  /\ At(j, "retireMoved") \/ At(j, "retireOther")
  /\ UpdateStatus(Dup(j), "outdated")
  /\ Override(Dup(j), Stale(Dup(j)))
  /\ Step(j, IF At(j, "retireMoved") THEN "indexMoved" ELSE "embed")
  /\ UNCHANGED <<s3, chunks, apiVars>>

-----------------------------------------------------------------------------
(* chunk, embed, upsert, set_indexed. *)

\* No indexable content, or the embedding provider fails.
Embed(j) ==
  /\ At(j, "embed")
  /\ Step(j, "clear") \/ Step(j, "fail")
  /\ UNCHANGED <<status, s3, chunks, overridden, apiVars>>

\* Mutant: upsert does not delete the old chunks.
ClearNothing(j) ==
  /\ At(j, "clear")
  /\ Step(j, "insert")
  /\ UNCHANGED <<status, s3, chunks, overridden, apiVars>>

\* upsert deletes the old chunks, then inserts the new ones.  Saving parent
\* chunks for a missing row violates the foreign key.
Clear(j) ==
  /\ At(j, "clear")
  /\ \/ chunks' = [chunks EXCEPT ![Doc(j)] = {}] /\ Step(j, "insert")
     \/ /\ QdrantFails \/ ~HasRow(Doc(j))
        /\ UNCHANGED chunks /\ Step(j, "fail")
  /\ UNCHANGED <<status, s3, overridden, apiVars>>

Insert(j) ==
  /\ At(j, "insert")
  /\ \/ chunks' = [chunks EXCEPT ![Doc(j)] = @ \cup {job[j].ver}] /\ Step(j, "index")
     \/ QdrantFails /\ UNCHANGED chunks /\ Step(j, "fail")
  /\ UNCHANGED <<status, s3, overridden, apiVars>>

SetIndexed(j) ==
  /\ At(j, "index") \/ At(j, "indexMoved")
  /\ UpdateStatus(Doc(j), "indexed")
  /\ End(j)
  /\ UNCHANGED <<s3, chunks, overridden, apiVars>>

\* Mutant: set_failed does not purge.
FailKeepsChunks(j) ==
  /\ At(j, "fail")
  /\ Step(j, "failed")
  /\ UNCHANGED <<status, s3, chunks, overridden, apiVars>>

\* set_failed: purge the chunks of the row that was read, then write the status.
Fail(j) ==
  /\ At(j, "fail")
  /\ \/ chunks' = [chunks EXCEPT ![Doc(j)] = IF HasRow(Doc(j)) THEN {} ELSE @]
     \/ QdrantFails /\ UNCHANGED chunks
  /\ Step(j, "failed")
  /\ UNCHANGED <<status, s3, overridden, apiVars>>

\* Mutant: a status outside the documented ones.
SetErrored(j) ==
  /\ At(j, "failed")
  /\ UpdateStatus(Doc(j), "error")
  /\ End(j)
  /\ UNCHANGED <<s3, chunks, overridden, apiVars>>

\* Mutant: the exception handler ends the run without writing the status.
FailSilently(j) ==
  /\ At(j, "failed")
  /\ End(j)
  /\ UNCHANGED <<status, s3, chunks, overridden, apiVars>>

SetFailed(j) ==
  /\ At(j, "failed")
  /\ UpdateStatus(Doc(j), "failed")
  /\ End(j)
  /\ UNCHANGED <<s3, chunks, overridden, apiVars>>

-----------------------------------------------------------------------------
(* delete_doc.  The status read here decides between soft and hard delete.   *)

DeleteLoad(j) ==
  /\ At(j, "load") /\ job[j].kind = "delete"
  /\ IF status[Doc(j)] \in {"none", "deleted"}
     THEN End(j)
     ELSE job' = [job EXCEPT ![j].pc = "mark", ![j].was = status[Doc(j)]]
  /\ UNCHANGED <<status, s3, chunks, overridden, apiVars>>

SetDeleting(j) ==
  /\ At(j, "mark")
  /\ UpdateStatus(Doc(j), "deleting")
  /\ Step(j, "purge")
  /\ UNCHANGED <<s3, chunks, overridden, apiVars>>

Soft(j) == job[j].was = "indexed" /\ ~job[j].force

\* A Qdrant failure is raised for an indexed document and swallowed otherwise.
DeleteChunks(j) ==
  /\ At(j, "purge")
  /\ \/ chunks' = [chunks EXCEPT ![Doc(j)] = {}] /\ Step(j, IF Soft(j) THEN "row" ELSE "file")
     \/ /\ QdrantFails /\ UNCHANGED chunks
        /\ Step(j, IF job[j].was = "indexed" THEN "fail" ELSE "file")
  /\ UNCHANGED <<status, s3, overridden, apiVars>>

\* purge_doc_artifacts: an S3 failure is swallowed.
DeleteFile(j) ==
  /\ At(j, "file")
  /\ s3' = [s3 EXCEPT ![SourceOf[Doc(j)]] = 0] \/ UNCHANGED s3
  /\ Step(j, "row")
  /\ UNCHANGED <<status, chunks, overridden, apiVars>>

\* soft_delete_doc or hard_delete_doc.
DeleteRow(j) ==
  /\ At(j, "row")
  /\ UpdateStatus(Doc(j), IF Soft(j) THEN "deleted" ELSE "none")
  /\ End(j)
  /\ UNCHANGED <<s3, chunks, overridden, apiVars>>

-----------------------------------------------------------------------------

IngestStep(j) ==
  \/ IngestLoad(j) \/ IngestBegin(j) \/ Parse(j) \/ Detect(j) \/ Identical(j)
  \/ Resolve(j) \/ MoveChunks(j) \/ PurgeOther(j) \/ RetireOther(j)
  \/ Embed(j) \/ Clear(j) \/ Insert(j) \/ SetIndexed(j)

DeleteStep(j) ==
  DeleteLoad(j) \/ SetDeleting(j) \/ DeleteChunks(j) \/ DeleteFile(j) \/ DeleteRow(j)

JobStep(j) == IngestStep(j) \/ DeleteStep(j) \/ Fail(j) \/ SetFailed(j)
=============================================================================
