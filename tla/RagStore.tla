-------------------------------- MODULE RagStore --------------------------------
(***************************************************************************)
(* The state that the docs API, the queue worker and the pipelines share:   *)
(* the documents table (Postgres), the raw files (S3), the vectors          *)
(* (Qdrant), the two event lists with their two delay sets (Redis), and the *)
(* memory of the one server process: what its event loop is doing and its   *)
(* pipeline jobs.  This module holds the state, its types and the           *)
(* operations of pipeline/utils/doc_state.py and pipeline/queue/enqueue.py  *)
(* that every other module is built from.                                   *)
(*                                                                         *)
(* A doc_id is generated afresh for every row, so a source that is deleted  *)
(* and uploaded again is a new member of DocIds with the same SourceOf.     *)
(***************************************************************************)
EXTENDS Naturals, Sequences, FiniteSets

CONSTANTS
  Sources,      \* source URIs of one knowledge base (one file each)
  DocIds,       \* every doc_id that will ever be generated
  SourceOf,     \* the source a doc_id is generated for
  NoDoc,        \* stands for "no document"
  Jobs,         \* slots for asyncio tasks created by the worker
  MaxWorkers,   \* QueueWorker(max_workers)
  MaxPerPoll,   \* QueueWorker(max_per_poll)
  DedupOn,      \* the dedup.enabled setting
  QdrantFails,  \* may a Qdrant call fail?
  Clients,      \* bound: the kinds of request made, a subset of RequestKind
  MaxUploads,   \* bound: accepted uploads
  MaxCrashes,   \* bound: crashes of the server process
  MaxOverrides  \* bound: force-fails and recovers of a document whose work goes on

RequestKind == {"upload", "delete", "reindex", "reindexKb", "fail", "recover"}

ASSUME StoreAssumption ==
  /\ SourceOf \in [DocIds -> Sources]
  /\ NoDoc \notin DocIds
  /\ MaxWorkers \in Nat \ {0}
  /\ MaxPerPoll \in Nat \ {0}
  /\ DedupOn \in BOOLEAN
  /\ QdrantFails \in BOOLEAN
  /\ Clients \subseteq RequestKind
  /\ MaxUploads \in Nat
  /\ MaxCrashes \in Nat
  /\ MaxOverrides \in Nat

VARIABLES
  status,      \* documents.status per doc_id, "none" when there is no row
  version,     \* documents.content_version, the ETag of the accepted upload
  used,        \* doc_ids generated so far
  s3,          \* the version of the file stored for a source, 0 when none
  chunks,      \* the file versions whose chunks Qdrant holds for a doc_id
  queue,       \* the two Redis lists; the head is popped next
  delayed,     \* the two Redis delay sets
  loop,        \* what the asyncio event loop is in the middle of
  job,         \* the pipeline tasks
  uploads,     \* how many uploads were accepted
  crashes,     \* how many times the process crashed
  overrides,   \* how many times a request overrode work that goes on
  asked,       \* history: the last accepted request per doc_id
  overridden   \* history: sources whose row was changed under running work

rows     == <<status, version, used>>
redis    == <<queue, delayed>>
history  == <<asked, overridden>>
counters == <<uploads, crashes, overrides>>
vars     == <<rows, s3, chunks, redis, loop, job, counters, history>>

-----------------------------------------------------------------------------
(* Types. *)

StableStatus == {"indexed", "failed", "deleted", "outdated"}
ActiveStatus == {"uploading", "fetching", "pending", "running", "deleting"}
RowStatus    == StableStatus \cup ActiveStatus
Status       == RowStatus \cup {"none"}

\* is_active: the complement of the stable statuses.
IsActive(d) == status[d] \in RowStatus \ StableStatus

Kind   == {"upload", "delete"}
Item   == [id : DocIds, force : BOOLEAN]

IngestPC == {"begin", "parse", "dedup", "identical", "resolveMoved",
             "resolveSimilar", "moveChunks", "retireMoved", "indexMoved",
             "purgeOther", "retireOther", "embed", "clear", "insert", "index"}
DeletePC == {"mark", "purge", "file", "row"}
FailPC   == {"fail", "failed"}
PC       == {"free", "wait", "load"} \cup IngestPC \cup DeletePC \cup FailPC

Job == [pc : PC, kind : Kind, id : DocIds \cup {NoDoc}, force : BOOLEAN,
        was : Status, ver : Nat, dup : DocIds \cup {NoDoc}]
FreeJob == [pc |-> "free", kind |-> "upload", id |-> NoDoc, force |-> FALSE,
            was |-> "none", ver |-> 0, dup |-> NoDoc]
NewJob(kind, item) == [FreeJob EXCEPT !.pc = "wait", !.kind = kind,
                                      !.id = item.id, !.force = item.force]

\* Where the event loop is: inside a request handler or inside _poll.  None of
\* them awaits between its first database call and its return, so while the loop
\* is not idle no other handler, no poll and no new task can run; pipeline
\* threads can.
LoopOp == {"idle", "put", "stage", "enqueue", "setPending", "push", "reindex",
           "failPurge", "failMark", "drain", "take", "claim"}
InHandOp == {"put", "stage", "enqueue", "setPending", "push", "claim"}
FailOp   == {"failPurge", "failMark"}
Loop == [op : LoopOp, kind : Kind, id : DocIds \cup {NoDoc}, force : BOOLEAN,
         back : LoopOp, todo : SUBSET Item, n : Nat, more : BOOLEAN]
IdleLoop == [op |-> "idle", kind |-> "upload", id |-> NoDoc, force |-> FALSE,
             back |-> "idle", todo |-> {}, n |-> 0, more |-> FALSE]

Asked == {"none", "ingest", "delete", "softDelete", "fail"}

\* The documents table, the lists, the delay sets and the process's memory hold
\* what the code puts into them, and nothing else.
TypeOK ==
  /\ status \in [DocIds -> Status]
  /\ version \in [DocIds -> Nat]
  /\ used \subseteq DocIds
  /\ s3 \in [Sources -> Nat]
  /\ chunks \in [DocIds -> SUBSET Nat]
  /\ queue \in [Kind -> Seq(Item)]
  /\ delayed \in [Kind -> SUBSET Item]
  /\ loop \in Loop
  /\ job \in [Jobs -> Job]
  /\ uploads \in Nat
  /\ crashes \in Nat
  /\ overrides \in Nat
  /\ asked \in [DocIds -> Asked]
  /\ overridden \subseteq Sources

Init ==
  /\ status = [d \in DocIds |-> "none"]
  /\ version = [d \in DocIds |-> 0]
  /\ used = {}
  /\ s3 = [s \in Sources |-> 0]
  /\ chunks = [d \in DocIds |-> {}]
  /\ queue = [k \in Kind |-> <<>>]
  /\ delayed = [k \in Kind |-> {}]
  /\ loop = IdleLoop
  /\ job = [j \in Jobs |-> FreeJob]
  /\ uploads = 0
  /\ crashes = 0
  /\ overrides = 0
  /\ asked = [d \in DocIds |-> "none"]
  /\ overridden = {}

-----------------------------------------------------------------------------
(* The documents table: an UPDATE of a missing row changes nothing. *)

HasRow(d) == status[d] # "none"
UpdateStatus(d, st) ==
  status' = [status EXCEPT ![d] = IF HasRow(d) THEN st ELSE @]

(* The Redis lists. *)

Positions(q, d) == {i \in DOMAIN q : q[i].id = d}
\* LREM of both payloads (force false and true) of a document: the other entries
\* close up in order.  (Written by rank rather than with SelectSeq so that it
\* can be proved about.)
Others(q, d, i) == {m \in 1 .. i : q[m].id # d}
Rank(q, d, i) == Cardinality(Others(q, d, i))
Without(q, d) ==
  [n \in 1 .. Rank(q, d, Len(q)) |->
     q[CHOOSE i \in DOMAIN q : q[i].id # d /\ Rank(q, d, i) = n]]

DequeueUploads(d) ==
  /\ queue' = [queue EXCEPT !["upload"] = Without(@, d)]
  /\ delayed' = [delayed EXCEPT !["upload"] = {it \in @ : it.id # d}]

-----------------------------------------------------------------------------
(* Work in flight for a document, wherever it is held. *)

Queued(d)   == \E k \in Kind : Positions(queue[k], d) # {}
Delayed(d)  == \E k \in Kind : \E it \in delayed[k] : it.id = d
Draining(d) == loop.back = "drain" /\ \E it \in loop.todo : it.id = d
InHand(d)   == loop.id = d /\ loop.op \in InHandOp
JobsOf(d)   == {j \in Jobs : job[j].pc # "free" /\ job[j].id = d}
HasJob(d)   == JobsOf(d) # {}

HasWork(d) == Queued(d) \/ Delayed(d) \/ Draining(d) \/ InHand(d) \/ HasJob(d)

Overridden(d) == SourceOf[d] \in overridden
\* What a writer that does not own document d's work records: if the row it
\* changes had work in flight, that work goes on and may write the row again.
Override(d, busy) ==
  overridden' = IF busy THEN overridden \cup {SourceOf[d]} ELSE overridden
=============================================================================
