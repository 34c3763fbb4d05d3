-------------------------------- MODULE DocSystem --------------------------------
(***************************************************************************)
(* The document service in queue-worker mode: one process whose event loop  *)
(* runs the docs API and the queue worker, and whose threads run the        *)
(* pipelines.                                                               *)
(***************************************************************************)
EXTENDS DocsApi, QueueWorker, Pipelines

Next ==
  \/ Request
  \/ Handle
  \/ Poll
  \/ \E j \in Jobs : StartTask(j) \/ JobStep(j)
  \/ Crash

Spec == Init /\ [][Next]_vars

\* Threads run; a handler or a poll that was begun is finished; asyncio resumes
\* the worker's sleep and its waiting tasks in turn even while requests keep
\* arriving; a database outage does not last for ever.  Clients owe nothing.
Fairness ==
  /\ \A j \in Jobs : WF_vars(JobStep(j)) /\ SF_vars(StartTask(j))
  /\ WF_vars(Handle)
  /\ SF_vars(PollBegin)
  /\ WF_vars(DrainNext \/ DrainDone \/ Claim \/ ListDone)
  /\ SF_vars(Take)

FairSpec == Spec /\ Fairness

-----------------------------------------------------------------------------
Settled(d) == status[d] \in StableStatus \cup {"none"}

OneQueued(d) ==
  \A k, l \in Kind :
    \A i \in Positions(queue[k], d), m \in Positions(queue[l], d) : k = l /\ i = m
OneJob(d) == \A i, j \in JobsOf(d) : i = j

\* As long as requests pass the is_active check of docs.py and nobody overrides
\* a document whose work is running, a document is never in the lists, in the
\* event loop's hands and in the pipelines more than once, it never waits in a
\* delay set, and a document at rest is in none of them.  The claim of
\* docs/internal/design/duplicate-request-handling.md section 2.
OneWorkItem ==
  \A d \in DocIds : ~Overridden(d) =>
    /\ OneQueued(d) /\ OneJob(d)
    /\ Queued(d) => ~HasJob(d) /\ ~InHand(d)
    /\ HasJob(d) => ~InHand(d)
    /\ ~Delayed(d) /\ ~Draining(d)
    /\ Settled(d) => ~Queued(d) /\ ~HasJob(d)

\* A handler that is failing d holds it until it has written the status.
BeingFailed(d) == loop.id = d /\ loop.op \in FailOp

\* Nothing is lost between the row, the Redis lists and the tasks: unless the
\* process crashed, a document that waits or is processed has an owner that will
\* move it on, even after a force-fail or a recover overrode running work.
ActiveIsOwned ==
  crashes = 0 =>
    \A d \in DocIds :
      status[d] \in {"pending", "running", "deleting"} => HasWork(d) \/ BeingFailed(d)

\* A document at rest shows the outcome of the last request that was accepted
\* for it, whatever was accepted, queued and crashed before.
Outcome(request) ==
  CASE request = "ingest" -> {"indexed", "failed", "outdated"}
    [] request \in {"delete", "softDelete"} -> {"none", "deleted", "failed"}
    [] request = "fail" -> {"failed"}
    [] request = "none" -> {"none"}
LastRequestWins ==
  \A d \in DocIds :
    ~Overridden(d) /\ Settled(d) /\ ~HasWork(d) => status[d] \in Outcome(asked[d])

\* What search serves for an indexed document is what its stored file holds:
\* one set of chunks, of that version, through re-uploads, failed uploads,
\* crashes, deletes and the next document generated for the same source.
IndexedServesFile ==
  \A d \in DocIds :
    ~Overridden(d) /\ status[d] = "indexed" => chunks[d] = {s3[SourceOf[d]]}

\* A document that is gone, soft-deleted or failed is not served at all.
GoneServesNothing ==
  \A d \in DocIds :
    ~Overridden(d) /\ status[d] \in {"none", "deleted", "failed"} => chunks[d] = {}

\* A retired document is not served.
OutdatedServesNothing ==
  (\A j \in Jobs : job[j].pc = "free") =>
    \A d \in DocIds : ~Overridden(d) /\ status[d] = "outdated" => chunks[d] = {}

\* DELETE without force of an indexed document keeps its row and its file.
\* docs/internal/design/doc-state-flow.md:113-114.
SoftDeleteKeepsFile ==
  \A d \in DocIds :
    ~Overridden(d) /\ asked[d] = "softDelete" => HasRow(d) /\ s3[SourceOf[d]] # 0

-----------------------------------------------------------------------------
(* The inductive invariant behind OneWorkItem: where the loop may stand, and  *)
(* for each place that holds a document's work the status it goes with.       *)

DupPC     == {"resolveMoved", "resolveSimilar", "moveChunks", "retireMoved",
              "purgeOther", "retireOther"}

LoopShape ==
  /\ loop.back \in {"idle", "reindex", "drain"}
  /\ loop.op = "drain" => loop.back = "drain"
  /\ loop.op = "reindex" => loop.back = "reindex"
  /\ loop.op \in {"idle", "put", "stage", "take", "claim"} \cup FailOp => loop.back = "idle"
  /\ loop.op \in InHandOp \cup FailOp => loop.id \in DocIds
  /\ loop.back = "idle" => loop.todo = {}

JobShape(j) ==
  /\ job[j].pc # "free" => job[j].id \in DocIds
  /\ job[j].pc \in IngestPC => job[j].kind = "upload"
  /\ job[j].pc \in DeletePC => job[j].kind = "delete"
  /\ job[j].pc \in DupPC => job[j].dup \in DocIds

Shape == LoopShape /\ \A j \in Jobs : JobShape(j)

\* The status a document has while job j works on it.
JobStatus(j) ==
  IF job[j].kind = "upload" THEN "running"
  ELSE IF job[j].pc \in {"wait", "load", "mark"} THEN "pending" ELSE "deleting"

\* The statuses it may have while the loop holds it.
HandStatus ==
  CASE loop.op \in {"put", "stage"} -> {"uploading"}
    [] loop.op = "enqueue" -> Status \ {"running", "deleting"}
    [] loop.op = "setPending" -> Status \ {"running", "deleting", "none"}
    [] OTHER -> {"pending"}

Listed(d) == loop.back = "reindex" /\ \E it \in loop.todo : it.id = d

Owned(d) ==
  /\ OneQueued(d) /\ OneJob(d)
  /\ ~Delayed(d) /\ ~Draining(d)
  /\ Queued(d) => status[d] = "pending" /\ ~HasJob(d) /\ ~InHand(d)
  /\ HasJob(d) => ~InHand(d)
  /\ \A j \in JobsOf(d) : status[d] = JobStatus(j)
  /\ InHand(d) => status[d] \in HandStatus
  /\ BeingFailed(d) => ~Queued(d) /\ ~HasJob(d)
  /\ Listed(d) => /\ status[d] \in StableStatus
                  /\ ~InHand(d)
                  /\ \A x, y \in loop.todo : x.id = d /\ y.id = d => x = y

\* Why OneWorkItem holds: at every step the status of a document nobody overrode
\* is the one that goes with the single place that holds its work.
OwnershipInv == TypeOK /\ Shape /\ \A d \in DocIds : ~Overridden(d) => Owned(d)

\* Work of a kind is work that was asked for last.
Fits(kind, d) == IF kind = "upload" THEN asked[d] = "ingest" ELSE asked[d] \in {"delete", "softDelete"}

\* Nothing else than the last accepted request of a document is queued, held or
\* worked on, however often the lists and tasks were left behind by a crash;
\* what is drained from a delay set, and so enqueued without being asked for,
\* belongs to overridden documents; only unfinished work is given up.
WorkIsAsked ==
  \A d \in DocIds : ~Overridden(d) =>
    /\ \A k \in Kind : \A i \in Positions(queue[k], d) : Fits(k, d)
    /\ \A j \in JobsOf(d) : Fits(job[j].kind, d)
    /\ loop.id = d /\ loop.op \in {"push", "claim"} => Fits(loop.kind, d)
    /\ loop.id = d /\ loop.op = "setPending" => status[d] # "deleted"
    /\ loop.id = d /\ loop.op \in {"enqueue", "setPending", "push"} => loop.back # "drain"
    /\ BeingFailed(d) => IsActive(d)

-----------------------------------------------------------------------------
\* Seen through the status endpoint, the queues, tasks and stores are nothing
\* but the documented flow of one request at a time, except for documents whose
\* running work was overridden.
Flow == INSTANCE DocStatusFlow
          WITH DocIds <- DocIds, status <- status, asked <- asked,
               out <- {d \in DocIds : Overridden(d)}
ImplementsFlow == Flow!Spec

-----------------------------------------------------------------------------
\* Every accepted request comes to rest, overridden work included.
RequestsSettle ==
  \A d \in DocIds :
    status[d] \in {"pending", "running", "deleting"} ~> Settled(d)
=============================================================================
