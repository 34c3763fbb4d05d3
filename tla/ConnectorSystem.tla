----------------------------- MODULE ConnectorSystem -----------------------------
(***************************************************************************)
(* Connectors and knowledge base administration together with the queue     *)
(* worker and the pipelines of QueueWorker and Pipelines, in one server     *)
(* process that may crash.                                                  *)
(***************************************************************************)
EXTENDS ConnectorsApi

SysInit == Init /\ ConnInit

\* A pipeline that ends overwrites last_error, and so does a drained event.
WorkerStep ==
  /\ Pc(Api) = "free"
  /\ Poll \/ SetPending \/ Push \/ \E j \in Jobs : StartTask(j)
  /\ marked' = IF loop.op = "setPending" THEN marked \ {loop.id} ELSE marked
  /\ UNCHANGED <<kb, conn, owner, aborts, bounds, site, task>>

PipelineStep(j) ==
  /\ JobStep(j)
  /\ marked' = IF job[j].pc \in {"failed", "index"} THEN marked \ {job[j].id} ELSE marked
  /\ UNCHANGED <<kb, conn, owner, aborts, bounds, site, task>>

\* The origin changes.
Edit ==
  /\ edits < MaxEdits
  /\ edits' = edits + 1
  /\ \E s \in Sources : site' = [site EXCEPT ![s] = @ + 1]
  /\ UNCHANGED <<vars, tables, aborts, task, syncs, admin>>

\* The registry of abort requests and the background tasks go with the process.
Restart ==
  /\ Crash
  /\ flags' = {} /\ cut' = {} /\ unlocked' = {}
  /\ task' = [t \in Threads \cup {Api} |-> FreeTask]
  /\ UNCHANGED <<tables, site, bounds>>

SysNext ==
  \/ Admin \/ AdminStep
  \/ \E t \in Threads : SyncStep(t) \/ CascadeStep(t)
  \/ WorkerStep
  \/ \E j \in Jobs : PipelineStep(j)
  \/ Edit
  \/ Restart

SysSpec == SysInit /\ [][SysNext]_allVars

-----------------------------------------------------------------------------
\* sync_status is a lock: at most one thread syncs a connector, unless a client
\* asked one of two to abort and it has not noticed yet, or the end of such a
\* sync has released the lock that the next one had taken.
OneSync ==
  \A c \in Conns : \A t, u \in Syncing(c) : t # u => {t, u} \cap (cut \cup unlocked) # {}

\* The lock is not left behind: while the process lives, a connector that shows
\* a running sync has a thread that will release it.
RunningIsLive ==
  crashes = 0 => \A c \in Conns : conn[c].sync = "running" => Syncing(c) # {}

\* No document is stranded: without a crash, one that is being fetched, waits or
\* is processed is in the hands of a sync thread, a list, a pipeline or a task
\* that is failing it, however syncs, aborts and deletions met.
InTask(d) == \E t \in Threads \cup {Api} : d = Page(t) \/ d \in task[t].sub
FetchedIsOwned ==
  crashes = 0 =>
    \A d \in DocIds :
      status[d] \in {"fetching", "pending", "running"} => HasWork(d) \/ InTask(d)

\* What search serves for a synced document is its staged file and nothing else
\* (nothing at all only while a deletion has it, or had it when the process went
\* down), and the recorded version is never newer than that file, so that the next
\* change at the origin is noticed: through failed fetches, aborts and crashes
\* between the two writes, but not when a sync staged a document under its
\* running pipeline.
SyncedServesOrigin ==
  \A d \in DocIds :
    LET file == s3[SourceOf[d]] IN
      ~Overridden(d) /\ status[d] = "indexed" /\ kb = "active"
        => /\ chunks[d] \subseteq {file}
           /\ chunks[d] = {} => InTask(d) \/ crashes > 0
           /\ version[d] <= file

\* Of a deleted connector or knowledge base nothing is served and nothing comes
\* back, but for documents whose pipeline or sync thread outlived the deletion, or
\* that a sync of another connector took over while the deletion had them in hand.
Orphan(d) == HasRow(d) /\ owner[d] = NoConn
DeletedStaysDeleted ==
  \A d \in DocIds : ~Overridden(d) =>
    /\ Orphan(d) => status[d] \in {"deleted", "failed"} /\ chunks[d] = {}
    /\ kb = "none" => chunks[d] = {} /\ s3[SourceOf[d]] = 0

\* A sync stops early only when somebody asked for it.  The manual recovery of
\* docs/internal/design/connector-state-flow.md:165.
OnlyAskedSyncsStop ==
  \A t \in Threads : Pc(t) = "page" /\ Owner(t) \in flags => t \in cut
=============================================================================
