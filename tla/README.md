# A TLA+ verification of rag-api

`rag-api` ingests documents into a vector store and answers search requests. A document's life is
spread over Postgres (its row and status), S3 (its file), Qdrant (its chunks), Redis (its events)
and the memory of a server process (its tasks). This project models how those five stay, or fail to
stay, in step.

Paths below are relative to `src/src/rag_api/`.

## 1. Inventory

| Component | State | Operations | Interacts with |
|---|---|---|---|
| Document status table (`pipeline/utils/doc_state.py`, `infra/postgres.py`) | one row per `doc_id`: status, content_version, run_id | `set_pending`, `set_uploading`, `set_processing`, `set_deleting`, `set_indexed`, `set_failed`, ... | written by every other component, always by a plain `UPDATE ... WHERE doc_id` without a condition on the old status |
| Docs API (`api/routers/docs.py`) | none of its own | upload, batch upload, delete, reindex (document, KB), force-fail, recover | reads the status (`is_active`), writes S3 and the row, pushes events |
| Event lists (`pipeline/queue/enqueue.py`) | Redis lists `upload` and `delete`, a delay set for each | enqueue, dequeue, drain | API and connectors push, worker or Dagster sensor pops |
| Queue worker (`pipeline/queue/queue_worker.py`) | semaphore, executor, asyncio tasks | `_poll`, `_run_ingest`, `_run_delete` | pops events, runs the pipelines in threads |
| Ingest pipeline (`pipeline/runner.py`, `pipeline/steps/*`) | local variables of a thread | validate, parse, dedup, chunk, embed, upsert, set_indexed / set_failed | S3, Qdrant, Postgres |
| Delete pipeline (`pipeline/steps/delete.py`, `pipeline/utils/purge.py`) | local variables of a thread | soft and hard delete | Qdrant, S3, Postgres |
| Dedup (`pipeline/steps/dedup/*`) | bands in Postgres | SimHash, MinHash, chunk comparison, verdict | retires the other document: changes its row and its chunks |
| Search cache (`query/search_cache.py`, `infra/search_cache.py`) | entries, bucket sets, KB indexes, FIFO order in Redis | lookup, store, evict, invalidate | search requests store, pipelines invalidate |
| Search and retriever (`api/routers/search.py`, `query/*`) | none | search, orphan filter, auto-merge, rerank | Qdrant, Postgres, cache |
| Connectors (`connectors/*`, `api/routers/connectors.py`) | connector rows: sync_status, status | create, delete with cascade, sync, abort, schedules | create rows, stage files and push events from their own thread |
| Knowledge bases (`api/routers/kb.py`) | KB rows, setting overrides | create, delete, overrides | deletes everything of a KB |
| Dagster mode (`defs/*`) | Dagster runs | sensor, ingest, dedup and delete jobs, failure hooks | replaces the queue worker |
| Settings (`config/settings.py`) | global and per-KB values | resolve, validate | read by all |
| Shell (app, MCP tools, tracing, logging, crypto, parsers) | none that matters here | | |

What is hard:

* **Concurrency.** Handlers and `_poll` run on one event loop. None of them awaits between its first
  database call and its return, so they exclude each other; but pipeline threads (and connector
  threads) run at the same time and write the same rows, unconditionally. Every status is a cached
  value the moment it has been read.
* **Failure.** S3, Qdrant and the embedding provider fail in the middle of multi-step updates; some
  failures are swallowed and some raised. A crash leaves a popped event nowhere.
* **Ordering.** Two lists, two delay sets, re-queueing at the far end: events of one document could
  overtake one another.
* **Overrides.** Force-fail and recover change the row while the task goes on (the code says so); sync
  threads, aborts, cascades and the deletion of a knowledge base write rows and chunks without asking
  whether a pipeline has them.
* **Processes.** In Dagster mode the API, the sensor and the runs are separate processes that only meet in
  the rows and the lists.

What makes the parts correct: at most one piece of work per document; an active status always has an
owner; a document at rest shows the outcome of the last accepted request; what search serves for an
indexed document is its stored file, and nothing is served for a document that is gone; every
accepted request ends. A connector has one sync at a time, whose lock is released, and nothing of a deleted
connector or knowledge base comes back. A search answers what is best among what it found, from a cache no
older than the last invalidation.

## 2. Modules

Three compositions share `RagStore`: the document life cycle in worker mode (`DocSystem`), the same with
connectors (`ConnectorSystem`), and Dagster mode (`DagsterMode`). The search cache and five algorithms
stand alone.

| Module | Models |
|---|---|
| `RagStore` | the shared state and its types; `update_doc_fields`, `is_active`, `dequeue_upload_events` |
| `DocsApi` | the handlers of `api/routers/docs.py` and the two enqueue functions |
| `QueueWorker` | `_drain_delay_queue`, `_poll`, `start`, the tasks and their semaphore, a crash |
| `Pipelines` | `run_ingest_pipeline` with dedup verdicts, `run_delete_pipeline` |
| `DocSystem` | the composition of the four, its fairness, the properties, the inductive invariant |
| `DocStatusFlow` | the abstract specification: what a client that polls a status may rely on |
| `ConnectorStore` | connector and knowledge base rows, abort requests, background tasks, the origin that is synced |
| `ConnectorSync` | the sync thread: `_run_sync` and the web, github and confluence connectors up to the push of the event |
| `ConnectorsApi` | the handlers of `api/routers/connectors.py`, `abort_active_ingest`, `_cascade_delete`, `delete_kb` |
| `ConnectorSystem` | these three with the worker and the pipelines; restart; the properties |
| `DagsterSensor` | `event_queue_sensor`: drain, look, drop, delay, zombie, dispatch; the daemon that launches runs |
| `DagsterMode` | the ops of the ingest and delete jobs, the failure hooks, termination, and the API's requests in this mode |
| `Hierarchy` | parent chunks (`pipeline/steps/chunk.py`) and their merging (`query/retriever.py`) |
| `WebCrawl` | the traversal of `connectors/web.py` |
| `NearDup` | SimHash, MinHash and chunk comparison with their indexes, and the verdicts |
| `Retrieval` | one search after its cache lookup: merge, fusion, orphans, reranking |
| `Sorting` | Python's `sorted` where no two keys are equal, for the two above |
| `Overrides` | the setting overrides of a knowledge base: endpoints, rows, resolution |
| `SearchCache` | the cache of search responses: lookup, store, eviction, expiry, invalidation; the handler, the clear endpoint and the end of `delete_kb` around it |
| `MCDocSystem`, `MCConnectors`, `MCDagster`, `MCSearchCache`, `MCAlgorithms` | the instances for TLC |
| `DocSystemProofs` | lemmas on the helpers, type correctness |
| `OwnershipProofs` | the ownership invariant and its consequence |
| `FlowProofs` | what was asked is what is worked on; the refinement of `DocStatusFlow`; the last request wins |
| `ServesProofs` | what search serves of a document, and that no active document is left behind |
| `SearchCacheProofs` | the invariant of the cache and its two consequences |
| `ConnectorProofs` | types, the sync lock, the ownership of fetched documents, what deletions leave behind and what search serves of a synced document |
| `DagsterProofs` | types, what is taken for a zombie, dropped events, ownership and single dispatch in Dagster mode |
| `AlgorithmProofs` | every property of `Overrides`, `Hierarchy`, `NearDup`, `WebCrawl` and `Retrieval` |

### Documents: state

`status[d]` and `version[d]` are the row of a `doc_id`; a missing row has status `none`. `used` are
the ids generated so far: a source that is deleted and uploaded again gets a new id. `s3[source]` is
the version (the number of the upload) of the stored file, 0 for none. `chunks[d]` is the set of
file versions that Qdrant holds chunks of under that id; a correct ingest leaves exactly one. `queue`
and `delayed` are the Redis structures (the delay sets without their times: any part of them may be
ready). `loop` says what the event loop is in the middle of: a request handler or a poll, with the
document in its hands. `job[j]` is an asyncio task and its thread: program counter, document, and the
local variables a later step uses (`was`, the status read first by `delete_doc`; `ver`, the version
parsed; `dup`, the duplicate found).

`asked` and `overridden` are history variables. `asked[d]` is the last request accepted for a
document. `overridden` collects the sources whose row or chunks were changed by somebody other than
the owner of the work in flight: a force-fail or recover of running work, a dedup verdict on a
document that has changed since it was detected, or (with connectors) a sync thread or a deletion that
meets work of another. Most properties make no claim about those, since the code documents that
running work may overwrite an override; `ActiveIsOwned`, `RequestsSettle`, `FetchedIsOwned` and
`DagsterOwned` do.

### Documents: steps

One call to Postgres, S3, Qdrant or Redis is one step; two reads with nothing written between them
are one. While `loop.op # "idle"` no other handler, poll or new task can run, and threads can: that is
the atomicity asyncio gives this code. `_poll` is awaited directly by `start`, so a poll that
filled its quota is followed by the next one without the event loop being released (`NextList`).

Correspondence that is not one to one: `UploadBegin` is the single upload and each file of a batch
(the batch awaits each file's content, so its files interleave with other requests like separate
uploads). The `UniqueViolation` branch of the upload cannot be reached within one process, because
nothing is awaited between the lookup and the insert. `Take` is both pop loops. `set_failed` is two
steps, `Fail`/`SetFailed` in a thread and `FailPurge`/`FailMark` in a handler. In `Pipelines` dedup
bands and parent chunks follow the row and are abstracted; instead, detection may report any other
indexed document with any verdict. `NearDup` has the other half: there detection is exact and its
verdict one step.

`DocStatusFlow` has one action per change a client can see, and `Override` for documents of which
nothing is promised any more (`out`). `DocSystem` instantiates it as `Flow`, with the
documents of overridden sources for `out`, and `ImplementsFlow` states the refinement.

### Connectors

A sync, a cascade or the event loop of the API is a record of `task`: `Threads` are the slots of
background threads, `Api` is the handler that runs on the event loop. Its `pc` names the
call that comes next; `doc`, `seen`, `ver`, `file` and `listing` are the local variables of the fetch:
the version in the row that was read, the version to record, the version of the bytes, and what the
origin's API listed. `site[s]` is the current version at the origin, which `Edit` changes at any time,
between the listing and the download too. `flags` is the module-level set of `connectors/abort.py`, lost
at a restart. Two history variables say which syncs are no longer protected: `cut` are the threads somebody
asked to stop, `unlocked` those whose lock another sync's `finally` has released. `owner[d]` is
`documents.connector_id`, and `marked` the failed documents whose `last_error` is "Aborted", which the
next sync fetches even when the version has not changed.

The connectors differ in what they read first and in what an exception ends: `WebRow`,
`WebFetchError`, `WebSkip`, `WebUnchanged` and `WebChanged` against `GitHubRow`, `ConfluenceRow` and
`AttachmentRow`; `Raises` and `HookStops` follow each connector's `try` blocks. From `Put` on they agree. A
confluence page is followed by its attachments, listed in one batch when the page is done. `Intrude`
adds a document to `overridden` when a sync thread writes it while a pipeline, another thread or a cascade
has it, or while its own connector is being deleted; `Disturb` does so for aborts and cascades. `ConnectorSystem`
adds the worker and the pipelines unchanged.

`OneSync` is about syncs that are in neither of `cut` and `unlocked`. An aborted sync goes on to its next page
while a second one may start; when it ends it writes `idle` (`connectors.py:319`) over the lock of the second,
and a third starts beside the second, which nobody asked to stop. The run has two syncs and does not reach
the third; the theorem of section 4 does.

### Dagster mode

The sensor is a process of its own, so it has a loop state of its own: `sensor`. Its drain and its
enqueue functions are those of worker mode, reused with `INSTANCE QueueWorker WITH loop <- sensor` and
`INSTANCE DocsApi WITH loop <- sensor`. `requests` are the RunRequests of a tick, launched only when it
returns. A job slot is a run; `runId[d]` is what the row says. `again[r]` is a run whose op set the
document to failed and raised, so that the failure hook will do it again; `killed` are runs that were
terminated: Dagster marks them canceled at once (`MARK_AS_CANCELED_IMMEDIATELY`), so for the sensor and for the next
termination they are finished (`Active`), while their processes go on and stop at any later op or die (`Interrupted`); `setting` is a request of the API in the
middle of setting documents aside. Dagster itself (launching, terminating, failing a tick) is external
and modelled by what `infra/dagster_utils.py` and the sensor rely on.

### The cache

`entry`, `index` and `order` are the Redis keys `rag:cache:entry`, `rag:cache:kb` and
`rag:cache:order`; `timed` says which index has a TTL, since an index that `SADD` creates has none until
`EXPIRE`. A response is the version of each knowledge base it was computed from (`seen`). `search[s]` is
a request, `loop` the event loop, which a store, a lookup or an invalidation of the API holds from start
to end, and `inval[i]` an invalidation: of a pipeline thread, which runs next to all that, or of the
API. `done` (the version up to which a knowledge base has been invalidated), `since` (its value when a
request came in) and `tainted` are history. Of the documents the cache only needs that a knowledge base
changes, and that some changes (`set_indexed`, `delete_doc`, `delete_kb`) invalidate it and others
(`set_failed`, dedup verdicts) do not: a version number per knowledge base stands for them.

`tainted` and `clean` draw the line of what the code can promise. A search that retrieves while its
knowledge base is being invalidated may store what it read before; one whose retrieval fails stores an
incomplete response; an error in the middle of a store leaves an entry without its index. Those entries are
tainted until the key is stored anew. All others must be found by invalidation and eviction. The
bucket sets only serve the semantic scan, which may miss an entry anyhow, so `Hit` offers every entry of
the bucket. `invalidate_all` is one step: while it scans, only removals can happen.

### The algorithms

`MCAlgorithms` puts the five modules side by side; `part` says which one a behaviour runs.

* `Hierarchy`: a node is the path to it, so `Parent` is `Front`. `Rows` is the list of parent rows in the
  order they are inserted: level by level, and within a level as the nodes were made (`MadeBefore`). The ids
  `{doc_id}:{idx}` count the nodes in that order (`Number`). A behaviour is one retrieval: some leaves are
  hits, and each `Round` replaces the results of a parent by the parent when enough of its children are there. How
  many rounds there may be (`depth`) comes from the settings of the moment and need not fit the tree. What a round
  reads are the document's own rows (`Own`), none, or those of another version of the document under the same ids
  (`Seen`), since `upsert` deletes and saves the rows before it replaces the leaves. A `merge_threshold` of 0 is
  a value the settings admit: then one hit is enough.
* `WebCrawl`: a site is its links, its scope, its broken pages and the three limits. What a page links to is a
  set, and its new links are queued in one fixed order: which of them still fit an almost full queue is left out.
* `NearDup`: a hash is the set of its one bits, a signature a function of positions, a title a pair of
  what the fuzzy index tells apart and the rest, a text a set of parts. Ingests of several documents run
  side by side; a detection with its verdict is one step, since `Pipelines` models what happens between
  the two.
* `Retrieval`: chunks with scores in a few knowledge bases, one search in hybrid or similarity mode; a
  knowledge base is queried, or fails, in any order. Scores of rank fusion are integers in parts of `Unit`, which
  is fine enough to keep different ranks apart. A result has a *place*, its list and its rank in it, and Python's stable
  sort is `Arranged` (module `Sorting`): each element of a set goes where the number of elements before it says. `rrf_merge` sorts the
  first place of each chunk (`Firsts`), as its dictionary keeps the order in which keys were added.
* `Overrides`: two API processes; a PATCH writes key by key. Chunk size and overlap stand for themselves,
  because they are the fields whose validity depends on one another.

## 3. Runs

| Run | Instance | Shows |
|---|---|---|
| `DocLifecycle` | 1 source, 2 ids, 3 task slots, 2 workers, 3 uploads, 2 crashes, every kind of request, Qdrant may fail | `TypeOK`, `OneWorkItem`, `LastRequestWins`, `IndexedServesFile`, `WorkIsAsked`, `ImplementsFlow` |
| `Dedup` | 2 documents that may be judged duplicates, 2 uploads, delete and force-fail | `OwnershipInv` (the inductive invariant), `GoneServesNothing`, `ImplementsFlow` |
| `Settle` | 1 document, 1 upload, 1 override of running work, `FairSpec` | `ActiveIsOwned`, `RequestsSettle` |
| `Cache` | 2 knowledge bases, a query on one and a query on both, a cache of one entry, semantic mode, failing Redis calls and retrievals | `CacheInv` (the inductive invariant), `AnswersAreFresh`, `EntriesBounded` |
| `Connectors` | a web connector, 1 document, 2 threads, 2 syncs, 1 administrative request, 1 edit | `ConnTypeOK`, `OneSync`, `RunningIsLive`, `FetchedIsOwned`, `SyncedServesOrigin`, `DeletedStaysDeleted` |
| `Attachments` | a confluence page with an attachment, or two github files, 1 thread, 1 sync, 1 administrative request, 1 edit, 1 crash, Qdrant may fail | `SyncedServesOrigin`, `DeletedStaysDeleted` |
| `Sensor` | 1 document, 2 runs, 1 upload, 1 crash, 1 override, aborts | `SensorTypeOK`, `OneDispatch`, `DropIsCovered`, `DagsterOwned`, `ZombieWasTerminated` |
| `Algorithms` | each of the five over all inputs of a small family | the twelve properties of the five modules |
| `SoftDelete` | expected violation | `SoftDeleteKeepsFile` |
| `DedupOutdated` | expected violation | `OutdatedServesNothing` |
| `StaleAbort` | expected violation | `OnlyAskedSyncsStop` |
| `BandHoles` | expected violation | `IndexedIsBanded` |

### Bounds

`MaxUploads`, `MaxCrashes`, `MaxOverrides`, `MaxSyncs`, `MaxAdmin`, `MaxEdits` and `MaxChanges` bound
actions of the environment and stand in their guards. Deletes, reindexes, polls and retries are unbounded.

* Documents: one source with two ids is what is needed for an old and a new document of the same file;
  two sources are needed for dedup. Three task slots are never exhausted without overrides (a document
  has one job); with overrides the number of tasks is what `MaxOverrides` limits. `MaxPerPoll` is 1 so
  that the quota is hit and the poll repeats. Two workers suffice for two pipelines side by side.
* Connectors: two threads are two syncs, or a sync and a cascade; the second sync is what notices, or
  fails to notice, what the first left behind. One edit separates an old from a new version at every
  point of a fetch. `Attachments` adds what needs a second document, a crash and a failing Qdrant.
* Sensor: one document has a run, a requested run and an event at once; two run slots. `MaxQueued` keeps
  clients from asking for more while two events wait. `FewFaults` follows a behaviour beyond a
  crash and an override only while the document is running or in the sensor's hands, where they
  meet. `NoHistory` leaves `asked` out of the fingerprint, which no property of this run reads.
* Cache: each knowledge base changes once, which is enough for an old and a new response; requests are
  unbounded. Two keys and `max_entries` 1 make every second store evict. `FewTainted` cuts off one entry
  at a time. Concurrent searches and pipeline threads are covered by the proofs of section 4 only.
* Algorithms: trees of one, two and four levels above the leaves, one with two roots, with every choice of surviving
  leaves, four thresholds, 0 among them, and `max_depth` 0, too small, right and too large; rows of two other versions
  of the document at any round; four pages with two seeds, one configured twice, and limits that are hit and that are not;
  three documents with three texts, two of one body and a third close to them; five chunks in two knowledge
  bases with every assignment of two scores; all bodies over two keys. `FewExemptions` does not follow
  behaviours in which ingests both overlapped and failed; `Read` leaves out of the fingerprint a text and a `duplicate_of`
  that are not read any more, and the variables of the modules that do not run. Deadlock is not checked here: crawls, queries and merges end.

Job, run and thread slots are symmetric, except in the liveness run.

### Fairness

Threads make progress; a handler or poll that began is finished; asyncio gets round to the
worker's sleep and to tasks that wait for a permit, even if requests keep arriving (strong fairness of
`PollBegin` and `StartTask`); the database is not down at every single pop (strong fairness of `Take`
against `TakeError`). Nothing is assumed of clients and operators, and nothing repairs a crash, so the
liveness run has none: after a crash a row stays `running`, `deleting` or `uploading` until an operator
acts.

### What the expected violations say

* `SoftDelete`: `enqueue_delete_event` writes `pending` first, so `delete_doc` never sees
  `indexed`: the documented soft delete does not happen, each delete is a hard one.
* `DedupOutdated`: a document that is ingested again and judged identical to another becomes
  `outdated` with the chunks of its first ingest still in Qdrant, where search finds them.
* `StaleAbort`: after a restart a connector still says `running`. The manual recovery, an abort, sets it to
  `idle` and also registers an abort request, which only a finishing sync thread would clear. The next
  sync stops at its first page.
* `BandHoles`: bands are stored only by a detection that found no candidate. A title change won by the
  new document, or a `similar` refuted by the chunk comparison, leaves an indexed document without bands.

### Disagreements met that have no run

The exemptions of the properties mark these; each was seen in a model and belongs to a document, comment
or endpoint promise that is weaker than the ones above.

* Force-fail clears the upload list and its delay set only. A document pending for a delete becomes
  `failed` with the delete event still queued, and the worker deletes it later.
* Two ingests that both take over the chunks of one document by a title change: the second moves no
  chunk and is `indexed` all the same.
* A search that stores between an invalidation's read of the index and its deletion leaves an entry that
  the clear endpoint does not find.
* Stored overrides need not resolve: `PUT` stores nulls that were skipped by the validation, a `PATCH` is
  validated without the rows already stored, and other global settings may follow.
* `child_count` counts an ancestor without surviving leaves, which gets no row and so can never merge; its parent
  then needs more of its other children than the threshold says.
* A pipeline that outlives the deletion of its knowledge base creates the collection again.
* The SimHash threshold for similar documents (10) is above what four bands find for certain.
* A request that names a knowledge base twice gets its chunks twice in similarity mode.
* A finishing sync writes `active` over a pause, and clears the abort request of a second sync.
* A cascade purges a document's chunks and then sets it `deleted`. Between the two, a sync of another connector that
  reaches the same source may take the row over and have it indexed: the row then says `deleted` with chunks in
  Qdrant, and deleting the second connector, which skips `deleted` rows, leaves them to search. It takes two connectors, more
  than the runs have; the proof of `DeletedStaysDeleted` met it, and the property now exempts such a document.

* `duplicate-request-handling.md` §3.2 takes a run that the sensor finds finished for a zombie. It may be alive: a
  starting run is aborted, a new request is queued, and the canceled run's process still gets to `validate_op`
  and writes `running` and its run id. The sensor pops the new event, finds that run canceled, fails the document and dispatches
  a second run beside the living process. `ZombieWasTerminated` says that without a crash this is the only way.
* `known-issues.md` §8 and `duplicate-request-handling.md` §3.2 fear that an event dropped while a run has no id yet
  loses a change of content. `DropIsCovered` shows that for what clients and operators of the API can do it does not: a run
  that has not read the file is requested or there. The case that is left is a connector sync that stages a new version
  without the `is_active` check, and syncs are not composed with Dagster mode here.
* `parent-child-chunking.md` §7.7: `max_depth` is taken from the current `chunk_size`, so documents ingested under a longer list
  are merged fewer levels up than they have, and none when the setting is a number now. `WholeNodes` is
  defined with the `max_depth` of the query, and so says what such a query answers.
* `parent-child-chunking.md` §7.8: chunk ids are counted anew by each ingest, so during a re-ingest the old leaves may find the
  new rows under their parents' ids, with another `child_count` and `parent_id`, and be replaced by text they are not part
  of. `HitsKept` holds all the same: no hit is lost or counted twice. `MergesToWhole` makes no claim then (`replaced`).
* `connector-state-flow.md:107-112` says that deleting a connector removes the files and rows of its documents. The code sets the
  documents `deleted` and leaves the files. `DeletedStaysDeleted` is true of both.
* `known-issues.md` §4 (reindex without the `is_active` check) and §26 (a failed ingest keeps its old chunks) describe
  behaviour that the code no longer has: `reindex` has the check, and `set_failed` purges the chunks.

One more was met while reading and is below the level of the models: with `num_bands` 2 a band has 32 bits
and does not fit the signed `INTEGER` column of `simhash_bands`.

## 4. Proofs

`TypesHold` (`Spec => []TypeOK`) holds for any sets of documents, sources and task slots and any bounds.
`TypeOK` is not inductive alone: the step that pushes an event needs that the loop holds a document
when it pushes, and a verdict step that the job has recorded a duplicate. `Shape` adds exactly that.

`OneWorkItemHolds` is the main safety theorem. `OneWorkItem` says nothing about statuses, and is
not inductive: the guards of the code are on the status. `OwnershipInv` adds for each place that can
hold a document's work (list entry, loop, task) the statuses the document may have while it is there:
an entry goes with `pending`, an ingest task with `running`, a delete task with `pending` until
`set_deleting` and `deleting` after. Since a handler accepts only a document at rest, and a resting
status goes with no place at all, accepting one cannot create a second. A document that was overridden
is exempt, and stays so. `OwnershipHolds` proves it step by step, one lemma per component.

`Without`, the effect of `LREM`, keeps entries by rank; that it preserves the other entries and
creates none is proved through the injection `Rank`, without induction.

`FlowImplemented` is the refinement, `Spec => Flow!Spec`. `OwnershipInv` knows which status goes with
which place; the flow also needs the right request: `pending` may become `running` only when an ingest
was asked for. `WorkIsAsked` says so, and `AskedInv == OwnershipInv /\ WorkIsAsked` is inductive: a
crash leaves entries and tasks behind, but only those of the last accepted request
(`WorkIsAskedHolds`). Each action is then mapped: most steps write no status and leave `asked`
alone (`FlowQuiet`); the others write the status of one document and match one action of the flow
(`FlowStep`); a write for a document that was overridden is the flow's `Override` (`FlowHidden`), which
may also come with a document joining `out`. A pipeline may write two documents, its own and the
duplicate it retires; the verdict steps write one at a time.

`LastRequestWinsHolds` is proved where it is easy, on the abstract flow (`FlowKeepsOutcome`): there a
document at rest shows an outcome of what was asked after every action (`FlowOutcome`). `FlowImplemented` carries it over to
`DocSystem`, where it would need an account of every queue and program counter.

`CacheInvHolds` is the invariant of the cache, proved one lemma per action. `AnswersAreFresh` speaks of
answers only; what makes it true is that an untainted entry can be reached: it is in the index of each of its
knowledge bases, unless its own store has not got there yet, and every invalidation that has read the
index has it on its list (`Listed`). So when an invalidation deletes the index, no untainted entry
covers the knowledge base, and `done` may rise. Entries enter untainted only from a search that met
no invalidation (`Clean`), which is why it has read nothing older than `done`. `Bounded` counts the untainted
entries but the one being stored; at the end of a store they are all in an order that is short enough.
`AnswersAreFreshHolds` and `EntriesBoundedHolds` follow.

The assumptions are `StoreAssumption` (a source per id, positive worker and poll limits, natural
bounds), `ConnectorAssumption` and `OneDocPerSource` (natural bounds, the API's slot is no thread's; a `doc_id` per
source) and `CacheAssumption` (finitely many keys, each with at least one knowledge base, which the handler
checks; at least one entry allowed), evaluated by TLC in every run of those modules.

`IndexedServesFileHolds` and `GoneServesNothingHolds` follow a document through the stores. An account by
program counter says what a pipeline has done so far: from the read of the file to `set_indexed` the version it
holds is that of the stored file, because an upload is accepted only at rest; after `clear` there are no chunks, after
`insert` exactly those of the file; after the purge of a failure or delete none. `OneRow` (a row per source) keeps
another document of the source from changing the file. The first theorem assumes `~DedupOn`: a title change hands
chunks from one document to another, with no file of the other's behind them. The second assumes `~QdrantFails`: when Qdrant
is down `set_failed` swallows its purge. The runs have the same settings.

`ActiveIsOwnedHolds` makes no exception for overridden documents and so cannot use `OwnershipInv`. Its invariant,
`ActiveInv`, only says that somebody is there, whoever it is: a list, a delay set, a task, or the handler that is about to
push or to fail. In it, an upload that is stored over running work leaves that work in place.

**Connectors.** `ConnTypesHold` needs to know of a task which connector and document it holds at each program
counter (`TaskShape`). `LockInv` is the inductive form of `OneSync`: besides the pairs, a connector whose lock
is free has no sync that is neither cut nor unlocked, so a trigger, which needs a free lock, adds no bad pair.
`RunningIsLiveHolds` follows the lock the other way, from the row to the thread. `FetchedIsOwnedHolds` needs
what each task has in mind (`MindedInv`): `fetching` is accounted for by a task between its `set_fetching` and the
staging, a waiting or running document by its work or by a task that will push or fail it, and what an abort has
still to dequeue it has still to fail.

`DeletedStaysDeletedHolds` rests on `DelInv`, which says more of a document nobody overrode than that it has no
chunks: it is `Clean`, with neither work nor a thread that is staging it, so that nothing is on its way back either.
A `deleted` row is always clean. A cascade that has listed its documents (`Swept`) has each one its connector still
owns on its list, in hand or retired, so when it forgets the connector only retired ones become orphans; and from the
dropped collection on, `delete_kb` finds everything clean (`TornDown`). What a sync thread claims, it claims for a
connector that no cascade is after, or the document is marked (`ClaimGone`).

`SyncedServesOriginHolds` rests on `SyncInv`, an account of the versions a task, the row and the file agree on.
What a thread is about to record is no newer than the bytes it is about to store, whether these came with the
listing or are fetched at the origin when it stores them (`Fetched`): the origin only moves on. A thread stages what
nobody works on and what is not indexed (`Staged`), so between the two writes, `upload_object` and `set_staged`,
the row is older than the file and never newer. What has work in flight has a row no newer than its file and at most
one pipeline, which carries what the file holds (`InWork`, `OwnStepServes`). So what is indexed serves that file
(`Serving`), or nothing at all while a cascade has it between the chunks and the row or after a crash
there. The invariant is about an active knowledge base, which keeps its rows (`RowsKept`). The theorem assumes
`~DedupOn`, for the reason given above and as the runs have it, and cites `OneDocPerSource`: rows of connector
documents are deleted only with their knowledge base, so here a source never gets a second `doc_id`.

**Dagster mode.** The event list functions are those of worker mode written on the sensor's state, and the
lemmas about positions and pushes are those of `OwnershipProofs`. `RunInv` ties the row to the runs: a run id in a
`running` row is a run of that document past its first op, and a `running` row without one has a launch on its way. It
gives `DropIsCoveredHolds`, until a run has died (`crashes = 0`). `ZombieWasTerminatedHolds` says who is declared
a zombie until then: since a run that the row names is past its first op and ends by writing the row, only one that was
terminated is found finished, and its document had been overridden, so `OneDispatch` makes no claim of it. `WatchInv` is
the invariant of `DagsterOwnedHolds`. What makes it delicate are terminations: a run that was told to stop and has not
recorded itself ends without its hook, so it does not count as an owner (`Counts`), and the request that tells it
has by then failed the document. `OneDispatchHolds` rests on `DispatchInv`, the ownership invariant of this
mode: a document nobody overrode has one place, and its row shows which (pending for an event or one in the sensor's
hand, the status and run id of the run for a run). The row alone excludes a second dispatch: the sensor claims only a
pending document, and whoever may still write the row, a handler that has looked at it or a delete that is failing, meets
no place (`Apart`). A failing upload is a case of its own, since `validate_op` calls `set_failed` and then its failure
hook calls it again (`again`): in between a new request may be accepted, and the overridden document is then excepted.

**Algorithms.** `AcceptedTogetherHolds`: while one server writes an accepted body, the keys still to be written are exactly
those without a row (`Writing`). `HitsKeptHolds`: what the results of a round stand for is disjoint and together all
hits, since a parent takes over just what its children stood for. `CloseShareBandHolds` is the pigeonhole: a bit that differs in each band
would be an injection of the bands into the differing bits. `TwinsLeftIndexHolds`: unless ingests have met,
only one document is being written, and of documents with one hash whose detection is over at most one shares a
band. `RetiredForLivingHolds` is stated with a recursive function, the chain of `duplicate_of` from a retired document.
`RetiredInv` says without one that there is no cycle: every set of retired documents has one whose `duplicate_of`
leaves the set. A verdict retires one living document for another living one, which keeps that; and since in every step of the
chain one more document has left (`ChainEnds`), as many steps as there are documents are enough.
`FetchedOnceAtDistanceHolds` and `CrawlCompleteHolds` rest on `CrawlInv`: the queue is in the order of the depths and
holds two of them at most (`Ordered`), what was queued waits or was visited and what was visited in scope was fetched
once (`Accounted`), and until a full queue refused a link everything a fetched page links to is met, one step further
(`LinksMet`). Then `WithinIsMet`, an induction on the distance, says that when nothing closer than `k` waits every page
within `k` is met at no more than `k`: so the page at the head of the queue is not nearer than its depth says, and
with the queue empty nothing within `max_depth` is missing.

`RowsClosedHolds`: a row that is kept has a child, so its parent has one too: an ancestor counts as a child even when
it lost all of its own. Hence the parent is kept; the order in which nodes are made is total (`OneMadeFirst`, `MadeInOrder`), so
`ArrangedIs` gives each row its place, and a parent, one level above, has the earlier one.
`MergesToWholeHolds` compares the rounds with a recursive definition of the nodes that are whole. That this recursion
has a solution is an induction on the level (`WholeIs`), for any number of levels. `MergeInv` says what the results are after
the round for level `k` (`Answered`): the whole nodes of that level and, of those below, the ones whose parent is not whole. The group of a parent
then holds one result for each of its whole children (`GroupIsKids`), so it merges just when the parent is whole; and when
no group merges, nothing above is whole, so that stopping early loses nothing. A `max_depth` that is too small ends the rounds
where `WholeNodes` ends too (`WholeInReach`); with one that is too large, the round after the roots settles them and is the
last (`RoundAtTop`). A round that read the rows of another ingest is outside `MergeInv`, and inside `HitsInv`.

`FallbackIsPrefixHolds`, `LeftOutIsOutrankedHolds` and `FusionTakesTurnsHolds` rest on `RetrievalInv`: each list is of
its own knowledge base and names no chunk twice, the merge is that of the lists of all searches, and what the filter
keeps of it descends in score. The rest is about sorting. `ArrangedIs` shows that ranks by number of predecessors are
a bijection (an injection into as many places) and go with the order; `OrderIs` and `MergedIs` apply it to scores and places.
So what is left out has `top_k` places before it, which are of different chunks if places are (`PlacesDiffer`), and sorting
again what descends changes nothing (`SortedKept`). A chunk that one list only has found is worth what its rank is
worth (`FusedOnce`, an induction over the lists), and for equal ranks the places decide: hence the turns.

The assumptions are `OverrideBounds` (the global settings validate, as they must for the server to
start; bodies name fields), `DedupSettings` (documents are finitely many, bits, bands and distances are natural numbers, there is a band,
and hashes are sets of bits), `SiteOK` (seeds are URLs, limits are natural numbers, a page has finitely many links),
`TreesAreLevel` (a tree is finite, has the parents of its nodes, and its leaves have one depth, below the root: `chunk_size` is
a list of two or more sizes, and every level is split), `HierBounds` (`merge_threshold` and `max_depth` are not negative, and what a
re-ingest makes of a document is a tree too) and `RetrievalBounds` (chunks are finitely many, those of one
knowledge base have different numbers, which Qdrant orders equals by, limits are natural numbers, and `Unit` tells the
ranks up to `top_k` apart as `1 / (k + rank)` does).

**Model-checked only.** `RequestsSettle`, which is liveness under fairness. All other properties of the passing
runs are proved. Inductions over numbers are made with `NumbersByStep` in `AlgorithmProofs`, which speaks of a set of
numbers: the library's induction theorems take a predicate as a parameter, which the provers cannot instantiate.

## 5. Not modelled

* Postgres and Redis failing inside a pipeline or handler (only the worker's and the sensor's own
  handling of a database error is); malformed events, which the consumers skip.
* Several API processes behind one Redis (only for overrides, where the code mentions it), and the cache
  gate hook.
* Of Dagster: `dedup_job`, the connector sync job and the schedules. The sync job calls the same
  connectors, but its mutual exclusion is Dagster's own.
* Schedules, masking, encryption and validation of connector configurations.
* Hash functions, tokenizers, embeddings, hybrid weights, text, formats and everything the properties do
  not tell apart. Parsers, tracing, logging, credentials and the MCP tools have no state of interest.

## 6. Plan

1. Liveness of connectors and of Dagster mode: a triggered sync ends, an accepted event is dispatched.
2. The connector sync job and the schedules of Dagster mode next to the API's own sync threads.
3. Two API processes: the event loops exclude nothing any more, and `UniqueViolation` becomes reachable.
