----------------------------- MODULE ConnectorStore -----------------------------
(***************************************************************************)
(* What the connectors add to the shared state: the knowledge base and the  *)
(* connector rows (Postgres), the connector that owns a document, the       *)
(* origin it is fetched from, and in the server process the registry of     *)
(* abort requests (connectors/abort.py) and the background tasks.  Rows of  *)
(* connector documents are never deleted one by one here, so a document     *)
(* stands for its source: one doc_id per source.                            *)
(***************************************************************************)
EXTENDS DocsApi, QueueWorker, Pipelines

CONSTANTS
  Conns,       \* every connector_id that will ever be generated
  NoConn,      \* stands for a NULL connector_id
  Threads,     \* slots for the background tasks of the API
  Api,         \* the handler that occupies the event loop, as one more slot
  AttachedTo,  \* Confluence: the page a document is attached to, NoDoc for a page
  Types,       \* bound: the source types of the connectors created
  MaxSyncs,    \* bound: manual syncs that are triggered
  MaxAdmin,    \* bound: aborts, patches and deletions
  MaxEdits     \* bound: changes of documents at their origin

ASSUME ConnectorAssumption ==
  /\ NoConn \notin Conns
  /\ Api \notin Threads
  /\ AttachedTo \in [DocIds -> DocIds \cup {NoDoc}]
  /\ Types \subseteq {"web", "github", "confluence"}
  /\ MaxSyncs \in Nat
  /\ MaxAdmin \in Nat
  /\ MaxEdits \in Nat

ASSUME OneDocPerSource == \A d, e \in DocIds : SourceOf[d] = SourceOf[e] => d = e

VARIABLES
  kb,       \* knowledge_bases.status, "none" when there is no row
  conn,     \* the connectors table: source_type, status, sync_status
  owner,    \* documents.connector_id
  marked,   \* the failed documents whose last_error says "Aborted"
  site,     \* the version of a document at its origin
  flags,    \* _abort_set
  task,     \* the background tasks and the handler
  syncs,    \* how many syncs were triggered
  admin,    \* how many aborts, patches and deletions were accepted
  edits,    \* how many times an origin changed
  cut,      \* history: the tasks whose sync somebody asked to abort
  unlocked  \* history: the tasks whose sync lock the end of another sync released

tables   == <<kb, conn, owner, marked>>
aborts   == <<flags, cut, unlocked>>
bounds   == <<syncs, admin, edits>>
connVars == <<tables, aborts, bounds, site, task>>
\* What no sync thread and no handler of this module touches.
quiet    == <<loop, job, counters, asked, site, edits>>
allVars  == <<vars, connVars>>

SourceType == {"web", "github", "confluence"}
Conn == [type : SourceType, st : {"none", "active", "paused", "error", "deleting", "gone"},
         sync : {"idle", "running"}]

SyncPC    == {"list", "page", "row", "fetch", "mark", "put", "stage", "enqueue",
              "setPending", "push", "attach", "finish", "wait", "error",
              "idle", "clear"}
AbortPC   == {"abort", "abortPurge", "abortMark"}
CascadePC == {"cascade", "docs", "chunks", "retire"} \cup AbortPC
ApiPC     == {"flag", "abortDocs", "collection", "prefix", "meta"} \cup AbortPC

\* pc and back: where the task is, and where abort_active_ingest returns to;
\* doc, seen, ver, file: the document being fetched, the version its row had if
\* that counts, the version to record and the version of the bytes;
\* todo, sub: pages, or documents to abort or delete; attachments of the page;
\* listing: the versions the origin's API listed.
Task == [pc : {"free"} \cup SyncPC \cup CascadePC \cup ApiPC, back : {"free", "docs", "collection"},
         conn : Conns \cup {NoConn}, doc : DocIds \cup {NoDoc}, new : BOOLEAN,
         seen : Nat, ver : Nat, file : Nat,
         todo : SUBSET DocIds, sub : SUBSET DocIds, listing : [DocIds -> Nat]]
FreeTask == [pc |-> "free", back |-> "free", conn |-> NoConn, doc |-> NoDoc, new |-> FALSE,
             seen |-> 0, ver |-> 0, file |-> 0,
             todo |-> {}, sub |-> {}, listing |-> [d \in DocIds |-> 0]]

\* The connector tables, tasks and flags hold what the code puts into them.
ConnTypeOK ==
  /\ kb \in {"none", "active", "deleting"}
  /\ conn \in [Conns -> Conn]
  /\ owner \in [DocIds -> Conns \cup {NoConn}]
  /\ marked \subseteq DocIds
  /\ site \in [Sources -> Nat]
  /\ flags \subseteq Conns
  /\ task \in [Threads \cup {Api} -> Task]
  /\ cut \subseteq Threads
  /\ unlocked \subseteq Threads
  /\ {syncs, admin, edits} \subseteq Nat

ConnInit ==
  /\ kb = "active"
  /\ conn = [c \in Conns |-> [type |-> "web", st |-> "none", sync |-> "idle"]]
  /\ owner = [d \in DocIds |-> NoConn]
  /\ marked = {}
  /\ site = [s \in Sources |-> 1]
  /\ flags = {}
  /\ task = [t \in Threads \cup {Api} |-> FreeTask]
  /\ syncs = 0 /\ admin = 0 /\ edits = 0
  /\ cut = {}
  /\ unlocked = {}

-----------------------------------------------------------------------------
Pc(t)       == task[t].pc
Page(t)     == task[t].doc
Owner(t)    == task[t].conn
Type(t)     == conn[Owner(t)].type
Jump(t, pc) == task' = [task EXCEPT ![t].pc = pc]
\* The item is done: on to the attachments of the page, or to the next page.
NextItem(t, pc) ==
  task' = [task EXCEPT ![t] = [@ EXCEPT !.pc = pc, !.doc = NoDoc, !.new = FALSE,
                                        !.seen = 0, !.ver = 0, !.file = 0]]

Exists(c) == conn[c].st \notin {"none", "gone"}
\* The threads whose sync has not written its end yet.
Syncing(c) == {t \in Threads : Owner(t) = c /\ Pc(t) \in SyncPC \ {"clear"}}

\* INSERT and UPDATE of connector_id check the foreign key, INSERT also that the
\* source has no row yet; either raises.
MayCreate(d, c) == ~HasRow(d) /\ Exists(c)
MayAssign(d, c) == HasRow(d) => Exists(c)

\* create_doc.
CreateDoc(d, c, st) ==
  /\ status' = [status EXCEPT ![d] = st]
  /\ version' = [version EXCEPT ![d] = 0]
  /\ used' = used \cup {d}
  /\ owner' = [owner EXCEPT ![d] = c]
  /\ marked' = marked \ {d}

\* update_doc_fields with a connector_id.
Assign(d, c, st) ==
  /\ UpdateStatus(d, st)
  /\ owner' = IF HasRow(d) THEN [owner EXCEPT ![d] = c] ELSE owner
  /\ UNCHANGED <<version, used>>

\* A sync thread goes on although its connector or its knowledge base is being
\* deleted (it was aborted and has not noticed, or was triggered in between).
Late(t) ==
  \/ kb # "active" \/ ~Exists(Owner(t))
  \/ \E u \in Threads : Owner(u) = Owner(t) /\ Pc(u) \in CascadePC

\* Two threads, or a thread and a pipeline, work on one document.
Shared(t, d) ==
  HasWork(d) \/ \E u \in Threads \ {t} : Page(u) = d /\ Pc(u) \in SyncPC

Disturb(t, d) == Override(d, Shared(t, d))
\* A write of a sync thread, over whatever else goes on with the document, be it
\* its deletion between the chunks and the row.
Intrude(t, d) ==
  Override(d, Late(t) \/ Shared(t, d) \/ \E u \in Threads : Page(u) = d /\ Pc(u) = "retire")
=============================================================================
