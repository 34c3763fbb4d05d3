------------------------------ MODULE ConnectorSync ------------------------------
(***************************************************************************)
(* A manual sync: _run_sync of api/routers/connectors.py, and under it the  *)
(* sync methods of the three connectors as background threads, one call to  *)
(* Postgres, Redis or S3 per step.  A GET of the origin reads only the      *)
(* origin and is one step with the call that follows it.  Which links a     *)
(* crawl finds and which pages its filters skip is left free: module        *)
(* WebCrawl has the crawl.                                                  *)
(***************************************************************************)
EXTENDS ConnectorStore

Pages == {d \in DocIds : AttachedTo[d] = NoDoc}
Attachments(d) == {a \in DocIds : AttachedTo[a] = d}

Aborted(t) == Owner(t) \in flags
\* The stored version counts unless the row is deleted or was failed by an abort.
Stored(d) == IF status[d] \in {"none", "deleted"} \/ (status[d] = "failed" /\ d \in marked)
             THEN 0 ELSE version[d]
After(t) == IF Type(t) = "confluence" THEN "attach" ELSE "page"

others == <<quiet, syncs, admin>>
unread == <<rows, s3, chunks, redis, overridden, tables, aborts, others>>

\* web: the seeds; github: _iter_blobs; confluence: _iter_pages with the bodies, in
\* one batch.  The two APIs may fail, which ends the sync.
List(t) ==
  /\ Pc(t) = "list"
  /\ \/ task' = [task EXCEPT ![t].pc = "page", ![t].todo = Pages,
                   ![t].listing = [d \in DocIds |-> IF Type(t) = "web" \/ d \notin Pages THEN 0
                                                  ELSE site[SourceOf[d]]]]
     \/ Type(t) # "web" /\ Jump(t, "error")
  /\ UNCHANGED unread

\* The loop of sync: stop at an abort request or at the end, or take a page.
NextPage(t) ==
  /\ Pc(t) = "page"
  /\ IF Aborted(t) \/ task[t].todo = {} THEN Jump(t, "finish")
     ELSE \E d \in task[t].todo :
            task' = [task EXCEPT ![t].pc = "row", ![t].doc = d, ![t].todo = @ \ {d},
                                 ![t].sub = Attachments(d)]
  /\ UNCHANGED unread

\* _process_page_attachments: they are listed when the page is done.  Listing them
\* may fail; then the rest is skipped.  Only Confluence has attachments.
ListedVersion(t, a) == IF a \in task[t].sub /\ task[t].listing[a] = 0 THEN site[SourceOf[a]]
                ELSE task[t].listing[a]
NextAttachment(t) ==
  /\ Pc(t) = "attach"
  /\ \/ \E d \in task[t].sub :
          task' = [task EXCEPT ![t].pc = "row", ![t].doc = d, ![t].sub = @ \ {d},
                               ![t].listing = [a \in DocIds |-> ListedVersion(t, a)]]
     \/ task' = [task EXCEPT ![t].pc = "page", ![t].sub = {}]
  /\ UNCHANGED unread

-----------------------------------------------------------------------------
(* web.py: the row is read first, then the page is always fetched. *)

WebRow(t) ==
  /\ Pc(t) = "row" /\ Type(t) = "web"
  /\ task' = [task EXCEPT ![t].pc = "fetch", ![t].new = ~HasRow(Page(t)),
                          ![t].seen = Stored(Page(t))]
  /\ UNCHANGED unread

\* The GET fails: the row read before decides between INSERT and UPDATE.
WebFetchError(t) ==
  /\ Pc(t) = "fetch"
  /\ \/ /\ task[t].new /\ MayCreate(Page(t), Owner(t))
        /\ CreateDoc(Page(t), Owner(t), "failed")
     \/ /\ ~task[t].new /\ MayAssign(Page(t), Owner(t))
        /\ Assign(Page(t), Owner(t), "failed")
        /\ marked' = marked \ {Page(t)}
  /\ Intrude(t, Page(t))
  /\ NextItem(t, "page")
  /\ UNCHANGED <<s3, chunks, redis, kb, conn, aborts, others>>

\* Not HTML, a seed or pagination page, or too little content.
WebSkip(t) ==
  /\ Pc(t) = "fetch"
  /\ NextItem(t, "page")
  /\ UNCHANGED unread

\* The ETag, or the hash of the content, is the stored one: at most the title and
\* the owner are updated.
WebUnchanged(t) ==
  /\ Pc(t) = "fetch"
  /\ task[t].seen = site[SourceOf[Page(t)]]
  /\ MayAssign(Page(t), Owner(t))
  /\ owner' = IF HasRow(Page(t)) THEN [owner EXCEPT ![Page(t)] = Owner(t)] ELSE owner
  /\ Override(Page(t), Late(t))
  /\ NextItem(t, "page")
  /\ UNCHANGED <<rows, s3, chunks, redis, kb, conn, marked, aborts, others>>

WebChanged(t) ==
  /\ Pc(t) = "fetch"
  /\ LET now == site[SourceOf[Page(t)]] IN
       /\ task[t].seen # now
       /\ task' = [task EXCEPT ![t].pc = "mark", ![t].seen = 0, ![t].ver = now, ![t].file = now]
  /\ UNCHANGED unread

-----------------------------------------------------------------------------
(* github.py: the listed sha is compared before anything is downloaded. *)

GitHubRow(t) ==
  /\ Pc(t) = "row" /\ Type(t) = "github"
  /\ \/ NextItem(t, "page")                       \* too large
     \/ /\ Stored(Page(t)) = task[t].listing[Page(t)]
        /\ NextItem(t, "page")                    \* unchanged
     \/ /\ Stored(Page(t)) # task[t].listing[Page(t)]
        /\ task' = [task EXCEPT ![t].pc = "mark", ![t].new = ~HasRow(Page(t)),
                                ![t].ver = task[t].listing[Page(t)]]
  /\ UNCHANGED unread

\* confluence.py, a page: its body came with the listing.
ConfluenceRow(t) ==
  /\ Pc(t) = "row" /\ Type(t) = "confluence" /\ Page(t) \in Pages
  /\ \/ NextItem(t, "page")                       \* too deep, or excluded by label
     \/ /\ Stored(Page(t)) = task[t].listing[Page(t)]
        /\ NextItem(t, "attach")
     \/ LET listed == task[t].listing[Page(t)] IN
          /\ Stored(Page(t)) # listed
          /\ task' = [task EXCEPT ![t].pc = "mark", ![t].new = ~HasRow(Page(t)),
                                  ![t].ver = listed, ![t].file = listed]
  /\ UNCHANGED unread

\* confluence.py, an attachment: listed with its version, downloaded later.
AttachmentRow(t) ==
  /\ Pc(t) = "row" /\ Type(t) = "confluence" /\ Page(t) \notin Pages
  /\ \/ NextItem(t, "attach")                     \* unsupported, too large or unchanged
     \/ /\ Stored(Page(t)) # task[t].listing[Page(t)]
        /\ task' = [task EXCEPT ![t].pc = "mark", ![t].new = ~HasRow(Page(t)),
                                ![t].ver = task[t].listing[Page(t)]]
  /\ UNCHANGED unread

-----------------------------------------------------------------------------
(* What the three have in common from here on. *)

\* An exception while a row is created or claimed (the hook's, a broken foreign
\* key, a row that appeared since): github skips the file, confluence the
\* attachment; for a page it ends the sync.
Raise(t) ==
  CASE Type(t) = "github" -> NextItem(t, "page")
    [] Type(t) = "confluence" /\ Page(t) \notin Pages -> NextItem(t, "attach")
    [] OTHER -> Jump(t, "error")

\* create_doc after the BeforeDocCreate hook, or set_fetching, which does not
\* ask whether the document is active.
Mark(t) ==
  /\ Pc(t) = "mark"
  /\ \/ task[t].new /\ MayCreate(Page(t), Owner(t)) /\ CreateDoc(Page(t), Owner(t), "fetching")
     \/ /\ ~task[t].new /\ MayAssign(Page(t), Owner(t))
        /\ Assign(Page(t), Owner(t), "fetching") /\ UNCHANGED marked
  /\ Intrude(t, Page(t))
  /\ task' = [task EXCEPT ![t].pc = "put", ![t].new = FALSE]
  /\ UNCHANGED <<s3, chunks, redis, kb, conn, aborts, others>>

Raises(t) ==
  /\ Pc(t) \in {"fetch", "mark"}
  /\ Raise(t)
  /\ UNCHANGED unread

\* The hook stops the sync; github and attachments treat it like any exception.
HookStops(t) ==
  /\ Pc(t) = "mark" /\ task[t].new
  /\ Type(t) = "web" \/ (Type(t) = "confluence" /\ Page(t) \in Pages)
  /\ Jump(t, "idle")
  /\ UNCHANGED unread

\* The download (github, attachments) and upload_object.
Put(t) ==
  /\ Pc(t) = "put"
  /\ LET bytes == IF task[t].file = 0 THEN site[SourceOf[Page(t)]] ELSE task[t].file IN
       s3' = [s3 EXCEPT ![SourceOf[Page(t)]] = bytes]
  /\ Intrude(t, Page(t))
  /\ task' = [task EXCEPT ![t].pc = "stage", ![t].file = 0]
  /\ UNCHANGED <<rows, chunks, redis, tables, aborts, others>>

\* Either fails: set_fetch_failed keeps version, file and chunks.
PutFails(t) ==
  /\ Pc(t) = "put"
  /\ UpdateStatus(Page(t), "failed")
  /\ marked' = marked \ {Page(t)}
  /\ Intrude(t, Page(t))
  /\ NextItem(t, After(t))
  /\ UNCHANGED <<version, used, s3, chunks, redis, kb, conn, owner, aborts, others>>

\* Mutant: the new version is not recorded with the file.
StageUnversioned(t) ==
  /\ Pc(t) = "stage"
  /\ UpdateStatus(Page(t), "pending")
  /\ version' = [version EXCEPT ![Page(t)] = site[SourceOf[Page(t)]]]
  /\ marked' = marked \ {Page(t)}
  /\ Intrude(t, Page(t))
  /\ task' = [task EXCEPT ![t].pc = "enqueue", ![t].ver = 0]
  /\ UNCHANGED <<used, s3, chunks, redis, kb, conn, owner, aborts, others>>

\* set_staged.
Stage(t) ==
  /\ Pc(t) = "stage"
  /\ UpdateStatus(Page(t), "pending")
  /\ version' = IF HasRow(Page(t)) THEN [version EXCEPT ![Page(t)] = task[t].ver] ELSE version
  /\ marked' = marked \ {Page(t)}
  /\ Intrude(t, Page(t))
  /\ task' = [task EXCEPT ![t].pc = "enqueue", ![t].ver = 0]
  /\ UNCHANGED <<used, s3, chunks, redis, kb, conn, owner, aborts, others>>

\* enqueue_upload_event, on the sync thread.
SyncEnqueue(t) ==
  /\ Pc(t) = "enqueue"
  /\ CASE status[Page(t)] \in {"none", "deleted"} -> NextItem(t, After(t))
       [] status[Page(t)] \in {"running", "deleting"} -> Jump(t, "push")
       [] OTHER -> Jump(t, "setPending")
  /\ UNCHANGED unread

SyncPending(t) ==
  /\ Pc(t) = "setPending"
  /\ UpdateStatus(Page(t), "pending")
  /\ marked' = marked \ {Page(t)}
  /\ Intrude(t, Page(t))
  /\ Jump(t, "push")
  /\ UNCHANGED <<version, used, s3, chunks, redis, kb, conn, owner, aborts, others>>

\* Mutant: the event is not pushed.
SyncPushNothing(t) ==
  /\ Pc(t) = "push"
  /\ Intrude(t, Page(t))
  /\ NextItem(t, After(t))
  /\ UNCHANGED <<rows, s3, chunks, redis, tables, aborts, others>>

SyncPush(t) ==
  /\ Pc(t) = "push"
  /\ queue' = [queue EXCEPT !["upload"] = Append(@, [id |-> Page(t), force |-> FALSE])]
  /\ Intrude(t, Page(t))
  /\ NextItem(t, After(t))
  /\ UNCHANGED <<rows, s3, chunks, delayed, tables, aborts, others>>

-----------------------------------------------------------------------------
(* _run_sync after _dispatch_sync returned or raised. *)

SetSync(c, s) == conn' = [conn EXCEPT ![c].sync = IF Exists(c) THEN s ELSE @]
SetConn(c, st) == conn' = [conn EXCEPT ![c].st = IF Exists(c) THEN st ELSE @]

\* An aborted sync does not wait and does not touch the connector's status.
Finish(t) ==
  /\ Pc(t) = "finish"
  /\ Jump(t, IF Aborted(t) THEN "idle" ELSE "wait")
  /\ UNCHANGED unread

\* _wait_for_indexing only reads, until none of the connector's documents is
\* unfinished or for 30 minutes, so it may end at any time; then the status is
\* written, whatever it has become.
MarkActive(t) ==
  /\ Pc(t) = "wait"
  /\ SetConn(Owner(t), "active")
  /\ Jump(t, "idle")
  /\ UNCHANGED <<rows, s3, chunks, redis, overridden, kb, owner, marked, aborts, others>>

\* Mutant: an exception passes by the finally block.
ErrorKeepsLock(t) ==
  /\ Pc(t) = "error"
  /\ IF Aborted(t) THEN UNCHANGED conn ELSE SetConn(Owner(t), "error")
  /\ Jump(t, "clear")
  /\ UNCHANGED <<rows, s3, chunks, redis, overridden, kb, owner, marked, aborts, others>>

SyncError(t) ==
  /\ Pc(t) = "error"
  /\ IF Aborted(t) THEN UNCHANGED conn ELSE SetConn(Owner(t), "error")
  /\ Jump(t, "idle")
  /\ UNCHANGED <<rows, s3, chunks, redis, overridden, kb, owner, marked, aborts, others>>

\* Mutant: the failure is written to sync_status.
SetSyncError(t) ==
  /\ Pc(t) = "idle"
  /\ SetSync(Owner(t), "error")
  /\ Jump(t, "clear")
  /\ UNCHANGED <<rows, s3, chunks, redis, overridden, kb, owner, marked, aborts, others>>

SetIdle(t) ==
  /\ Pc(t) = "idle"
  /\ SetSync(Owner(t), "idle")
  /\ unlocked' = (unlocked \cup Syncing(Owner(t))) \ {t}
  /\ Jump(t, "clear")
  /\ UNCHANGED <<rows, s3, chunks, redis, overridden, kb, owner, marked, flags, cut, others>>

\* clear_abort, whoever the request was meant for.
ClearAbort(t) ==
  /\ Pc(t) = "clear"
  /\ flags' = flags \ {Owner(t)}
  /\ task' = [task EXCEPT ![t] = FreeTask]
  /\ cut' = cut \ {t}
  /\ UNCHANGED unlocked
  /\ UNCHANGED <<rows, s3, chunks, redis, overridden, tables, others>>

SyncStep(t) ==
  \/ List(t) \/ NextPage(t) \/ NextAttachment(t)
  \/ WebRow(t) \/ WebFetchError(t) \/ WebSkip(t) \/ WebUnchanged(t) \/ WebChanged(t)
  \/ GitHubRow(t) \/ ConfluenceRow(t) \/ AttachmentRow(t)
  \/ Mark(t) \/ Raises(t) \/ HookStops(t) \/ Put(t) \/ PutFails(t) \/ Stage(t)
  \/ SyncEnqueue(t) \/ SyncPending(t) \/ SyncPush(t)
  \/ Finish(t) \/ MarkActive(t) \/ SyncError(t) \/ SetIdle(t) \/ ClearAbort(t)
=============================================================================
