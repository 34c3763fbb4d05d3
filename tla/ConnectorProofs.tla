----------------------------- MODULE ConnectorProofs -----------------------------
(***************************************************************************)
(* What holds of ConnectorSystem for every number of connectors, documents, *)
(* threads, jobs and requests: the types of the shared tables, of the       *)
(* connector tables and of the tasks, that sync_status is a lock, that no   *)
(* document is left behind while it is fetched, that what is deleted stays  *)
(* deleted, and that a synced document is served as its file is stored.     *)
(***************************************************************************)
EXTENDS ConnectorSystem, ServesProofs

Slots  == Threads \cup {Api}
TaskPC == {"free"} \cup SyncPC \cup CascadePC \cup ApiPC

\* Where a task holds a document.
DocPC == {"row", "fetch", "mark", "put", "stage", "enqueue", "setPending", "push",
          "abortMark", "retire"}

\* A task that is past its start knows its connector, and a thread is never
\* inside a handler.
TaskShape(t) ==
  /\ Pc(t) \in DocPC => Page(t) \in DocIds
  /\ Pc(t) \in SyncPC \cup (CascadePC \ AbortPC) => t \in Threads /\ Owner(t) \in Conns
  /\ Pc(t) \in ApiPC \ AbortPC => t = Api
  /\ Pc(t) = "flag" => Owner(t) \in Conns
  /\ Pc(t) \in AbortPC /\ task[t].back = "docs" => t \in Threads /\ Owner(t) \in Conns
  /\ Pc(t) \in AbortPC /\ task[t].back = "collection" => t = Api

TasksShape == \A t \in Slots : TaskShape(t)

ConnShape == TypeOK /\ Shape /\ ConnTypeOK /\ TasksShape

-----------------------------------------------------------------------------
(* The task records. *)

\* A task is a record whose fields have the types of ConnTypeOK.
LEMMA TaskTyped ==
  ASSUME ConnTypeOK, NEW t \in Slots
  PROVE  /\ task[t] \in Task
         /\ task[t].pc \in TaskPC /\ task[t].back \in {"free", "docs", "collection"}
         /\ task[t].conn \in Conns \cup {NoConn} /\ task[t].doc \in DocIds \cup {NoDoc}
         /\ task[t].new \in BOOLEAN /\ task[t].seen \in Nat /\ task[t].ver \in Nat
         /\ task[t].file \in Nat /\ task[t].todo \in SUBSET DocIds /\ task[t].sub \in SUBSET DocIds
         /\ task[t].listing \in [DocIds -> Nat]
<1>1. task[t] \in Task
  BY DEF ConnTypeOK, Slots
<1> QED
  BY <1>1 DEF Task, TaskPC

\* One task is written, the others are not.
Writes(t, r) ==
  /\ task' \in [Slots -> Task] /\ task'[t] = r
  /\ \A u \in Slots \ {t} : task'[u] = task[u]

\* Replacing one entry of the tasks by a task writes that task and no other.
LEMMA TaskWritten ==
  ASSUME ConnTypeOK, NEW t \in Slots, NEW r \in Task, task' = [task EXCEPT ![t] = r]
  PROVE  Writes(t, r)
BY DEF ConnTypeOK, Slots, Writes

\* A jump changes where the task stands and nothing else of it.
LEMMA JumpEffect ==
  ASSUME ConnTypeOK, NEW t \in Slots, NEW pc \in TaskPC, Jump(t, pc)
  PROVE  /\ Writes(t, task'[t])
         /\ task'[t].pc = pc /\ task'[t].conn = task[t].conn /\ task'[t].doc = task[t].doc
         /\ task'[t].todo = task[t].todo /\ task'[t].sub = task[t].sub
         /\ task'[t].new = task[t].new /\ task'[t].listing = task[t].listing
<1> DEFINE r == [task[t] EXCEPT !.pc = pc]
<1>1. r \in Task /\ r.pc = pc /\ r.conn = task[t].conn /\ r.doc = task[t].doc
      /\ r.todo = task[t].todo /\ r.sub = task[t].sub
      /\ r.new = task[t].new /\ r.listing = task[t].listing
  BY TaskTyped DEF Task, TaskPC
<1>2. task' = [task EXCEPT ![t] = r]
  BY DEF Jump
<1> HIDE DEF r
<1>3. Writes(t, r)
  BY <1>1, <1>2, TaskWritten
<1> QED
  BY <1>1, <1>3 DEF Writes

\* Going on to the next item forgets the document, and keeps the connector and what is left to do.
LEMMA NextItemEffect ==
  ASSUME ConnTypeOK, NEW t \in Slots, NEW pc \in TaskPC, NextItem(t, pc)
  PROVE  /\ Writes(t, task'[t])
         /\ task'[t].pc = pc /\ task'[t].conn = task[t].conn /\ task'[t].doc = NoDoc
         /\ task'[t].todo = task[t].todo /\ task'[t].sub = task[t].sub
         /\ task'[t].file = 0 /\ task'[t].listing = task[t].listing
<1> DEFINE r == [task[t] EXCEPT !.pc = pc, !.doc = NoDoc, !.new = FALSE,
                                !.seen = 0, !.ver = 0, !.file = 0]
<1>1. r \in Task /\ r.pc = pc /\ r.conn = task[t].conn /\ r.doc = NoDoc
      /\ r.todo = task[t].todo /\ r.sub = task[t].sub
      /\ r.file = 0 /\ r.listing = task[t].listing
  BY TaskTyped, ZenonT(60) DEF Task, TaskPC
<1>2. task' = [task EXCEPT ![t] = r]
  BY DEF NextItem
<1> HIDE DEF r
<1>3. Writes(t, r)
  BY <1>1, <1>2, TaskWritten
<1> QED
  BY <1>1, <1>3 DEF Writes

\* A free slot is a task.
LEMMA FreeTaskTyped == FreeTask \in Task
BY DEF FreeTask, Task

\* A step of a sync thread: it stays in the sync, lets the lock go only when it
\* has ended, and knows its document while it works on it.
SyncMoves(t) ==
  /\ Writes(t, task'[t])
  /\ \/ ClearAbort(t) /\ task'[t] = FreeTask
     \/ /\ ~ClearAbort(t)
        /\ task'[t].conn = task[t].conn /\ task'[t].pc \in SyncPC
        /\ task'[t].pc = "clear" => SetIdle(t)
        /\ task'[t].pc \in DocPC => task'[t].doc \in DocIds

\* A step of a sync keeps it a sync of its connector, unless it is its last.
LEMMA SyncStepMoves ==
  ASSUME ConnShape, NEW t \in Threads, SyncStep(t)
  PROVE  SyncMoves(t) /\ Pc(t) \in SyncPC /\ Owner(t) \in Conns
<1>0. TypeOK /\ ConnTypeOK /\ t \in Slots /\ TaskShape(t)
  BY DEF ConnShape, TasksShape, Slots
<1>1. Pc(t) \in SyncPC
  BY DEF SyncStep, List, NextPage, NextAttachment, WebRow, WebFetchError, WebSkip, WebUnchanged,
         WebChanged, GitHubRow, ConfluenceRow, AttachmentRow, Mark, Raises, HookStops, Put, PutFails,
         Stage, SyncEnqueue, SyncPending, SyncPush, Finish, MarkActive, SyncError, SetIdle, ClearAbort,
         SyncPC
<1>2. Owner(t) \in Conns
  BY <1>0, <1>1 DEF TaskShape, Owner
<1> SUFFICES SyncMoves(t)
  BY <1>1, <1>2
<1>d. Pc(t) \in DocPC => Page(t) \in DocIds
  BY <1>0 DEF TaskShape
<1>c. Pc(t) # "clear" => ~ClearAbort(t)
  BY DEF ClearAbort
\* The three ways a task is written.
<1>p. \A pc \in {"page", "attach", "finish", "wait", "error", "idle"} :
        pc \in SyncPC /\ pc \in TaskPC /\ pc # "clear" /\ pc \notin DocPC
  BY DEF TaskPC, SyncPC, DocPC
<1>q. \A pc \in {"row", "fetch", "mark", "put", "stage", "enqueue", "setPending", "push"} :
        pc \in SyncPC /\ pc \in TaskPC /\ pc # "clear" /\ pc \in DocPC
  BY DEF TaskPC, SyncPC, DocPC
<1>j. ASSUME NEW pc \in {"finish", "wait", "error", "idle"}, Jump(t, pc), Pc(t) # "clear"
      PROVE  SyncMoves(t)
  BY <1>0, <1>c, <1>j, <1>p, JumpEffect DEF SyncMoves
<1>k. ASSUME NEW pc \in {"setPending", "push"}, Jump(t, pc), Pc(t) # "clear", Page(t) \in DocIds
      PROVE  SyncMoves(t)
  BY <1>0, <1>c, <1>k, <1>q, JumpEffect DEF SyncMoves, Page
<1>n. ASSUME NEW pc \in {"page", "attach"}, NextItem(t, pc), Pc(t) # "clear" PROVE SyncMoves(t)
  BY <1>0, <1>c, <1>n, <1>p, NextItemEffect DEF SyncMoves
<1>w. ASSUME NEW r \in Task, task' = [task EXCEPT ![t] = r], Pc(t) # "clear", r.conn = task[t].conn,
             r.pc \in SyncPC \ {"clear"}, r.pc \in DocPC => r.doc \in DocIds
      PROVE  SyncMoves(t)
  <2>1. Writes(t, r)
    BY <1>0, <1>w, TaskWritten
  <2> QED
    BY <1>w, <1>c, <2>1 DEF SyncMoves, Writes
<1>3. CASE List(t)
  <2> DEFINE r == [task[t] EXCEPT !.pc = "page", !.todo = Pages,
                     !.listing = [d \in DocIds |-> IF Type(t) = "web" \/ d \notin Pages THEN 0
                                                   ELSE site[SourceOf[d]]]]
  <2>1. Pc(t) = "list"
    BY <1>3 DEF List
  <2>2. CASE Jump(t, "error")
    BY <1>j, <2>1, <2>2
  <2>3. CASE task' = [task EXCEPT ![t] = r]
    <3>1. [d \in DocIds |-> IF Type(t) = "web" \/ d \notin Pages THEN 0 ELSE site[SourceOf[d]]]
            \in [DocIds -> Nat]
      BY <1>0, StoreAssumption DEF ConnTypeOK
    <3>2. Pages \in SUBSET DocIds
      BY DEF Pages
    <3>3. r \in Task /\ r.pc = "page" /\ r.conn = task[t].conn
      BY <1>0, <3>1, <3>2, TaskTyped, ZenonT(60) DEF Task, SyncPC
    <3> HIDE DEF r
    <3> QED
      BY <1>w, <1>p, <2>1, <2>3, <3>3
  <2> QED
    BY <1>3, <2>2, <2>3 DEF List
<1>4. CASE NextPage(t)
  <2>1. Pc(t) = "page"
    BY <1>4 DEF NextPage
  <2>2. CASE Jump(t, "finish")
    BY <1>j, <2>1, <2>2
  <2>3. ASSUME NEW d \in task[t].todo,
               task' = [task EXCEPT ![t].pc = "row", ![t].doc = d, ![t].todo = @ \ {d},
                                    ![t].sub = Attachments(d)]
        PROVE  SyncMoves(t)
    <3> DEFINE r == [task[t] EXCEPT !.pc = "row", !.doc = d, !.todo = @ \ {d}, !.sub = Attachments(d)]
    <3>1. Attachments(d) \in SUBSET DocIds /\ d \in DocIds
      BY <1>0, TaskTyped DEF Attachments
    <3>2. r \in Task /\ r.pc = "row" /\ r.conn = task[t].conn /\ r.doc = d
      BY <1>0, <3>1, TaskTyped, ZenonT(60) DEF Task, SyncPC
    <3>3. task' = [task EXCEPT ![t] = r]
      BY <2>3
    <3> HIDE DEF r
    <3> QED
      BY <1>w, <1>q, <2>1, <3>1, <3>2, <3>3
  <2> QED
    BY <1>4, <2>2, <2>3, Zenon DEF NextPage
<1>5. CASE NextAttachment(t)
  <2>1. Pc(t) = "attach"
    BY <1>5 DEF NextAttachment
  <2>2. CASE task' = [task EXCEPT ![t].pc = "page", ![t].sub = {}]
    <3> DEFINE r == [task[t] EXCEPT !.pc = "page", !.sub = {}]
    <3>2. r \in Task /\ r.pc = "page" /\ r.conn = task[t].conn
      BY <1>0, TaskTyped, ZenonT(60) DEF Task, SyncPC
    <3>3. task' = [task EXCEPT ![t] = r]
      BY <2>2
    <3> HIDE DEF r
    <3> QED
      BY <1>w, <1>p, <2>1, <3>2, <3>3
  <2>3. ASSUME NEW d \in task[t].sub,
               task' = [task EXCEPT ![t].pc = "row", ![t].doc = d, ![t].sub = @ \ {d},
                                    ![t].listing = [a \in DocIds |-> ListedVersion(t, a)]]
        PROVE  SyncMoves(t)
    <3> DEFINE r == [task[t] EXCEPT !.pc = "row", !.doc = d, !.sub = @ \ {d},
                                    !.listing = [a \in DocIds |-> ListedVersion(t, a)]]
    <3>1. d \in DocIds
      BY <1>0, TaskTyped
    <3>2. [a \in DocIds |-> ListedVersion(t, a)] \in [DocIds -> Nat]
      BY <1>0, TaskTyped, StoreAssumption DEF ListedVersion, ConnTypeOK
    <3>3. r \in Task /\ r.pc = "row" /\ r.conn = task[t].conn /\ r.doc = d
      BY <1>0, <3>1, <3>2, TaskTyped, ZenonT(60) DEF Task, SyncPC
    <3>4. task' = [task EXCEPT ![t] = r]
      BY <2>3
    <3> HIDE DEF r
    <3> QED
      BY <1>w, <1>q, <2>1, <3>1, <3>3, <3>4
  <2> QED
    BY <1>5, <2>2, <2>3, Zenon DEF NextAttachment
<1>6. CASE WebRow(t) \/ WebChanged(t) \/ GitHubRow(t) \/ ConfluenceRow(t) \/ AttachmentRow(t)
  <2>1. Pc(t) \in {"row", "fetch"} /\ Page(t) \in DocIds
    BY <1>6, <1>d DEF WebRow, WebChanged, GitHubRow, ConfluenceRow, AttachmentRow, DocPC
  <2>2. /\ Stored(Page(t)) \in Nat /\ task[t].listing[Page(t)] \in Nat
        /\ site[SourceOf[Page(t)]] \in Nat
    BY <1>0, <2>1, TaskTyped, StoreAssumption DEF Stored, TypeOK, ConnTypeOK
  <2>3. CASE NextItem(t, "page") \/ NextItem(t, "attach")
    BY <1>n, <2>1, <2>3
  <2>4. ASSUME NEW pc \in {"fetch", "mark"}, NEW new \in BOOLEAN, NEW seen \in Nat,
               NEW ver \in Nat, NEW file \in Nat,
               task' = [task EXCEPT ![t] = [@ EXCEPT !.pc = pc, !.new = new, !.seen = seen,
                                                     !.ver = ver, !.file = file]]
        PROVE  SyncMoves(t)
    <3> DEFINE r == [task[t] EXCEPT !.pc = pc, !.new = new, !.seen = seen,
                                    !.ver = ver, !.file = file]
    <3>0. pc \in SyncPC
      BY <1>q
    <3>1. r \in Task /\ r.pc = pc /\ r.conn = task[t].conn /\ r.doc = task[t].doc
      BY <1>0, <3>0, TaskTyped, ZenonT(60) DEF Task
    <3>2. task' = [task EXCEPT ![t] = r]
      BY <2>4
    <3> HIDE DEF r
    <3> QED
      BY <1>w, <1>q, <2>1, <3>1, <3>2 DEF Page
  <2>5. CASE WebRow(t)
    <3>9. /\ task[t].new \in BOOLEAN /\ task[t].seen \in Nat /\ task[t].ver \in Nat
          /\ task[t].file \in Nat /\ HasRow(Page(t)) \in BOOLEAN
      BY <1>0, TaskTyped DEF HasRow
    <3>1. task' = [task EXCEPT ![t] = [@ EXCEPT !.pc = "fetch", !.new = ~HasRow(Page(t)),
                     !.seen = Stored(Page(t)), !.ver = task[t].ver, !.file = task[t].file]]
      <4>1. [task[t] EXCEPT !.pc = "fetch", !.new = ~HasRow(Page(t)), !.seen = Stored(Page(t)),
                            !.ver = task[t].ver, !.file = task[t].file]
              = [task[t] EXCEPT !.pc = "fetch", !.new = ~HasRow(Page(t)), !.seen = Stored(Page(t))]
        BY <1>0, TaskTyped DEF Task
      <4> QED
        BY <2>5, <4>1 DEF WebRow
    <3> QED
      BY <2>2, <2>4, <3>1, <3>9
  <2>6. CASE WebChanged(t)
    <3>9. /\ task[t].new \in BOOLEAN /\ task[t].seen \in Nat /\ task[t].ver \in Nat
          /\ task[t].file \in Nat /\ HasRow(Page(t)) \in BOOLEAN
      BY <1>0, TaskTyped DEF HasRow
    <3> DEFINE now == site[SourceOf[Page(t)]]
    <3>1. task' = [task EXCEPT ![t] = [@ EXCEPT !.pc = "mark", !.new = task[t].new,
                     !.seen = 0, !.ver = now, !.file = now]]
      <4>1. [task[t] EXCEPT !.pc = "mark", !.new = task[t].new, !.seen = 0,
                            !.ver = now, !.file = now]
              = [task[t] EXCEPT !.pc = "mark", !.seen = 0, !.ver = now, !.file = now]
        BY <1>0, TaskTyped DEF Task
      <4> QED
        BY <2>6, <4>1 DEF WebChanged
    <3> QED
      BY <2>2, <2>4, <3>1, <3>9
  <2>7. CASE GitHubRow(t) \/ AttachmentRow(t)
    <3>9. /\ task[t].new \in BOOLEAN /\ task[t].seen \in Nat /\ task[t].ver \in Nat
          /\ task[t].file \in Nat /\ HasRow(Page(t)) \in BOOLEAN
      BY <1>0, TaskTyped DEF HasRow
    <3> DEFINE listed == task[t].listing[Page(t)]
    <3>1. CASE task' = [task EXCEPT ![t].pc = "mark", ![t].new = ~HasRow(Page(t)), ![t].ver = listed]
      <4>1. [task[t] EXCEPT !.pc = "mark", !.new = ~HasRow(Page(t)), !.seen = task[t].seen,
                            !.ver = listed, !.file = task[t].file]
              = [task[t] EXCEPT !.pc = "mark", !.new = ~HasRow(Page(t)), !.ver = listed]
        BY <1>0, TaskTyped DEF Task
      <4>2. task' = [task EXCEPT ![t] = [@ EXCEPT !.pc = "mark", !.new = ~HasRow(Page(t)),
                       !.seen = task[t].seen, !.ver = listed, !.file = task[t].file]]
        BY <3>1, <4>1
      <4> QED
        BY <2>2, <2>4, <4>2, <3>9
    <3> QED
      BY <2>7, <2>3, <3>1 DEF GitHubRow, AttachmentRow
  <2>8. CASE ConfluenceRow(t)
    <3>9. /\ task[t].new \in BOOLEAN /\ task[t].seen \in Nat /\ task[t].ver \in Nat
          /\ task[t].file \in Nat /\ HasRow(Page(t)) \in BOOLEAN
      BY <1>0, TaskTyped DEF HasRow
    <3> DEFINE listed == task[t].listing[Page(t)]
    <3>1. CASE task' = [task EXCEPT ![t].pc = "mark", ![t].new = ~HasRow(Page(t)),
                                    ![t].ver = listed, ![t].file = listed]
      <4>1. [task[t] EXCEPT !.pc = "mark", !.new = ~HasRow(Page(t)), !.seen = task[t].seen,
                            !.ver = listed, !.file = listed]
              = [task[t] EXCEPT !.pc = "mark", !.new = ~HasRow(Page(t)), !.ver = listed,
                                !.file = listed]
        BY <1>0, TaskTyped DEF Task
      <4>2. task' = [task EXCEPT ![t] = [@ EXCEPT !.pc = "mark", !.new = ~HasRow(Page(t)),
                       !.seen = task[t].seen, !.ver = listed, !.file = listed]]
        BY <3>1, <4>1
      <4> QED
        BY <2>2, <2>4, <4>2, <3>9
    <3> QED
      BY <2>8, <2>3, <3>1 DEF ConfluenceRow
  <2> QED
    BY <1>6, <2>5, <2>6, <2>7, <2>8
<1>7. CASE WebFetchError(t) \/ WebSkip(t) \/ WebUnchanged(t) \/ PutFails(t) \/ SyncPush(t)
  <2>1. Pc(t) \in {"fetch", "put", "push"}
    BY <1>7 DEF WebFetchError, WebSkip, WebUnchanged, PutFails, SyncPush
  <2>2. NextItem(t, "page") \/ NextItem(t, "attach")
    BY <1>7 DEF WebFetchError, WebSkip, WebUnchanged, PutFails, SyncPush, After
  <2> QED
    BY <1>n, <2>1, <2>2
<1>8. CASE Raises(t) \/ SyncEnqueue(t)
  <2>1. Pc(t) \in {"fetch", "mark", "enqueue"}
    BY <1>8 DEF Raises, SyncEnqueue
  <2>2. \/ NextItem(t, "page") \/ NextItem(t, "attach")
        \/ Jump(t, "error") \/ Jump(t, "push") \/ Jump(t, "setPending")
    BY <1>8 DEF Raises, Raise, SyncEnqueue, After
  <2>3. Page(t) \in DocIds
    BY <1>d, <2>1 DEF DocPC
  <2> QED
    BY <1>j, <1>k, <1>n, <2>1, <2>2, <2>3
<1>9. CASE HookStops(t) \/ Finish(t) \/ MarkActive(t) \/ SyncError(t)
  <2>1. Pc(t) \in {"mark", "finish", "wait", "error"} /\ (Jump(t, "idle") \/ Jump(t, "wait"))
    BY <1>9 DEF HookStops, Finish, MarkActive, SyncError
  <2> QED
    BY <1>j, <2>1
<1>10. CASE SyncPending(t)
  <2>1. Pc(t) = "setPending" /\ Jump(t, "push")
    BY <1>10 DEF SyncPending
  <2>2. Page(t) \in DocIds
    BY <1>d, <2>1 DEF DocPC
  <2> QED
    BY <1>k, <2>1, <2>2
<1>11. CASE SetIdle(t)
  <2>1. Pc(t) = "idle" /\ Jump(t, "clear")
    BY <1>11 DEF SetIdle
  <2>2. "clear" \in SyncPC /\ "clear" \in TaskPC /\ "clear" \notin DocPC
    BY DEF SyncPC, TaskPC, DocPC
  <2> QED
    BY <1>0, <1>c, <1>11, <2>1, <2>2, JumpEffect DEF SyncMoves
<1>12. CASE Mark(t) \/ Put(t) \/ Stage(t)
  <2>1. Pc(t) \in {"mark", "put", "stage"} /\ Page(t) \in DocIds
    BY <1>12, <1>d DEF Mark, Put, Stage, DocPC
  <2>2. PICK r \in {[task[t] EXCEPT !.pc = "put", !.new = FALSE],
                     [task[t] EXCEPT !.pc = "stage", !.file = 0],
                     [task[t] EXCEPT !.pc = "enqueue", !.ver = 0]} : task' = [task EXCEPT ![t] = r]
    BY <1>12 DEF Mark, Put, Stage
  <2>3. /\ r \in Task /\ r.conn = task[t].conn /\ r.doc = task[t].doc
        /\ r.pc \in {"put", "stage", "enqueue"}
    <3>1. {"put", "stage", "enqueue"} \subseteq SyncPC
      BY <1>q
    <3>2. CASE r = [task[t] EXCEPT !.pc = "put", !.new = FALSE]
      BY <1>0, <3>1, <3>2, TaskTyped, ZenonT(60) DEF Task
    <3>3. CASE r = [task[t] EXCEPT !.pc = "stage", !.file = 0]
      BY <1>0, <3>1, <3>3, TaskTyped, ZenonT(60) DEF Task
    <3>4. CASE r = [task[t] EXCEPT !.pc = "enqueue", !.ver = 0]
      BY <1>0, <3>1, <3>4, TaskTyped DEF Task
    <3> QED
      BY <2>2, <3>2, <3>3, <3>4
  <2> QED
    BY <1>w, <1>q, <2>1, <2>2, <2>3 DEF Page
<1>13. CASE ClearAbort(t)
  <2>1. Writes(t, FreeTask)
    BY <1>0, <1>13, TaskWritten, FreeTaskTyped DEF ClearAbort
  <2> QED
    BY <1>13, <2>1 DEF SyncMoves, Writes
<1> QED
  BY <1>3, <1>4, <1>5, <1>6, <1>7, <1>8, <1>9, <1>10, <1>11, <1>12, <1>13 DEF SyncStep

-----------------------------------------------------------------------------
(* The shared tables. *)

\* What is left to show of a step that leaves the loop and the jobs alone.
LEMMA StoresTyped ==
  ASSUME TypeOK, Shape, UNCHANGED <<loop, job, counters, asked>>,
         status' \in [DocIds -> Status], version' \in [DocIds -> Nat], used' \subseteq DocIds,
         s3' \in [Sources -> Nat], chunks' \in [DocIds -> SUBSET Nat],
         queue' \in [Kind -> Seq(Item)], delayed' \in [Kind -> SUBSET Item],
         overridden' \subseteq Sources
  PROVE  TypeOK' /\ Shape'
BY DEF counters, TypeOK, Shape, LoopShape, JobShape

\* A write of status over a document marks its source at most.
LEMMA OverrideTyped ==
  ASSUME TypeOK, NEW d \in DocIds, NEW busy, Override(d, busy)
  PROVE  overridden' \subseteq Sources
BY StoreAssumption DEF Override, TypeOK

\* What a sync step may do to the shared tables: the files and the rows keep
\* their types, and of the connector rows only sync_status and, for a connector
\* that exists, the status changes.
SyncTables(t) ==
  /\ status' \in [DocIds -> Status] /\ version' \in [DocIds -> Nat] /\ used' \subseteq DocIds
  /\ s3' \in [Sources -> Nat] /\ chunks' = chunks
  /\ queue' \in [Kind -> Seq(Item)] /\ delayed' = delayed
  /\ overridden' \subseteq Sources
  /\ owner' \in [DocIds -> Conns \cup {NoConn}] /\ marked' \subseteq DocIds
  /\ UNCHANGED <<loop, job, counters, asked, site, bounds, kb>>
  /\ conn' \in [Conns -> Conn] /\ \A c \in Conns : Exists(c)' = Exists(c)
  /\ SetIdle(t) \/ \A c \in Conns : conn'[c].sync = conn[c].sync
  /\ \/ SetIdle(t) \/ ClearAbort(t)
     \/ Pc(t) \notin {"idle", "clear"} /\ UNCHANGED <<flags, cut, unlocked>>

\* What a step of a sync may write of the shared tables and of the connector tables.
LEMMA SyncWrites ==
  ASSUME ConnShape, NEW t \in Threads, SyncStep(t)
  PROVE  SyncTables(t)
<1>0. TypeOK /\ ConnTypeOK /\ t \in Slots /\ TaskShape(t)
  BY DEF ConnShape, TasksShape, Slots
<1>1. Pc(t) \in SyncPC /\ Owner(t) \in Conns
  BY SyncStepMoves
<1>d. Pc(t) \in {"fetch", "mark", "put", "stage", "setPending", "push"} => Page(t) \in DocIds
  BY <1>0 DEF TaskShape, DocPC
<1>t. /\ status \in [DocIds -> Status] /\ version \in [DocIds -> Nat] /\ used \subseteq DocIds
      /\ s3 \in [Sources -> Nat] /\ queue \in [Kind -> Seq(Item)]
      /\ overridden \subseteq Sources /\ owner \in [DocIds -> Conns \cup {NoConn}]
      /\ marked \subseteq DocIds /\ site \in [Sources -> Nat] /\ conn \in [Conns -> Conn]
  BY <1>0 DEF TypeOK, ConnTypeOK
<1>s. {"failed", "fetching", "pending"} \subseteq Status
  BY DEF Status, RowStatus, StableStatus, ActiveStatus
<1>c. \A c \in Conns : (conn' = conn) => Exists(c)' = Exists(c)
  BY DEF Exists
<1>2. CASE \/ List(t) \/ NextPage(t) \/ NextAttachment(t) \/ WebRow(t) \/ WebSkip(t)
           \/ WebChanged(t) \/ GitHubRow(t) \/ ConfluenceRow(t) \/ AttachmentRow(t)
           \/ Raises(t) \/ HookStops(t) \/ SyncEnqueue(t) \/ Finish(t)
  <2>1. UNCHANGED unread /\ Pc(t) \notin {"idle", "clear"}
    BY <1>2 DEF List, NextPage, NextAttachment, WebRow, WebSkip, WebChanged, GitHubRow,
       ConfluenceRow, AttachmentRow, Raises, HookStops, SyncEnqueue, Finish
  <2> QED
    BY <1>t, <1>c, <2>1 DEF SyncTables, unread, others, quiet, rows, redis, tables, aborts, bounds
<1>3. CASE \/ WebFetchError(t) \/ Mark(t) \/ WebUnchanged(t) \/ PutFails(t) \/ Stage(t)
           \/ SyncPending(t) \/ Put(t) \/ SyncPush(t)
  <2>1. Pc(t) \in {"fetch", "mark", "put", "stage", "setPending", "push"} /\ Page(t) \in DocIds
    BY <1>3, <1>d DEF WebFetchError, Mark, WebUnchanged, PutFails, Stage, SyncPending, Put, SyncPush
  <2>2. overridden' \subseteq Sources
    BY <1>0, <1>3, <2>1, OverrideTyped DEF WebFetchError, Mark, WebUnchanged, PutFails, Stage,
       SyncPending, Put, SyncPush, Intrude
  <2>3. /\ UNCHANGED <<chunks, delayed, loop, job, counters, asked, site, bounds, kb, conn>>
        /\ UNCHANGED <<flags, cut, unlocked>>
    BY <1>3 DEF WebFetchError, Mark, WebUnchanged, PutFails, Stage, SyncPending, Put, SyncPush,
       others, quiet, redis, tables, aborts, bounds
  <2>4. /\ status' \in [DocIds -> Status] /\ version' \in [DocIds -> Nat] /\ used' \subseteq DocIds
        /\ s3' \in [Sources -> Nat] /\ queue' \in [Kind -> Seq(Item)]
        /\ owner' \in [DocIds -> Conns \cup {NoConn}] /\ marked' \subseteq DocIds
    <3>1. CASE WebFetchError(t) \/ Mark(t)
      <4>1. PICK st \in {"failed", "fetching"} :
              \/ CreateDoc(Page(t), Owner(t), st)
              \/ Assign(Page(t), Owner(t), st) /\ marked' \in {marked, marked \ {Page(t)}}
        BY <3>1 DEF WebFetchError, Mark
      <4>2. UNCHANGED <<s3, queue>>
        BY <3>1 DEF WebFetchError, Mark, redis
      <4>3. CASE CreateDoc(Page(t), Owner(t), st)
        BY <1>1, <1>t, <1>s, <2>1, <4>2, <4>3 DEF CreateDoc
      <4>4. CASE Assign(Page(t), Owner(t), st) /\ marked' \in {marked, marked \ {Page(t)}}
        <5>1. status' \in [DocIds -> Status]
          BY <1>0, <1>s, <4>4, UpdateTyped DEF Assign
        <5> QED
          BY <1>1, <1>t, <2>1, <4>2, <4>4, <5>1 DEF Assign
      <4> QED
        BY <4>1, <4>3, <4>4
    <3>2. CASE WebUnchanged(t)
      BY <1>1, <1>t, <3>2 DEF WebUnchanged, rows, redis
    <3>3. CASE PutFails(t) \/ SyncPending(t)
      <4>1. status' \in [DocIds -> Status]
        BY <1>0, <1>s, <3>3, UpdateTyped DEF PutFails, SyncPending
      <4> QED
        BY <1>t, <3>3, <4>1 DEF PutFails, SyncPending, redis
    <3>4. CASE Stage(t)
      <4>1. status' \in [DocIds -> Status]
        BY <1>0, <1>s, <3>4, UpdateTyped DEF Stage
      <4>2. version' \in [DocIds -> Nat]
        BY <1>0, <1>t, <3>4, TaskTyped DEF Stage
      <4> QED
        BY <1>t, <3>4, <4>1, <4>2 DEF Stage, redis
    <3>5. CASE Put(t)
      <4>1. s3' \in [Sources -> Nat]
        <5>1. site[SourceOf[Page(t)]] \in Nat /\ task[t].file \in Nat
          BY <1>0, <1>t, <2>1, TaskTyped, StoreAssumption
        <5> QED
          BY <1>t, <3>5, <5>1 DEF Put
      <4> QED
        BY <1>t, <3>5, <4>1 DEF Put, rows, redis, tables
    <3>6. CASE SyncPush(t)
      <4>1. Append(queue["upload"], [id |-> Page(t), force |-> FALSE]) \in Seq(Item)
        BY <1>t, <2>1 DEF Item, Kind
      <4>2. queue' \in [Kind -> Seq(Item)]
        BY <1>t, <3>6, <4>1 DEF SyncPush
      <4> QED
        BY <1>t, <3>6, <4>2 DEF SyncPush, rows, tables
    <3> QED
      BY <1>3, <3>1, <3>2, <3>3, <3>4, <3>5, <3>6
  <2> QED
    BY <1>t, <1>c, <2>1, <2>2, <2>3, <2>4 DEF SyncTables
<1>4. CASE MarkActive(t) \/ SyncError(t)
  <2>1. /\ UNCHANGED <<rows, s3, chunks, redis, overridden, kb, owner, marked, aborts, others>>
        /\ Pc(t) \notin {"idle", "clear"}
    BY <1>4 DEF MarkActive, SyncError
  <2>2. conn' = conn \/ SetConn(Owner(t), "active") \/ SetConn(Owner(t), "error")
    BY <1>4 DEF MarkActive, SyncError
  <2>3. ASSUME NEW st \in {"active", "error"}, SetConn(Owner(t), st)
        PROVE  /\ conn' \in [Conns -> Conn]
               /\ \A c \in Conns : Exists(c)' = Exists(c) /\ conn'[c].sync = conn[c].sync
    BY <1>1, <1>t, <2>3, ZenonT(60) DEF SetConn, Exists, Conn
  <2>4. /\ conn' \in [Conns -> Conn]
        /\ \A c \in Conns : Exists(c)' = Exists(c) /\ conn'[c].sync = conn[c].sync
    BY <1>t, <1>c, <2>2, <2>3
  <2> QED
    BY <1>t, <2>1, <2>4 DEF SyncTables, others, quiet, rows, redis, aborts, bounds
<1>5. CASE SetIdle(t)
  <2>1. UNCHANGED <<rows, s3, chunks, redis, overridden, kb, owner, marked, others>>
    BY <1>5 DEF SetIdle
  <2>2. conn' \in [Conns -> Conn] /\ \A c \in Conns : Exists(c)' = Exists(c)
    BY <1>1, <1>5, <1>t, ZenonT(60) DEF SetIdle, SetSync, Exists, Conn
  <2> QED
    BY <1>5, <1>t, <2>1, <2>2 DEF SyncTables, others, quiet, rows, redis, bounds
<1>6. CASE ClearAbort(t)
  BY <1>6, <1>t, <1>c DEF ClearAbort, SyncTables, others, quiet, rows, redis, tables, bounds
<1> QED
  BY <1>2, <1>3, <1>4, <1>5, <1>6 DEF SyncStep

-----------------------------------------------------------------------------
(* The tasks that abort and delete, in the slot of the handler or of a       *)
(* thread.                                                                   *)

ErrandPC == {"free"} \cup CascadePC \cup ApiPC

ErrandMoves(t) ==
  /\ Pc(t) \in ErrandPC
  /\ Writes(t, task'[t]) /\ task'[t].pc \in ErrandPC /\ TaskShape(t)'

\* A write of one task, and what has to be shown of it.
LEMMA ErrandWritten ==
  ASSUME ConnTypeOK, NEW t \in Slots, Pc(t) \in ErrandPC, NEW r \in Task,
         task' = [task EXCEPT ![t] = r], r.pc \in ErrandPC,
         r.pc \in {"abortMark", "retire"} => r.doc \in DocIds,
         r.pc \in CascadePC \ AbortPC => t \in Threads /\ r.conn \in Conns,
         r.pc \in ApiPC \ AbortPC => t = Api,
         r.pc = "flag" => r.conn \in Conns,
         r.pc \in AbortPC /\ r.back = "docs" => t \in Threads /\ r.conn \in Conns,
         r.pc \in AbortPC /\ r.back = "collection" => t = Api
  PROVE  ErrandMoves(t)
<1>1. Writes(t, r)
  BY TaskWritten
<1>2. task'[t] = r
  BY <1>1 DEF Writes
<1>3. \A pc \in ErrandPC : pc \notin SyncPC /\ (pc \in DocPC => pc \in {"abortMark", "retire"})
  BY DEF ErrandPC, CascadePC, AbortPC, ApiPC, SyncPC, DocPC
<1>4. TaskShape(t)'
  BY <1>2, <1>3 DEF TaskShape, Pc, Page, Owner
<1> QED
  BY <1>1, <1>2, <1>4 DEF ErrandMoves

\* Where abort_active_ingest leads.
LEMMA AbortOfMoves ==
  ASSUME ConnTypeOK, NEW t \in Slots, Pc(t) \in ErrandPC, NEW docs \in SUBSET DocIds,
         NEW back \in {"free", "docs", "collection"}, AbortOf(t, docs, back),
         back = "docs" => t \in Threads /\ Owner(t) \in Conns, back = "collection" => t = Api
  PROVE  ErrandMoves(t)
<1>1. CASE docs # {}
  <2> DEFINE r == [task[t] EXCEPT !.pc = "abort", !.back = back, !.todo = docs, !.sub = docs]
  <2>1. r \in Task /\ r.pc = "abort" /\ r.back = back /\ r.conn = Owner(t)
    BY TaskTyped, ZenonT(60) DEF Task, CascadePC, AbortPC, Owner
  <2>2. task' = [task EXCEPT ![t] = r]
    BY <1>1 DEF AbortOf
  <2> HIDE DEF r
  <2>3. "abort" \in ErrandPC /\ "abort" \notin CascadePC \ AbortPC /\ "abort" \notin ApiPC \ AbortPC
    BY DEF ErrandPC, CascadePC, AbortPC, ApiPC
  <2> QED
    BY <2>1, <2>2, <2>3, ErrandWritten
<1>2. CASE docs = {} /\ back = "free"
  <2>1. task' = [task EXCEPT ![t] = FreeTask]
    BY <1>2 DEF AbortOf
  <2> QED
    BY <2>1, ErrandWritten, FreeTaskTyped DEF FreeTask, ErrandPC, CascadePC, ApiPC, AbortPC
<1>3. CASE docs = {} /\ back # "free"
  <2> DEFINE r == [task[t] EXCEPT !.pc = back]
  <2>1. r \in Task /\ r.pc = back /\ r.conn = Owner(t)
    BY TaskTyped DEF Task, CascadePC, ApiPC, Owner
  <2>2. task' = [task EXCEPT ![t] = r]
    BY <1>3 DEF AbortOf, Jump
  <2> HIDE DEF r
  <2>3. /\ back \in ErrandPC /\ back \notin AbortPC /\ back # "flag"
        /\ back \notin {"abortMark", "retire"}
        /\ back \in CascadePC => back = "docs"
        /\ back \in ApiPC => back = "collection"
    BY <1>3 DEF ErrandPC, CascadePC, AbortPC, ApiPC
  <2> QED
    BY <2>1, <2>2, <2>3, ErrandWritten
<1> QED
  BY <1>1, <1>2, <1>3

\* A step of a cascade or of a handler keeps the shape of its task and ends as one of the two.
LEMMA ErrandStepMoves ==
  ASSUME ConnShape, NEW t \in Slots, CascadeStep(t) \/ (t = Api /\ AdminStep)
  PROVE  ErrandMoves(t)
<1>0. ConnTypeOK /\ TaskShape(t)
  BY DEF ConnShape, TasksShape
<1>k. CascadePC \subseteq ErrandPC /\ ApiPC \subseteq ErrandPC
  BY DEF ErrandPC
<1>1. CASE AbortActive(t)
  <2>1. Pc(t) \in {"abortDocs", "cascade"}
    BY <1>1 DEF AbortActive
  <2>2. /\ Pc(t) \in ErrandPC
        /\ Pc(t) = "cascade" => t \in Threads /\ Owner(t) \in Conns
    BY <1>0, <2>1 DEF TaskShape, ErrandPC, CascadePC, ApiPC, AbortPC
  <2>3. ActiveDocs(Owner(t)) \in SUBSET DocIds
    BY DEF ActiveDocs
  <2>4. PICK back \in {"free", "docs"} : /\ AbortOf(t, ActiveDocs(Owner(t)), back)
                                         /\ back = "docs" => Pc(t) = "cascade"
    BY <1>1 DEF AbortActive
  <2> QED
    BY <1>0, <2>2, <2>3, <2>4, AbortOfMoves
<1>2. CASE AbortDequeue(t)
  <2>1. Pc(t) = "abort"
    BY <1>2 DEF AbortDequeue
  <2>2. PICK d \in task[t].todo :
          task' = [task EXCEPT ![t].todo = @ \ {d},
                               ![t].pc = IF task[t].todo = {d} THEN "abortPurge" ELSE @]
    BY <1>2 DEF AbortDequeue
  <2> DEFINE r == [task[t] EXCEPT !.todo = @ \ {d},
                                  !.pc = IF task[t].todo = {d} THEN "abortPurge" ELSE @]
  <2>3. task' = [task EXCEPT ![t] = r]
    BY <2>2
  <2>4. /\ r \in Task /\ r.pc \in {"abort", "abortPurge"} /\ r.conn = Owner(t)
        /\ r.back = task[t].back
    BY <1>0, <2>1, TaskTyped, ZenonT(60) DEF Task, CascadePC, AbortPC, Owner, Pc
  <2> HIDE DEF r
  <2>5. /\ {"abort", "abortPurge"} \subseteq ErrandPC \ {"abortMark", "retire", "flag"}
        /\ {"abort", "abortPurge"} \subseteq AbortPC /\ {"abort"} \subseteq CascadePC
    BY DEF ErrandPC, CascadePC, AbortPC
  <2> QED
    BY <1>0, <1>k, <2>1, <2>3, <2>4, <2>5, ErrandWritten DEF TaskShape
<1>3. CASE AbortPurge(t)
  <2>1. Pc(t) = "abortPurge"
    BY <1>3 DEF AbortPurge
  <2>2. PICK d \in task[t].sub :
          task' = [task EXCEPT ![t].pc = "abortMark", ![t].doc = d, ![t].sub = @ \ {d}]
    BY <1>3 DEF AbortPurge
  <2> DEFINE r == [task[t] EXCEPT !.pc = "abortMark", !.doc = d, !.sub = @ \ {d}]
  <2>3. task' = [task EXCEPT ![t] = r]
    BY <2>2
  <2>4. /\ r \in Task /\ r.pc = "abortMark" /\ r.conn = Owner(t) /\ r.doc \in DocIds
        /\ r.back = task[t].back
    BY <1>0, <2>1, TaskTyped, ZenonT(60) DEF Task, CascadePC, AbortPC, Owner, Pc
  <2> HIDE DEF r
  <2>5. /\ {"abortPurge", "abortMark"} \subseteq AbortPC /\ "abortPurge" \in CascadePC
        /\ "abortMark" \in ErrandPC /\ "abortMark" # "flag"
    BY DEF ErrandPC, CascadePC, AbortPC
  <2> QED
    BY <1>0, <1>k, <2>1, <2>3, <2>4, <2>5, ErrandWritten DEF TaskShape
<1>4. CASE AbortMark(t)
  <2>1. Pc(t) = "abortMark"
    BY <1>4 DEF AbortMark
  <2>0. Pc(t) \in AbortPC /\ Pc(t) \in CascadePC
    BY <2>1 DEF AbortPC, CascadePC
  <2>2. CASE task[t].sub # {}
    <3> DEFINE r == [task[t] EXCEPT !.pc = "abortPurge", !.doc = NoDoc]
    <3>1. task' = [task EXCEPT ![t] = r]
      BY <1>4, <2>2 DEF AbortMark
    <3>2. r \in Task /\ r.pc = "abortPurge" /\ r.conn = Owner(t) /\ r.back = task[t].back
      BY <1>0, TaskTyped, ZenonT(60) DEF Task, CascadePC, AbortPC, Owner
    <3> HIDE DEF r
    <3>3. "abortPurge" \in AbortPC /\ "abortPurge" \in ErrandPC
      BY DEF ErrandPC, CascadePC, AbortPC
    <3> QED
      BY <1>0, <1>k, <2>0, <3>1, <3>2, <3>3, ErrandWritten DEF TaskShape
  <2>3. CASE task[t].sub = {} /\ task[t].back = "free"
    <3>1. task' = [task EXCEPT ![t] = FreeTask]
      BY <1>4, <2>3 DEF AbortMark
    <3> QED
      BY <1>0, <2>0, <3>1, ErrandWritten, FreeTaskTyped
         DEF FreeTask, ErrandPC, CascadePC, ApiPC, AbortPC
  <2>4. CASE task[t].sub = {} /\ task[t].back # "free"
    <3> DEFINE r == [task[t] EXCEPT !.pc = task[t].back, !.back = "free", !.doc = NoDoc]
    <3>1. task' = [task EXCEPT ![t] = r]
      BY <1>4, <2>4 DEF AbortMark
    <3>2. /\ r \in Task /\ r.pc = task[t].back /\ r.conn = Owner(t)
          /\ task[t].back \in {"docs", "collection"}
      BY <1>0, <2>4, TaskTyped, ZenonT(60) DEF Task, CascadePC, ApiPC, AbortPC, Owner
    <3> HIDE DEF r
    <3>3. /\ "docs" \in ErrandPC /\ "docs" \notin ApiPC
          /\ "collection" \in ErrandPC /\ "collection" \notin CascadePC
          /\ {"docs", "collection"} \cap (AbortPC \cup {"flag", "abortMark", "retire"}) = {}
      BY DEF ErrandPC, CascadePC, AbortPC, ApiPC
    <3> QED
      BY <1>0, <1>k, <2>0, <3>1, <3>2, <3>3, ErrandWritten DEF TaskShape
  <2> QED
    BY <2>2, <2>3, <2>4
\* The cascade: a thread, with its connector.
<1>e. /\ {"docs", "chunks", "retire"} \subseteq ErrandPC \ (AbortPC \cup ApiPC \cup {"flag", "abortMark"})
      /\ {"docs", "chunks", "retire"} \subseteq CascadePC \ AbortPC
      /\ {"flag", "collection", "prefix", "meta"} \subseteq ApiPC \ AbortPC
      /\ {"prefix", "meta", "abortDocs"} \subseteq
           ErrandPC \ (CascadePC \cup {"flag", "abortMark", "retire"})
  BY DEF ErrandPC, CascadePC, AbortPC, ApiPC
<1>f. ASSUME task' = [task EXCEPT ![t] = FreeTask], Pc(t) \in ErrandPC
      PROVE  ErrandMoves(t)
  BY <1>0, <1>f, ErrandWritten, FreeTaskTyped DEF FreeTask, ErrandPC, CascadePC, ApiPC, AbortPC
<1>g. Pc(t) \in CascadePC \ AbortPC => t \in Threads /\ Owner(t) \in Conns
  BY <1>0 DEF TaskShape
<1>h. Pc(t) \in ApiPC \ AbortPC => t = Api
  BY <1>0 DEF TaskShape
<1>5. CASE CascadeDocs(t)
  <2> DEFINE docs == {d \in DocIds : owner[d] = Owner(t) /\ status[d] # "deleted"}
             r == [task[t] EXCEPT !.pc = "chunks", !.todo = docs]
  <2>1. Pc(t) = "docs" /\ task' = [task EXCEPT ![t] = r]
    BY <1>5 DEF CascadeDocs
  <2>2. docs \in SUBSET DocIds
    OBVIOUS
  <2> HIDE DEF docs
  <2>3. r \in Task /\ r.pc = "chunks" /\ r.conn = Owner(t)
    BY <1>0, <2>2, TaskTyped, ZenonT(60) DEF Task, CascadePC, Owner
  <2> HIDE DEF r
  <2> QED
    BY <1>0, <1>e, <1>g, <2>1, <2>3, ErrandWritten
<1>6. CASE CascadeChunks(t)
  <2>1. Pc(t) = "chunks"
    BY <1>6 DEF CascadeChunks
  <2>2. CASE task' = [task EXCEPT ![t] = FreeTask]
    BY <1>e, <1>f, <2>1, <2>2
  <2>3. CASE task' # [task EXCEPT ![t] = FreeTask]
    <3>1. PICK d \in task[t].todo :
            task' = [task EXCEPT ![t].pc = "retire", ![t].doc = d, ![t].todo = @ \ {d}]
      BY <1>6, <2>3 DEF CascadeChunks
    <3> DEFINE r == [task[t] EXCEPT !.pc = "retire", !.doc = d, !.todo = @ \ {d}]
    <3>2. task' = [task EXCEPT ![t] = r]
      BY <3>1
    <3>3. r \in Task /\ r.pc = "retire" /\ r.conn = Owner(t) /\ r.doc \in DocIds
      BY <1>0, TaskTyped, ZenonT(60) DEF Task, CascadePC, Owner
    <3> HIDE DEF r
    <3> QED
      BY <1>0, <1>e, <1>g, <2>1, <3>2, <3>3, ErrandWritten
  <2> QED
    BY <2>2, <2>3
<1>7. CASE CascadeRetire(t)
  <2>1. Pc(t) = "retire" /\ NextItem(t, "chunks")
    BY <1>7 DEF CascadeRetire
  <2> DEFINE r == [task[t] EXCEPT !.pc = "chunks", !.doc = NoDoc, !.new = FALSE,
                                  !.seen = 0, !.ver = 0, !.file = 0]
  <2>2. task' = [task EXCEPT ![t] = r]
    BY <2>1 DEF NextItem
  <2>3. r \in Task /\ r.pc = "chunks" /\ r.conn = Owner(t)
    BY <1>0, TaskTyped, ZenonT(60) DEF Task, CascadePC, Owner
  <2> HIDE DEF r
  <2> QED
    BY <1>0, <1>e, <1>g, <2>1, <2>2, <2>3, ErrandWritten
<1>8. CASE CascadeForget(t)
  BY <1>8, <1>e, <1>f DEF CascadeForget
\* The handler.
<1>j. ASSUME NEW pc \in {"prefix", "meta", "abortDocs"}, Jump(t, pc), t = Api,
             Pc(t) \in ErrandPC
      PROVE  ErrandMoves(t)
  <2> DEFINE r == [task[t] EXCEPT !.pc = pc]
  <2>1. r \in Task /\ r.pc = pc
    BY <1>0, TaskTyped DEF Task, ApiPC
  <2>2. task' = [task EXCEPT ![t] = r]
    BY <1>j DEF Jump
  <2> HIDE DEF r
  <2>3. /\ pc \in ErrandPC /\ pc \notin CascadePC /\ pc \notin AbortPC
        /\ pc \notin {"flag", "abortMark", "retire"}
    BY DEF ErrandPC, CascadePC, AbortPC, ApiPC
  <2> QED
    BY <1>0, <1>j, <2>1, <2>2, <2>3, ErrandWritten
<1>9. CASE t = Api /\ (RequestAbort \/ DropCollection \/ DeletePrefix)
  <2>1. /\ Pc(t) \in {"flag", "collection", "prefix"}
        /\ Jump(t, "abortDocs") \/ Jump(t, "prefix") \/ Jump(t, "meta")
    BY <1>9 DEF RequestAbort, DropCollection, DeletePrefix
  <2> QED
    BY <1>e, <1>j, <1>k, <1>9, <2>1
<1>10. CASE t = Api /\ DeleteMeta
  BY <1>10, <1>e, <1>f DEF DeleteMeta
<1> QED
  BY <1>1, <1>2, <1>3, <1>4, <1>5, <1>6, <1>7, <1>8, <1>9, <1>10
     DEF CascadeStep, AdminStep, AbortStep

-----------------------------------------------------------------------------
\* What a step of an abort or a deletion may do to the shared tables: a lock is
\* released only of the syncs that are told to stop, or with the connector.
ErrandTables ==
  /\ status' \in [DocIds -> Status] /\ UNCHANGED <<version, used>>
  /\ s3' \in [Sources -> Nat] /\ chunks' \in [DocIds -> SUBSET Nat]
  /\ queue' \in [Kind -> Seq(Item)] /\ delayed' \in [Kind -> SUBSET Item]
  /\ overridden' \subseteq Sources
  /\ owner' \in [DocIds -> Conns \cup {NoConn}] /\ marked' \subseteq DocIds
  /\ UNCHANGED <<loop, job, counters, asked, site, bounds, unlocked>>
  /\ kb' \in {"none", "active", "deleting"} /\ flags' \subseteq Conns
  /\ cut \subseteq cut' /\ cut' \subseteq Threads
  /\ conn' \in [Conns -> Conn]
  /\ \A c \in Conns :
       /\ conn'[c].st = "none" <=> conn[c].st = "none"
       /\ \/ conn'[c].sync = conn[c].sync /\ Exists(c)' = Exists(c)
          \/ conn'[c].sync = "idle" /\ ~Exists(c)'
          \/ conn'[c].sync = "idle" /\ Exists(c)' /\ Syncing(c) \subseteq cut'

\* What a step of a cascade or of a handler may write of the shared tables and of the lock.
LEMMA ErrandWrites ==
  ASSUME ConnShape, NEW t \in Slots, CascadeStep(t) \/ (t = Api /\ AdminStep)
  PROVE  ErrandTables
<1>0. TypeOK /\ ConnTypeOK /\ TaskShape(t)
  BY DEF ConnShape, TasksShape
<1>t. /\ status \in [DocIds -> Status] /\ chunks \in [DocIds -> SUBSET Nat]
      /\ s3 \in [Sources -> Nat] /\ queue \in [Kind -> Seq(Item)]
      /\ delayed \in [Kind -> SUBSET Item]
      /\ overridden \subseteq Sources /\ owner \in [DocIds -> Conns \cup {NoConn}]
      /\ marked \subseteq DocIds /\ conn \in [Conns -> Conn] /\ flags \subseteq Conns
      /\ cut \subseteq Threads /\ kb \in {"none", "active", "deleting"}
  BY <1>0 DEF TypeOK, ConnTypeOK
<1>c. (conn' = conn) => \A c \in Conns : /\ conn'[c].st = "none" <=> conn[c].st = "none"
                                        /\ conn'[c].sync = conn[c].sync /\ Exists(c)' = Exists(c)
  BY DEF Exists
<1>s. {"failed", "deleted", "none"} \subseteq Status
  BY DEF Status, RowStatus, StableStatus
<1> USE DEF rows, redis, tables, aborts, bounds, stores, others, quiet
<1>1. CASE AbortActive(t) \/ CascadeDocs(t)
  BY <1>1, <1>c, <1>t DEF AbortActive, CascadeDocs, ErrandTables
<1>2. CASE AbortDequeue(t)
  <2>1. PICK d \in task[t].todo : DequeueUploads(d)
    BY <1>2 DEF AbortDequeue
  <2>2. Without(queue["upload"], d) \in Seq(Item)
    BY <1>t, WithoutEntries DEF Kind
  <2>3. queue' \in [Kind -> Seq(Item)] /\ delayed' \in [Kind -> SUBSET Item]
    BY <1>t, <2>1, <2>2 DEF DequeueUploads
  <2>4. UNCHANGED <<rows, s3, chunks, overridden, tables, aborts, others>>
    BY <1>2 DEF AbortDequeue
  <2> QED
    BY <2>3, <2>4, <1>c, <1>t DEF ErrandTables
<1>3. CASE AbortPurge(t)
  <2>1. PICK d \in task[t].sub : PurgeChunks(d) /\ Override(d, Shared(t, d) \/ ~IsActive(d))
    BY <1>3 DEF AbortPurge
  <2>2. chunks' \in [DocIds -> SUBSET Nat]
    BY <1>t, <2>1 DEF PurgeChunks
  <2>3. overridden' \subseteq Sources
    BY <1>0, <2>1, TaskTyped, OverrideTyped
  <2> QED
    BY <1>3, <2>2, <2>3, <1>c, <1>t DEF AbortPurge, ErrandTables
<1>4. CASE AbortMark(t) \/ CascadeRetire(t)
  <2>1. Page(t) \in DocIds
    BY <1>0, <1>4 DEF TaskShape, AbortMark, CascadeRetire, DocPC
  <2>2. status' \in [DocIds -> Status]
    BY <1>0, <1>4, <1>s, UpdateTyped DEF AbortMark, CascadeRetire
  <2>3. overridden' \subseteq Sources
    BY <1>0, <1>4, <2>1, OverrideTyped DEF AbortMark, CascadeRetire, Disturb
  <2> QED
    BY <1>4, <2>1, <2>2, <2>3, <1>c, <1>t DEF AbortMark, CascadeRetire, ErrandTables
<1>5. CASE CascadeChunks(t)
  <2>1. chunks' \in [DocIds -> SUBSET Nat] /\ overridden' \subseteq Sources
    <3>1. CASE \E d \in task[t].todo : chunks' = [chunks EXCEPT ![d] = {}] /\ Disturb(t, d)
      BY <1>0, <1>t, <3>1, TaskTyped, OverrideTyped DEF Disturb
    <3> QED
      BY <1>5, <1>t, <3>1 DEF CascadeChunks
  <2> QED
    BY <1>5, <2>1, <1>c, <1>t DEF CascadeChunks, ErrandTables
<1>r. \A c \in Conns : /\ Remove(c) \in Conn /\ Remove(c).st \in {"none", "gone"}
                       /\ Remove(c).sync = "idle" /\ (Remove(c).st = "none" <=> conn[c].st = "none")
  BY <1>t DEF Remove, Exists, Conn
<1>6. CASE CascadeForget(t)
  <2>1. conn' = [conn EXCEPT ![Owner(t)] = Remove(Owner(t))]
    BY <1>6 DEF CascadeForget
  <2> HIDE DEF Remove
  <2>2. conn' \in [Conns -> Conn]
    BY <1>r, <1>t, <2>1
  <2>3. \A c \in Conns : c # Owner(t) => conn'[c] = conn[c]
    BY <1>t, <2>1
  <2>4. Owner(t) \in Conns => conn'[Owner(t)] = Remove(Owner(t))
    BY <1>t, <2>1
  <2>5. \A c \in Conns :
          /\ conn'[c].st = "none" <=> conn[c].st = "none"
          /\ \/ conn'[c].sync = conn[c].sync /\ Exists(c)' = Exists(c)
             \/ conn'[c].sync = "idle" /\ ~Exists(c)'
    BY <1>r, <2>3, <2>4 DEF Exists
  <2>6. owner' \in [DocIds -> Conns \cup {NoConn}]
    BY <1>6, <1>t DEF CascadeForget
  <2> QED
    BY <1>6, <1>t, <2>2, <2>5, <2>6 DEF CascadeForget, ErrandTables
<1>7. CASE t = Api /\ RequestAbort
  <2>1. Owner(Api) \in Conns
    BY <1>0, <1>7 DEF RequestAbort, TaskShape
  <2>2. /\ UNCHANGED <<rows, s3, chunks, redis, overridden, kb, owner, marked, others, unlocked>>
        /\ flags' = flags \cup {Owner(Api)} /\ cut' = cut \cup Syncing(Owner(Api))
        /\ conn' = [conn EXCEPT ![Owner(Api)].sync = IF Exists(Owner(Api)) THEN "idle" ELSE @]
    BY <1>7 DEF RequestAbort, SetSync
  <2>3. cut' \subseteq Threads /\ flags' \subseteq Conns /\ cut \subseteq cut'
    BY <1>t, <2>1, <2>2 DEF Syncing
  <2>4. /\ conn' \in [Conns -> Conn]
        /\ \A c \in Conns :
             /\ conn'[c].st = conn[c].st
             /\ \/ conn'[c].sync = conn[c].sync
                \/ conn'[c].sync = "idle" /\ Exists(c) /\ c = Owner(Api)
    BY <1>t, <2>1, <2>2, ZenonT(60) DEF Conn, Exists
  <2>5. \A c \in Conns :
             /\ conn'[c].st = "none" <=> conn[c].st = "none"
             /\ \/ conn'[c].sync = conn[c].sync /\ Exists(c)' = Exists(c)
                \/ conn'[c].sync = "idle" /\ Exists(c)' /\ Syncing(c) \subseteq cut'
    BY <2>2, <2>4 DEF Exists
  <2> QED
    BY <1>t, <2>2, <2>3, <2>4, <2>5 DEF ErrandTables
<1>8. CASE t = Api /\ DropCollection
  <2>1. chunks' \in [DocIds -> SUBSET Nat] /\ overridden' \subseteq Sources
    BY <1>8, <1>t, StoreAssumption DEF DropCollection, Survivors
  <2> QED
    BY <1>8, <2>1, <1>c, <1>t DEF DropCollection, ErrandTables
<1>9. CASE t = Api /\ DeletePrefix
  BY <1>9, <1>c, <1>t DEF DeletePrefix, ErrandTables
<1>10. CASE t = Api /\ DeleteMeta
  <2>1. conn' = [c \in Conns |-> Remove(c)]
    BY <1>10 DEF DeleteMeta
  <2> HIDE DEF Remove
  <2>2. conn' \in [Conns -> Conn]
    BY <1>r, <2>1
  <2>5. \A c \in Conns :
          /\ conn'[c].st = "none" <=> conn[c].st = "none"
          /\ conn'[c].sync = "idle" /\ ~Exists(c)'
    BY <1>r, <2>1 DEF Exists
  <2> QED
    BY <1>10, <1>s, <1>t, <2>2, <2>5 DEF DeleteMeta, ErrandTables
<1> QED
  BY <1>1, <1>2, <1>3, <1>4, <1>5, <1>6, <1>7, <1>8, <1>9, <1>10
     DEF CascadeStep, AdminStep, AbortStep

-----------------------------------------------------------------------------
(* The types are kept. *)

\* A task that is written well leaves the tasks well-shaped.
LEMMA TasksKeepShape ==
  ASSUME TasksShape, NEW t \in Slots, Writes(t, task'[t]), TaskShape(t)'
  PROVE  TasksShape'
<1> SUFFICES ASSUME NEW u \in Slots PROVE TaskShape(u)'
  BY DEF TasksShape
<1>1. CASE u = t
  BY <1>1
<1>2. CASE u # t
  BY <1>2 DEF Writes, TasksShape, TaskShape, Pc, Page, Owner
<1> QED
  BY <1>1, <1>2

\* A step of a sync keeps the types and the shape of the tasks.
LEMMA SyncTyped ==
  ASSUME ConnShape, NEW t \in Threads, SyncStep(t)
  PROVE  ConnShape'
<1>0. TypeOK /\ Shape /\ ConnTypeOK /\ TasksShape /\ t \in Slots
  BY DEF ConnShape, Slots
<1>1. SyncTables(t)
  BY SyncWrites
<1>2. SyncMoves(t) /\ Pc(t) \in SyncPC /\ Owner(t) \in Conns
  BY SyncStepMoves
<1>3. TypeOK' /\ Shape'
  <2>1. chunks' \in [DocIds -> SUBSET Nat] /\ delayed' \in [Kind -> SUBSET Item]
    BY <1>0, <1>1 DEF SyncTables, TypeOK
  <2> QED
    BY <1>0, <1>1, <2>1, StoresTyped DEF SyncTables
<1>4. Writes(t, task'[t])
  BY <1>2 DEF SyncMoves
<1>5. TaskShape(t)'
  <2>1. CASE task'[t] = FreeTask
    BY <2>1 DEF TaskShape, Pc, Page, Owner, FreeTask, DocPC, SyncPC, CascadePC, AbortPC, ApiPC
  <2>2. CASE /\ task'[t].conn = task[t].conn /\ task'[t].pc \in SyncPC
             /\ task'[t].pc \in DocPC => task'[t].doc \in DocIds
    <3>1. \A pc \in SyncPC : pc \notin CascadePC \cup ApiPC \cup AbortPC /\ pc # "flag"
      BY DEF SyncPC, CascadePC, AbortPC, ApiPC
    <3> QED
      BY <1>2, <2>2, <3>1 DEF TaskShape, Pc, Page, Owner
  <2> QED
    BY <1>2, <2>1, <2>2 DEF SyncMoves
<1>6. TasksShape'
  BY <1>0, <1>4, <1>5, TasksKeepShape
<1>7. flags' \subseteq Conns /\ cut' \subseteq Threads /\ unlocked' \subseteq Threads
  <2>1. CASE SetIdle(t)
    BY <1>0, <2>1 DEF SetIdle, ConnTypeOK, Syncing
  <2>2. CASE ClearAbort(t)
    BY <1>0, <2>2 DEF ClearAbort, ConnTypeOK
  <2> QED
    BY <1>0, <1>1, <2>1, <2>2 DEF SyncTables, ConnTypeOK
<1>8. ConnTypeOK'
  BY <1>0, <1>1, <1>4, <1>7 DEF SyncTables, ConnTypeOK, Writes, Slots, bounds
<1> QED
  BY <1>3, <1>6, <1>8 DEF ConnShape

\* A step of a cascade or of a handler keeps the types and the shape of the tasks.
LEMMA ErrandTyped ==
  ASSUME ConnShape, NEW t \in Slots, CascadeStep(t) \/ (t = Api /\ AdminStep)
  PROVE  ConnShape'
<1>0. TypeOK /\ Shape /\ ConnTypeOK /\ TasksShape
  BY DEF ConnShape
<1>1. ErrandTables
  BY ErrandWrites
<1>2. ErrandMoves(t)
  BY ErrandStepMoves
<1>3. TypeOK' /\ Shape'
  <2>1. version' \in [DocIds -> Nat] /\ used' \subseteq DocIds
    BY <1>0, <1>1 DEF ErrandTables, TypeOK
  <2> QED
    BY <1>0, <1>1, <2>1, StoresTyped DEF ErrandTables
<1>4. TasksShape'
  BY <1>0, <1>2, TasksKeepShape DEF ErrandMoves
<1>5. ConnTypeOK'
  BY <1>0, <1>1, <1>2 DEF ErrandTables, ErrandMoves, ConnTypeOK, Writes, Slots, bounds
<1> QED
  BY <1>3, <1>4, <1>5 DEF ConnShape

\* A handler that is admitted: no sync is begun but under a lock that was free.
SyncSpawned(t, c) ==
  /\ Pc(t) = "free" /\ Writes(t, task'[t])
  /\ task'[t].pc = "list" /\ task'[t].conn = c
  /\ Exists(c) /\ conn[c].sync = "idle"
  /\ conn' = [conn EXCEPT ![c].sync = "running"]
SameLock(c) == conn'[c].sync = conn[c].sync /\ Exists(c)' = Exists(c)
AdminMoves ==
  /\ UNCHANGED <<rows, s3, chunks, redis, overridden, owner, marked, aborts, quiet>>
  /\ kb' \in {"none", "active", "deleting"} /\ syncs' \in Nat /\ admin' \in Nat
  /\ conn' \in [Conns -> Conn]
  /\ \A c \in Conns : conn'[c].st = "none" => conn[c].st = "none"
  /\ \/ (\E t \in Slots : ErrandMoves(t)) /\ \A c \in Conns : SameLock(c)
     \/ \E t \in Threads, c \in Conns : SyncSpawned(t, c)
     \/ /\ task' = task
        /\ \A c \in Conns : SameLock(c) \/ (conn[c].st = "none" /\ conn'[c].sync = "idle")

\* What the requests to the connector and knowledge base routers may write.
LEMMA AdminStepMoves ==
  ASSUME ConnShape, Admin
  PROVE  AdminMoves
<1>0. TypeOK /\ ConnTypeOK /\ Api \in Slots
  BY DEF ConnShape, Slots
<1>t. /\ conn \in [Conns -> Conn] /\ kb \in {"none", "active", "deleting"}
      /\ syncs \in Nat /\ admin \in Nat
  BY <1>0 DEF ConnTypeOK
<1>x. ASSUME NEW t \in Slots, NEW c \in Conns, NEW pc \in {"list", "cascade", "flag"},
             task' = [task EXCEPT ![t].pc = pc, ![t].conn = c]
      PROVE  Writes(t, task'[t]) /\ task'[t].pc = pc /\ task'[t].conn = c
  <2> DEFINE r == [task[t] EXCEPT !.pc = pc, !.conn = c]
  <2>0. pc \in {"free"} \cup SyncPC \cup CascadePC \cup ApiPC
    BY DEF SyncPC, CascadePC, ApiPC
  <2>1. r \in Task /\ r.pc = pc /\ r.conn = c
    BY <1>0, <2>0, TaskTyped DEF Task
  <2>2. task' = [task EXCEPT ![t] = r]
    BY <1>x
  <2> HIDE DEF r
  <2>3. Writes(t, r)
    BY <1>0, <2>1, <2>2, TaskWritten
  <2> QED
    BY <2>1, <2>3 DEF Writes
<1>s. ASSUME NEW c \in Conns, NEW st \in {"active", "paused", "deleting"}, SetConn(c, st)
      PROVE  /\ conn' \in [Conns -> Conn]
             /\ \A b \in Conns : SameLock(b) /\ (conn'[b].st = "none" => conn[b].st = "none")
  BY <1>t, <1>s DEF SetConn, Exists, Conn, SameLock
<1>y. ASSUME NEW t \in Slots, NEW c \in Conns, NEW pc \in {"cascade", "flag"},
             task' = [task EXCEPT ![t].pc = pc, ![t].conn = c], Pc(t) = "free",
             pc = "cascade" => t \in Threads, pc = "flag" => t = Api
      PROVE  ErrandMoves(t)
  <2>1. Writes(t, task'[t]) /\ task'[t].pc = pc /\ task'[t].conn = c
    BY <1>x, <1>y
  <2>2. {"cascade", "flag", "free"} \subseteq ErrandPC
    BY DEF ErrandPC, CascadePC, ApiPC
  <2>3. pc \notin SyncPC \cup DocPC \cup AbortPC /\ (pc \in ApiPC => pc = "flag")
        /\ (pc \in CascadePC => pc = "cascade")
    BY DEF SyncPC, DocPC, AbortPC, ApiPC, CascadePC
  <2>4. TaskShape(t)'
    BY <1>y, <2>1, <2>3 DEF TaskShape, Pc, Page, Owner
  <2> QED
    BY <1>y, <2>1, <2>2, <2>4 DEF ErrandMoves
<1> USE DEF stores, others, quiet
<1>1. ASSUME NEW c \in Conns, TriggerSync(c) PROVE AdminMoves
  <2>1. /\ Exists(c) /\ conn[c].sync = "idle" /\ SetSync(c, "running") /\ syncs' = syncs + 1
        /\ Spawn(c, "list") /\ UNCHANGED <<stores, aborts, quiet, admin>>
    BY <1>1 DEF TriggerSync
  <2>2. PICK t \in Threads : Pc(t) = "free" /\ task' = [task EXCEPT ![t].pc = "list", ![t].conn = c]
    BY <2>1 DEF Spawn
  <2>3. conn' = [conn EXCEPT ![c].sync = "running"]
    BY <2>1 DEF SetSync
  <2>4. conn' \in [Conns -> Conn] /\ \A b \in Conns : conn'[b].st = "none" => conn[b].st = "none"
    BY <1>t, <2>3 DEF Conn
  <2>5. SyncSpawned(t, c)
    BY <1>x, <2>1, <2>2, <2>3 DEF SyncSpawned, Slots
  <2> QED
    BY <1>t, <2>1, <2>4, <2>5 DEF AdminMoves
<1>2. ASSUME NEW c \in Conns, AbortSync(c) PROVE AdminMoves
  <2>1. /\ Pc(Api) = "free" /\ admin' = admin + 1
        /\ task' = [task EXCEPT ![Api].pc = "flag", ![Api].conn = c]
        /\ UNCHANGED <<stores, conn, aborts, quiet, syncs>>
    BY <1>2 DEF AbortSync, Admitted, LoopFree
  <2>2. ErrandMoves(Api)
    BY <1>0, <1>y, <2>1
  <2> QED
    BY <1>0, <1>t, <2>1, <2>2 DEF AdminMoves, SameLock, Exists
<1>3. ASSUME NEW c \in Conns, DeleteConnector(c) PROVE AdminMoves
  <2>1. /\ SetConn(c, "deleting") /\ Spawn(c, "cascade") /\ admin' = admin + 1
        /\ UNCHANGED <<stores, aborts, quiet, syncs>>
    BY <1>3 DEF DeleteConnector, Admitted
  <2>2. PICK t \in Threads :
          Pc(t) = "free" /\ task' = [task EXCEPT ![t].pc = "cascade", ![t].conn = c]
    BY <2>1 DEF Spawn
  <2>3. t \in Slots /\ ErrandMoves(t)
    BY <1>y, <2>2 DEF Slots
  <2> QED
    BY <1>s, <1>t, <2>1, <2>3 DEF AdminMoves
<1>4. ASSUME NEW c \in Conns, NEW type \in Types, CreateConnector(c, type) PROVE AdminMoves
  <2>1. /\ conn[c].st = "none"
        /\ conn' = [conn EXCEPT ![c] = [type |-> type, st |-> "active", sync |-> "idle"]]
        /\ UNCHANGED <<stores, aborts, task, others>>
    BY <1>4 DEF CreateConnector
  <2>2. [type |-> type, st |-> "active", sync |-> "idle"] \in Conn
    BY ConnectorAssumption DEF Conn, SourceType
  <2>3. /\ conn' \in [Conns -> Conn]
        /\ \A b \in Conns : /\ SameLock(b) \/ (conn[b].st = "none" /\ conn'[b].sync = "idle")
                            /\ conn'[b].st = "none" => conn[b].st = "none"
    BY <1>t, <2>1, <2>2 DEF SameLock, Exists
  <2> QED
    BY <1>t, <2>1, <2>3 DEF AdminMoves
<1>5. ASSUME NEW c \in Conns, NEW st \in {"active", "paused"}, PatchConnector(c, st)
      PROVE  AdminMoves
  <2>1. /\ SetConn(c, st) /\ admin' = admin + 1
        /\ UNCHANGED <<stores, aborts, task, quiet, syncs>>
    BY <1>5 DEF PatchConnector, Admitted
  <2> QED
    BY <1>s, <1>t, <2>1 DEF AdminMoves
<1>6. CASE DeleteKb
  <2>1. /\ Pc(Api) = "free" /\ admin' = admin + 1 /\ kb' = "deleting"
        /\ AbortOf(Api, ActiveKbDocs, "collection")
        /\ UNCHANGED <<rows, s3, chunks, redis, overridden, conn, owner, marked, aborts, quiet, syncs>>
    BY <1>6 DEF DeleteKb, Admitted, LoopFree
  <2>2. "free" \in ErrandPC /\ ActiveKbDocs \in SUBSET DocIds
    BY DEF ErrandPC, ActiveKbDocs
  <2>3. ErrandMoves(Api)
    BY <1>0, <2>1, <2>2, AbortOfMoves
  <2> QED
    BY <1>0, <1>t, <2>1, <2>3 DEF AdminMoves, SameLock, Exists
<1> QED
  BY <1>1, <1>2, <1>3, <1>4, <1>5, <1>6 DEF Admin

\* The requests to the routers keep the types and the shape of the tasks.
LEMMA AdminTyped ==
  ASSUME ConnShape, Admin
  PROVE  ConnShape'
<1>0. TypeOK /\ Shape /\ ConnTypeOK /\ TasksShape
  BY DEF ConnShape
<1>1. AdminMoves
  BY AdminStepMoves
<1>3. TypeOK' /\ Shape'
  BY <1>0, <1>1 DEF AdminMoves, quiet, rows, redis, counters, TypeOK, Shape, LoopShape, JobShape
<1>4. TasksShape' /\ task' \in [Slots -> Task]
  <2>1. CASE \E t \in Slots : ErrandMoves(t)
    BY <1>0, <2>1, TasksKeepShape DEF ErrandMoves, Writes
  <2>2. ASSUME NEW t \in Threads, NEW c \in Conns, SyncSpawned(t, c)
        PROVE  TasksShape' /\ task' \in [Slots -> Task]
    <3>1. "list" \in SyncPC /\ "list" \notin DocPC \cup CascadePC \cup ApiPC \cup AbortPC
      BY DEF SyncPC, DocPC, AbortPC, ApiPC, CascadePC
    <3>2. TaskShape(t)'
      BY <2>2, <3>1 DEF SyncSpawned, TaskShape, Pc, Page, Owner
    <3> QED
      BY <1>0, <2>2, <3>2, TasksKeepShape DEF SyncSpawned, Writes, Slots
  <2>3. CASE task' = task
    BY <1>0, <2>3 DEF TasksShape, TaskShape, Pc, Page, Owner, ConnTypeOK, Slots
  <2> QED
    BY <1>1, <2>1, <2>2, <2>3 DEF AdminMoves
<1>5. ConnTypeOK'
  BY <1>0, <1>1, <1>4 DEF AdminMoves, ConnTypeOK, Slots, aborts, quiet
<1> QED
  BY <1>3, <1>4, <1>5 DEF ConnShape

\* The steps of QueueWorker, Pipelines and the origin, and a crash.
LEMMA RestTyped ==
  ASSUME ConnShape, WorkerStep \/ (\E j \in Jobs : PipelineStep(j)) \/ Edit \/ Restart
  PROVE  ConnShape'
<1>0. TypeOK /\ Shape /\ ConnTypeOK /\ TasksShape
  BY DEF ConnShape
<1>1. CASE WorkerStep \/ \E j \in Jobs : PipelineStep(j)
  <2>1. TypeOK' /\ Shape'
    <3>1. CASE WorkerStep
      BY <1>0, <3>1, WorkerTyped, HandleTyped DEF WorkerStep, Handle
    <3>2. CASE \E j \in Jobs : PipelineStep(j)
      BY <1>0, <3>2, PipelineTyped DEF PipelineStep
    <3> QED
      BY <1>1, <3>1, <3>2
  <2>2. marked' \subseteq marked /\ UNCHANGED <<kb, conn, owner, aborts, bounds, site, task>>
    BY <1>1 DEF WorkerStep, PipelineStep
  <2>3. ConnTypeOK'
    BY <1>0, <2>2 DEF ConnTypeOK, aborts, bounds
  <2>4. TasksShape'
    BY <1>0, <2>2 DEF TasksShape, TaskShape, Pc, Page, Owner
  <2> QED
    BY <2>1, <2>3, <2>4 DEF ConnShape
<1>2. CASE Edit
  <2>1. TypeOK' /\ Shape'
    BY <1>0, <1>2 DEF Edit, vars, rows, redis, counters, history, TypeOK, Shape, LoopShape, JobShape
  <2>2. site' \in [Sources -> Nat] /\ edits' \in Nat
    BY <1>0, <1>2 DEF Edit, ConnTypeOK
  <2>3. ConnTypeOK'
    BY <1>0, <1>2, <2>2 DEF Edit, ConnTypeOK, tables, aborts
  <2>4. TasksShape'
    BY <1>0, <1>2 DEF Edit, TasksShape, TaskShape, Pc, Page, Owner
  <2> QED
    BY <2>1, <2>3, <2>4 DEF ConnShape
<1>3. CASE Restart
  <2>1. TypeOK' /\ Shape'
    BY <1>0, <1>3, WorkerTyped DEF Restart
  <2>2. task' = [t \in Slots |-> FreeTask]
    BY <1>3 DEF Restart, Slots
  <2>3. ConnTypeOK'
    BY <1>0, <1>3, <2>2, FreeTaskTyped DEF Restart, ConnTypeOK, tables, bounds, Slots
  <2>4. TasksShape'
    BY <2>2 DEF TasksShape, TaskShape, Pc, Page, Owner, FreeTask, DocPC, SyncPC, CascadePC,
       AbortPC, ApiPC
  <2> QED
    BY <2>1, <2>3, <2>4 DEF ConnShape
<1> QED
  BY <1>1, <1>2, <1>3

\* Every step of the whole system keeps the types and the shape of the tasks.
LEMMA ConnShapeKept == ConnShape /\ [SysNext]_allVars => ConnShape'
<1> SUFFICES ASSUME ConnShape, [SysNext]_allVars PROVE ConnShape'
  OBVIOUS
<1>1. CASE UNCHANGED allVars
  <2>1. UNCHANGED <<vars, tables, aborts, bounds, site, task>>
    BY <1>1 DEF allVars, connVars
  <2> QED
    BY <2>1 DEF vars, tables, aborts, bounds, rows, redis, counters, history, ConnShape, TypeOK,
       Shape, LoopShape, JobShape, ConnTypeOK, TasksShape, TaskShape, Pc, Page, Owner
<1>2. CASE AdminStep \/ \E t \in Threads : CascadeStep(t)
  BY <1>2, ErrandTyped DEF Slots
<1> QED
  BY <1>1, <1>2, AdminTyped, SyncTyped, RestTyped DEF SysNext

\* The initial states have the types, and all their slots are free.
LEMMA SysInitShaped == SysInit => ConnShape
<1> SUFFICES ASSUME SysInit PROVE ConnShape
  OBVIOUS
<1>1. TypeOK /\ Shape
  BY InitTyped DEF SysInit
<1>2. ConnInit
  BY DEF SysInit
<1>3. ConnTypeOK
  <2>1. [c \in Conns |-> [type |-> "web", st |-> "none", sync |-> "idle"]] \in [Conns -> Conn]
    BY DEF Conn, SourceType
  <2> QED
    BY <1>2, <2>1, FreeTaskTyped DEF ConnInit, ConnTypeOK
<1>4. TasksShape
  BY <1>2 DEF ConnInit, TasksShape, TaskShape, Slots, Pc, Page, Owner, FreeTask, DocPC, SyncPC,
     CascadePC, AbortPC, ApiPC
<1> QED
  BY <1>1, <1>3, <1>4 DEF ConnShape

\* The connector tables, the tasks and the abort registry hold what the code puts
\* into them, for any number of connectors, documents and background tasks.
THEOREM ConnTypesHold == SysSpec => []ConnTypeOK
<1>1. ConnShape => ConnTypeOK
  BY DEF ConnShape
<1> QED
  BY SysInitShaped, ConnShapeKept, <1>1, PTL DEF SysSpec

-----------------------------------------------------------------------------
(* sync_status as a lock. *)

\* What a lock that shows idle, or is gone, leaves behind: only syncs that were
\* told to stop, or whose lock another one has released.
LockInv ==
  \A c \in Conns :
    /\ \A t, u \in Syncing(c) : t # u => {t, u} \cap (cut \cup unlocked) # {}
    /\ Exists(c) /\ conn[c].sync = "idle" => Syncing(c) \subseteq cut \cup unlocked
    /\ ~Exists(c) => conn[c].sync = "idle"
    /\ conn[c].st = "none" => Syncing(c) = {}

\* Nobody begins to sync in a step that writes a task outside a sync.
LEMMA ErrandSyncing ==
  ASSUME TasksShape, NEW t \in Slots, ErrandMoves(t), NEW c \in Conns
  PROVE  Syncing(c)' = Syncing(c)
<1>1. \A pc \in ErrandPC : pc \notin SyncPC
  BY DEF ErrandPC, SyncPC, CascadePC, ApiPC, AbortPC
<1> QED
  BY <1>1 DEF ErrandMoves, Writes, Syncing, Pc, Owner, Slots

\* Who is syncing after a step of a sync thread.
LEMMA SyncSyncing ==
  ASSUME ConnShape, NEW t \in Threads, SyncStep(t), NEW c \in Conns
  PROVE  /\ Syncing(c)' \subseteq Syncing(c)
         /\ SetIdle(t) /\ c = Owner(t) => Syncing(c)' = Syncing(c) \ {t}
         /\ ~(SetIdle(t) /\ c = Owner(t)) => Syncing(c)' = Syncing(c)
<1>1. SyncMoves(t) /\ Pc(t) \in SyncPC /\ Owner(t) \in Conns
  BY SyncStepMoves
<1>2. Writes(t, task'[t])
  BY <1>1 DEF SyncMoves
<1>3. \A u \in Threads \ {t} : u \in Syncing(c)' <=> u \in Syncing(c)
  BY <1>2 DEF Writes, Syncing, Pc, Owner, Slots
<1>4. SetIdle(t) => /\ Pc(t) = "idle" /\ task'[t].pc = "clear"
  <2>1. ConnTypeOK /\ t \in Slots
    BY DEF ConnShape, Slots
  <2>2. "clear" \in TaskPC
    BY DEF TaskPC, SyncPC
  <2> QED
    BY <2>1, <2>2, JumpEffect DEF SetIdle
<1>5. ClearAbort(t) => Pc(t) = "clear"
  BY DEF ClearAbort
<1>6. CASE ClearAbort(t)
  <2>1. task'[t].pc = "free" /\ "free" \notin SyncPC
    BY <1>1, <1>6 DEF SyncMoves, FreeTask, SyncPC
  <2>2. t \notin Syncing(c) /\ t \notin Syncing(c)'
    BY <1>5, <1>6, <2>1 DEF Syncing, Pc
  <2> QED
    BY <1>3, <1>4, <1>5, <1>6, <2>2 DEF Syncing
<1>7. CASE SetIdle(t)
  <2>1. t \notin Syncing(c)' /\ (t \in Syncing(c) <=> c = Owner(t))
    BY <1>4, <1>7, <1>1 DEF Syncing, Pc, Owner
  <2> QED
    BY <1>3, <1>7, <2>1 DEF Syncing
<1>8. CASE ~ClearAbort(t) /\ ~SetIdle(t)
  <2>1. /\ task'[t].conn = task[t].conn /\ task'[t].pc \in SyncPC \ {"clear"}
    BY <1>1, <1>8 DEF SyncMoves
  <2>2. Pc(t) # "clear"
    BY <1>8 DEF SyncStep, List, NextPage, NextAttachment, WebRow, WebFetchError, WebSkip,
       WebUnchanged, WebChanged, GitHubRow, ConfluenceRow, AttachmentRow, Mark, Raises, HookStops,
       Put, PutFails, Stage, SyncEnqueue, SyncPending, SyncPush, Finish, MarkActive, SyncError
  <2>3. t \in Syncing(c)' <=> t \in Syncing(c)
    BY <1>1, <2>1, <2>2 DEF Syncing, Pc, Owner
  <2> QED
    BY <1>3, <1>8, <2>3 DEF Syncing
<1> QED
  BY <1>6, <1>7, <1>8

\* Every step keeps the lock: the syncs of a connector that nobody cut short are the holder alone.
LEMMA LockKept ==
  ASSUME ConnShape, LockInv, [SysNext]_allVars
  PROVE  LockInv'
<1>0. TypeOK /\ ConnTypeOK /\ TasksShape /\ conn \in [Conns -> Conn]
  BY DEF ConnShape, ConnTypeOK
<1> SUFFICES ASSUME NEW c \in Conns
             PROVE  /\ \A t, u \in Syncing(c)' : t # u => {t, u} \cap (cut' \cup unlocked') # {}
                    /\ Exists(c)' /\ conn'[c].sync = "idle" => Syncing(c)' \subseteq cut' \cup unlocked'
                    /\ ~Exists(c)' => conn'[c].sync = "idle"
                    /\ conn'[c].st = "none" => Syncing(c)' = {}
  BY Zenon DEF LockInv
<1>i. /\ \A t, u \in Syncing(c) : t # u => {t, u} \cap (cut \cup unlocked) # {}
      /\ Exists(c) /\ conn[c].sync = "idle" => Syncing(c) \subseteq cut \cup unlocked
      /\ ~Exists(c) => conn[c].sync = "idle"
      /\ conn[c].st = "none" => Syncing(c) = {}
  BY DEF LockInv
<1>e. /\ conn[c].st = "none" => ~Exists(c)
      /\ conn'[c].st = "none" => ~Exists(c)'
  BY DEF Exists
<1>h. (conn' = conn /\ task' = task) => Syncing(c)' = Syncing(c) /\ Exists(c)' = Exists(c)
  BY DEF Syncing, Exists, Pc, Owner
<1>1. CASE \/ UNCHANGED allVars \/ WorkerStep \/ (\E j \in Jobs : PipelineStep(j)) \/ Edit
  <2>1. UNCHANGED <<conn, task, cut, unlocked>>
    BY <1>1 DEF allVars, connVars, tables, aborts, WorkerStep, PipelineStep, Edit
  <2> QED
    BY <1>i, <1>h, <2>1
<1>2. CASE Restart
  <2>1. task' = [t \in Slots |-> FreeTask] /\ conn' = conn
    BY <1>2 DEF Restart, tables, Slots
  <2>2. Syncing(c)' = {}
    BY <2>1 DEF Syncing, Pc, Owner, FreeTask, SyncPC, Slots
  <2>3. Exists(c)' = Exists(c)
    BY <2>1 DEF Exists
  <2> QED
    BY <1>i, <2>1, <2>2, <2>3
<1>3. ASSUME NEW t \in Slots, CascadeStep(t) \/ (t = Api /\ AdminStep)
      PROVE  /\ \A s, u \in Syncing(c)' : s # u => {s, u} \cap (cut' \cup unlocked') # {}
             /\ Exists(c)' /\ conn'[c].sync = "idle" => Syncing(c)' \subseteq cut' \cup unlocked'
             /\ ~Exists(c)' => conn'[c].sync = "idle"
             /\ conn'[c].st = "none" => Syncing(c)' = {}
  <2>1. ErrandMoves(t) /\ ErrandTables
    BY <1>3, ErrandStepMoves, ErrandWrites
  <2>2. Syncing(c)' = Syncing(c)
    BY <1>0, <2>1, ErrandSyncing
  <2>3. cut \subseteq cut' /\ unlocked' = unlocked
    BY <2>1 DEF ErrandTables
  <2>4. /\ conn'[c].st = "none" <=> conn[c].st = "none"
        /\ \/ conn'[c].sync = conn[c].sync /\ Exists(c)' = Exists(c)
           \/ conn'[c].sync = "idle" /\ ~Exists(c)'
           \/ conn'[c].sync = "idle" /\ Exists(c)' /\ Syncing(c) \subseteq cut'
    BY <2>1 DEF ErrandTables
  <2> QED
    BY <1>i, <2>2, <2>3, <2>4
<1>4. CASE Admin
  <2>1. AdminMoves
    BY <1>4, AdminStepMoves
  <2>2. UNCHANGED <<cut, unlocked>> /\ (conn'[c].st = "none" => conn[c].st = "none")
    BY <2>1 DEF AdminMoves, aborts
  <2>3. CASE (\E t \in Slots : ErrandMoves(t)) /\ SameLock(c)
    <3>1. Syncing(c)' = Syncing(c)
      BY <1>0, <2>3, ErrandSyncing
    <3> QED
      BY <1>i, <2>2, <2>3, <3>1 DEF SameLock
  <2>4. ASSUME NEW t \in Threads, NEW b \in Conns, SyncSpawned(t, b)
        PROVE  /\ \A s, u \in Syncing(c)' : s # u => {s, u} \cap (cut' \cup unlocked') # {}
               /\ Exists(c)' /\ conn'[c].sync = "idle" => Syncing(c)' \subseteq cut' \cup unlocked'
               /\ ~Exists(c)' => conn'[c].sync = "idle"
               /\ conn'[c].st = "none" => Syncing(c)' = {}
    <3>1. /\ Pc(t) = "free" /\ Writes(t, task'[t]) /\ task'[t].pc = "list" /\ task'[t].conn = b
          /\ Exists(b) /\ conn[b].sync = "idle" /\ conn' = [conn EXCEPT ![b].sync = "running"]
      BY <2>4 DEF SyncSpawned
    <3>2. "free" \notin SyncPC /\ "list" \in SyncPC
      BY DEF SyncPC
    <3>3. \A u \in Threads \ {t} : u \in Syncing(c)' <=> u \in Syncing(c)
      BY <3>1 DEF Writes, Syncing, Pc, Owner, Slots
    <3>4. t \in Syncing(c)' <=> c = b
      BY <3>1, <3>2 DEF Syncing, Pc, Owner
    <3>5. t \notin Syncing(c)
      BY <3>1, <3>2 DEF Syncing
    <3>6. conn'[c].st = conn[c].st /\ Exists(c)' = Exists(c)
          /\ conn'[c].sync = IF c = b THEN "running" ELSE conn[c].sync
      BY <1>0, <3>1 DEF Exists, Conn
    <3>7. Syncing(c)' = IF c = b THEN Syncing(c) \cup {t} ELSE Syncing(c)
      BY <3>3, <3>4, <3>5 DEF Syncing
    <3>8. CASE c = b
      BY <1>e, <1>i, <2>2, <3>1, <3>6, <3>7, <3>8
    <3>9. CASE c # b
      BY <1>i, <2>2, <3>6, <3>7, <3>9
    <3> QED
      BY <3>8, <3>9
  <2>5. CASE task' = task /\ (SameLock(c) \/ (conn[c].st = "none" /\ conn'[c].sync = "idle"))
    <3>1. Syncing(c)' = Syncing(c)
      BY <2>5 DEF Syncing, Pc, Owner
    <3> QED
      BY <1>i, <2>2, <2>5, <3>1 DEF SameLock
  <2> QED
    BY <2>1, <2>3, <2>4, <2>5 DEF AdminMoves
<1>5. ASSUME NEW t \in Threads, SyncStep(t)
      PROVE  /\ \A s, u \in Syncing(c)' : s # u => {s, u} \cap (cut' \cup unlocked') # {}
             /\ Exists(c)' /\ conn'[c].sync = "idle" => Syncing(c)' \subseteq cut' \cup unlocked'
             /\ ~Exists(c)' => conn'[c].sync = "idle"
             /\ conn'[c].st = "none" => Syncing(c)' = {}
  <2>1. SyncTables(t) /\ Owner(t) \in Conns
    BY <1>5, SyncWrites, SyncStepMoves
  <2>2. Exists(c)' = Exists(c) /\ (SetIdle(t) \/ conn'[c].sync = conn[c].sync)
    BY <2>1 DEF SyncTables
  <2>3. CASE SetIdle(t)
    <3>1. /\ unlocked' = (unlocked \cup Syncing(Owner(t))) \ {t} /\ cut' = cut
          /\ conn' = [conn EXCEPT ![Owner(t)].sync = IF Exists(Owner(t)) THEN "idle" ELSE @]
      BY <2>3 DEF SetIdle, SetSync
    <3>2. conn'[c].st = conn[c].st
          /\ conn'[c].sync = IF c = Owner(t) /\ Exists(c) THEN "idle" ELSE conn[c].sync
      BY <1>0, <2>1, <3>1 DEF Conn
    <3>3. CASE c = Owner(t)
      <4>1. Syncing(c)' = Syncing(c) \ {t}
        BY <1>5, <2>3, <3>3, SyncSyncing
      <4>2. Syncing(c)' \subseteq unlocked'
        BY <3>1, <3>3, <4>1
      <4> QED
        BY <1>i, <2>2, <3>2, <4>1, <4>2
    <3>4. CASE c # Owner(t)
      <4>1. Syncing(c)' = Syncing(c)
        BY <1>5, <3>4, SyncSyncing
      <4>2. t \notin Syncing(c)
        BY <3>4 DEF Syncing
      <4> QED
        BY <1>i, <2>2, <3>1, <3>2, <3>4, <4>1, <4>2
    <3> QED
      BY <3>3, <3>4
  <2>4. CASE ClearAbort(t) /\ ~SetIdle(t)
    <3>1. cut' = cut \ {t} /\ unlocked' = unlocked /\ conn' = conn /\ Pc(t) = "clear"
      BY <2>4 DEF ClearAbort, tables
    <3>2. Syncing(c)' = Syncing(c)
      BY <1>5, <2>4, SyncSyncing
    <3>3. t \notin Syncing(c)
      BY <3>1 DEF Syncing
    <3> QED
      BY <1>i, <2>2, <3>1, <3>2, <3>3
  <2>5. CASE ~ClearAbort(t) /\ ~SetIdle(t)
    <3>1. UNCHANGED <<cut, unlocked>> /\ conn'[c].sync = conn[c].sync
      BY <2>1, <2>5 DEF SyncTables
    <3>2. Syncing(c)' = Syncing(c)
      BY <1>5, <2>5, SyncSyncing
    <3>3. conn'[c].st = "none" => conn[c].st = "none"
      <4>1. CASE conn' = conn
        BY <4>1
      <4>2. CASE MarkActive(t) \/ SyncError(t)
        BY <1>0, <2>1, <4>2 DEF MarkActive, SyncError, SetConn, Conn, Exists
      <4>3. conn' = conn \/ MarkActive(t) \/ SyncError(t)
        BY <1>5, <2>5 DEF SyncStep, List, NextPage, NextAttachment, WebRow, WebFetchError, WebSkip,
           WebUnchanged, WebChanged, GitHubRow, ConfluenceRow, AttachmentRow, Mark, Raises,
           HookStops, Put, PutFails, Stage, SyncEnqueue, SyncPending, SyncPush, Finish,
           unread, tables
      <4> QED
        BY <4>1, <4>2, <4>3
    <3> QED
      BY <1>i, <2>2, <3>1, <3>2, <3>3
  <2> QED
    BY <2>3, <2>4, <2>5
<1> QED
  BY <1>1, <1>2, <1>3, <1>4, <1>5 DEF SysNext, Slots

\* sync_status is a lock over any number of syncs, aborts and deletions of a
\* connector: two threads sync it at once only when a client has asked one of them
\* to abort, or when the end of such a sync has released the other's lock.
THEOREM OneSyncHolds == SysSpec => []OneSync
<1>1. SysInit => LockInv
  BY DEF SysInit, ConnInit, LockInv, Syncing, Pc, Owner, FreeTask, SyncPC, Exists
<1>2. ConnShape /\ LockInv /\ [SysNext]_allVars => (ConnShape /\ LockInv)'
  BY ConnShapeKept, LockKept
<1>3. LockInv => OneSync
  BY DEF LockInv, OneSync
<1> QED
  BY SysInitShaped, <1>1, <1>2, <1>3, PTL DEF SysSpec

\* The lock is released by somebody: without a crash a connector that shows a
\* running sync has a thread inside one, through aborts, deletions and new syncs.
THEOREM RunningIsLiveHolds == SysSpec => []RunningIsLive
<1>1. SysInit => RunningIsLive
  BY DEF SysInit, ConnInit, RunningIsLive
<1>2. ConnShape /\ LockInv /\ RunningIsLive /\ [SysNext]_allVars => RunningIsLive'
  <2> SUFFICES ASSUME ConnShape, LockInv, RunningIsLive, [SysNext]_allVars,
                      crashes' = 0, NEW c \in Conns, conn'[c].sync = "running"
               PROVE  Syncing(c)' # {}
    BY Zenon DEF RunningIsLive
  <2>0. TypeOK /\ ConnTypeOK /\ TasksShape /\ conn \in [Conns -> Conn] /\ crashes \in Nat
    BY DEF ConnShape, ConnTypeOK, TypeOK
  <2>1. CASE \/ UNCHANGED allVars \/ WorkerStep \/ (\E j \in Jobs : PipelineStep(j)) \/ Edit
    <3>1. UNCHANGED <<conn, task>>
      BY <2>1 DEF allVars, connVars, tables, aborts, WorkerStep, PipelineStep, Edit
    <3>2. crashes = 0
      BY <2>1, ZenonT(60) DEF allVars, vars, counters, WorkerStep, Poll, PollBegin, DrainNext, DrainDone, Take,
         Claim, ListDone, TakeError, StartTask, SetPending, Push, PipelineStep, JobStep, IngestStep,
         DeleteStep, IngestLoad, IngestBegin, Parse, Detect, Identical, Resolve, MoveChunks,
         PurgeOther, RetireOther, Embed, Clear, Insert, SetIndexed, Fail, SetFailed, DeleteLoad,
         SetDeleting, DeleteChunks, DeleteFile, DeleteRow, apiVars, Edit
    <3> QED
      BY <3>1, <3>2 DEF RunningIsLive, Syncing, Pc, Owner
  <2>2. CASE Restart
    BY <2>0, <2>2 DEF Restart, Crash
  <2>3. ASSUME NEW t \in Slots, CascadeStep(t) \/ (t = Api /\ AdminStep) PROVE Syncing(c)' # {}
    <3>1. ErrandMoves(t) /\ ErrandTables
      BY <2>3, ErrandStepMoves, ErrandWrites
    <3>2. Syncing(c)' = Syncing(c)
      BY <2>0, <3>1, ErrandSyncing
    <3>3. conn[c].sync = "running" /\ crashes = 0
      BY <3>1 DEF ErrandTables, counters
    <3> QED
      BY <3>2, <3>3 DEF RunningIsLive
  <2>4. CASE Admin
    <3>1. AdminMoves
      BY <2>4, AdminStepMoves
    <3>2. crashes = 0
      BY <3>1 DEF AdminMoves, quiet, counters
    <3>3. CASE (\E t \in Slots : ErrandMoves(t)) /\ SameLock(c)
      BY <2>0, <3>2, <3>3, ErrandSyncing DEF SameLock, RunningIsLive
    <3>4. ASSUME NEW t \in Threads, NEW b \in Conns, SyncSpawned(t, b) PROVE Syncing(c)' # {}
      <4>1. CASE c = b
        <5>1. "list" \in SyncPC
          BY DEF SyncPC
        <5> QED
          BY <3>4, <4>1, <5>1 DEF SyncSpawned, Syncing, Pc, Owner
      <4>2. CASE c # b
        <5>1. conn'[c] = conn[c] /\ Pc(t) = "free" /\ Writes(t, task'[t])
          BY <2>0, <3>4, <4>2 DEF SyncSpawned
        <5>2. PICK u \in Syncing(c) : TRUE
          BY <3>2, <5>1 DEF RunningIsLive
        <5>3. u # t /\ u \in Slots
          BY <5>1, <5>2 DEF Syncing, SyncPC, Slots
        <5>4. u \in Syncing(c)'
          BY <5>1, <5>2, <5>3 DEF Writes, Syncing, Pc, Owner
        <5> QED
          BY <5>4
      <4> QED
        BY <4>1, <4>2
    <3>5. CASE task' = task /\ (SameLock(c) \/ conn'[c].sync = "idle")
      BY <3>2, <3>5 DEF SameLock, RunningIsLive, Syncing, Pc, Owner
    <3> QED
      BY <3>1, <3>3, <3>4, <3>5 DEF AdminMoves
  <2>5. ASSUME NEW t \in Threads, SyncStep(t) PROVE Syncing(c)' # {}
    <3>1. SyncTables(t) /\ Owner(t) \in Conns
      BY <2>5, SyncWrites, SyncStepMoves
    <3>2. crashes = 0
      BY <3>1 DEF SyncTables, counters
    <3>3. CASE SetIdle(t) /\ c = Owner(t)
      <4>1. conn' = [conn EXCEPT ![c].sync = IF Exists(c) THEN "idle" ELSE @]
        BY <3>3 DEF SetIdle, SetSync
      <4>2. ~Exists(c) => conn[c].sync = "idle"
        BY DEF LockInv
      <4> QED
        BY <2>0, <4>1, <4>2 DEF Conn
    <3>4. CASE ~(SetIdle(t) /\ c = Owner(t))
      <4>1. Syncing(c)' = Syncing(c)
        BY <2>5, <3>4, SyncSyncing
      <4>2. conn'[c].sync = conn[c].sync
        <5>1. CASE SetIdle(t)
          BY <2>0, <3>1, <3>4, <5>1 DEF SetIdle, SetSync
        <5>2. CASE ~SetIdle(t)
          BY <3>1, <5>2 DEF SyncTables
        <5> QED
          BY <5>1, <5>2
      <4> QED
        BY <3>2, <4>1, <4>2 DEF RunningIsLive
    <3> QED
      BY <3>3, <3>4
  <2> QED
    BY <2>1, <2>2, <2>3, <2>4, <2>5 DEF SysNext, Slots
<1>3. ConnShape /\ LockInv /\ [SysNext]_allVars => (ConnShape /\ LockInv)'
  BY ConnShapeKept, LockKept
<1>4. SysInit => LockInv
  BY DEF SysInit, ConnInit, LockInv, Syncing, Pc, Owner, FreeTask, SyncPC, Exists
<1> QED
  BY SysInitShaped, <1>1, <1>2, <1>3, <1>4, PTL DEF SysSpec

-----------------------------------------------------------------------------
(* Who holds a document that is being fetched, waits or is processed: the    *)
(* queue worker, as in ServesProofs, or a task.  The worker's part of        *)
(* ConnectorSystem never uploads and never fails a document by request.      *)

WorkerLoop == loop.op \notin FailOp \cup {"put"}

\* A sync thread is between claiming the document and staging it, between
\* staging it and pushing its event, or a task is going to fail it.
StagedBy(t, d) == Page(t) = d /\ Pc(t) \in {"put", "stage"}
HeldBy(t, d) ==
  \/ Page(t) = d /\ Pc(t) \in {"enqueue", "setPending", "push", "abortMark"}
  \/ d \in task[t].sub /\ Pc(t) \in AbortPC

Minded(d) ==
  /\ status[d] = "fetching" => \E t \in Slots : StagedBy(t, d)
  /\ Unsettled(d) => HasWork(d) \/ \E t \in Slots : HeldBy(t, d)

\* What is still to be dequeued is still to be failed.
ToFail(t) == Pc(t) = "abort" => task[t].todo \subseteq task[t].sub

MindedInv ==
  /\ WorkerLoop
  /\ \A t \in Slots : ToFail(t)
  /\ crashes = 0 => \A d \in DocIds : Minded(d)

\* The worker's steps never enter the handlers of the docs API.
LEMMA WorkerLoopKept ==
  ASSUME TypeOK, Shape, WorkerLoop, Poll \/ SetPending \/ Push
  PROVE  WorkerLoop'
<1> USE DEF WorkerLoop, FailOp
<1>t. ASSUME NEW k, TakeReady(k) PROVE loop'.op = "drain"
  BY <1>t DEF TakeReady, IdleLoop
<1>n. ASSUME loop.op = "take", NextList PROVE WorkerLoop'
  <2>1. CASE loop' = [loop EXCEPT !.kind = "delete", !.n = 0, !.more = (loop.n = MaxPerPoll)]
    BY <1>n, <2>1, LoopTyped
  <2>2. CASE loop' = IdleLoop
    BY <2>2 DEF IdleLoop
  <2> QED
    BY <1>n, <1>t, <2>1, <2>2 DEF NextList
<1>1. CASE PollBegin \/ DrainDone
  BY <1>1, <1>t DEF PollBegin, DrainDone, IdleLoop
<1>2. CASE DrainNext
  BY <1>2, LoopTyped DEF DrainNext
<1>3. CASE Take \/ Claim
  BY <1>3, LoopTyped DEF Take, Claim
<1>4. CASE ListDone \/ TakeError
  BY <1>4, <1>n DEF ListDone, TakeError
<1>5. CASE SetPending
  BY <1>5, LoopTyped DEF SetPending, Goto
<1>6. CASE Push
  BY <1>6, LoopTyped DEF Push, Return, IdleLoop, Shape, LoopShape
<1> QED
  BY <1>1, <1>2, <1>3, <1>4, <1>5, <1>6 DEF Poll

\* A document that no task holds is attended to like in the document service.
LEMMA MindedAttended ==
  ASSUME WorkerLoop, NEW d \in DocIds, Minded(d), ~\E t \in Slots : HeldBy(t, d)
  PROVE  Attended(d)
BY DEF WorkerLoop, Minded, Attended

\* The worker and the pipelines keep what nobody else holds.
LEMMA WorkMinded ==
  ASSUME ConnShape, WorkerLoop, WorkerLoop', NEW d \in DocIds, Minded(d), task' = task,
         status'[d] = "fetching" => status[d] = "fetching",
         Attended(d) => Attended(d)'
  PROVE  Minded(d)'
<1>1. \A t \in Slots : (HeldBy(t, d)' <=> HeldBy(t, d)) /\ (StagedBy(t, d)' <=> StagedBy(t, d))
  BY DEF HeldBy, StagedBy, Page, Pc
<1>2. CASE \E t \in Slots : HeldBy(t, d)
  BY <1>1, <1>2 DEF Minded
<1>3. CASE ~\E t \in Slots : HeldBy(t, d)
  <2>1. Attended(d)'
    BY <1>3, MindedAttended
  <2>2. Unsettled(d)' => HasWork(d)'
    BY <2>1 DEF WorkerLoop, Attended, BeingFailed
  <2> QED
    BY <1>1, <2>2 DEF Minded
<1> QED
  BY <1>2, <1>3

\* A step of the queue worker.
LEMMA WorkerMinded ==
  ASSUME ConnShape, WorkerLoop, WorkerStep, NEW d \in DocIds, Minded(d)
  PROVE  Minded(d)' /\ WorkerLoop' /\ crashes' = crashes
<1>0. TypeOK /\ Shape
  BY DEF ConnShape
<1>1. task' = task
  BY DEF WorkerStep
<1>2. CASE Poll \/ SetPending \/ Push
  <2>1. WorkerLoop'
    BY <1>0, <1>2, WorkerLoopKept
  <2>2. status'[d] = "fetching" => status[d] = "fetching"
    BY <1>0, <1>2, LoopTouches DEF Handle, FailMark, UploadBegin
  <2>3. Attended(d) => Attended(d)'
    BY <1>0, <1>2, PollOwner, HandleOwner DEF Handle
  <2>4. crashes' = crashes
    BY <1>2 DEF Poll, PollBegin, DrainNext, DrainDone, Take, Claim, ListDone, TakeError, SetPending,
                Push, counters
  <2> QED
    BY <1>1, <2>1, <2>2, <2>3, <2>4, WorkMinded
<1>3. ASSUME NEW j \in Jobs, StartTask(j) PROVE Minded(d)' /\ WorkerLoop' /\ crashes' = crashes
  <2>1. crashes' = crashes /\ UNCHANGED <<status, queue, delayed, loop>>
    BY <1>3 DEF StartTask, counters, rows, redis
  <2>2. job[j].pc = "wait" /\ Step(j, "load")
    BY <1>3 DEF StartTask, Step
  <2>3. JobsOf(d)' = JobsOf(d)
    BY <1>0, <2>2, StepEffect DEF JobsOf, PC
  <2>4. WorkerLoop'
    BY <2>1 DEF WorkerLoop
  <2>5. Attended(d) => Attended(d)'
    BY <2>1, <2>3 DEF Attended, Unsettled, HasWork, Kept, Queued, Delayed, Draining, InHand, HasJob,
                      Positions, BeingFailed
  <2> QED
    BY <1>1, <2>1, <2>4, <2>5, WorkMinded
<1> QED
  BY <1>2, <1>3 DEF WorkerStep

\* A step of a pipeline.
LEMMA PipelineMinded ==
  ASSUME ConnShape, WorkerLoop, NEW j \in Jobs, PipelineStep(j), NEW d \in DocIds, Minded(d)
  PROVE  Minded(d)' /\ WorkerLoop' /\ crashes' = crashes
<1>0. TypeOK /\ Shape /\ JobStep(j) /\ task' = task
  BY DEF ConnShape, PipelineStep
<1>1. JobMoves(j) /\ JobWrites(j)
  BY <1>0, PipelineMoves, PipelineWrites
<1>2. UNCHANGED loop
  BY <1>1 DEF JobMoves
<1>3. WorkerLoop'
  BY <1>2 DEF WorkerLoop
<1>4. status'[d] = "fetching" => status[d] = "fetching"
  <2>1. ASSUME NEW e, NEW st \in {"running", "indexed", "failed", "outdated", "deleting", "none", "deleted"},
               UpdateStatus(e, st)
        PROVE  status'[d] = "fetching" => status[d] = "fetching"
    BY <1>0, <2>1 DEF UpdateStatus, TypeOK
  <2> QED
    BY <1>1, <2>1 DEF JobWrites
<1>5. Attended(d) => Attended(d)'
  BY <1>0, PipelineOwner
<1>6. crashes' = crashes
  BY <1>0 DEF JobStep, IngestStep, DeleteStep, IngestLoad, IngestBegin, Parse, Detect, Identical,
              Resolve, MoveChunks, PurgeOther, RetireOther, Embed, Clear, Insert, SetIndexed,
              DeleteLoad, SetDeleting, DeleteChunks, DeleteFile, DeleteRow, Fail, SetFailed,
              apiVars, counters
<1> QED
  BY <1>0, <1>3, <1>4, <1>5, <1>6, WorkMinded

\* A task's step: it lets a document go only when it is settled, or into a list,
\* and it brings one into work only to hold it.
TaskMinds(t, d) ==
  /\ StagedBy(t, d) /\ status'[d] = "fetching" => StagedBy(t, d)'
  /\ HeldBy(t, d) /\ Unsettled(d)' => HeldBy(t, d)' \/ HasWork(d)'
  /\ status'[d] = "fetching" => status[d] = "fetching" \/ StagedBy(t, d)'
  /\ Unsettled(d)' => Unsettled(d) \/ HeldBy(t, d)'
  /\ HasWork(d) /\ Unsettled(d)' => HasWork(d)' \/ HeldBy(t, d)'

\* A step that writes one task and does its part for a document leaves the document minded.
LEMMA TaskMinded ==
  ASSUME NEW t \in Slots, Writes(t, task'[t]), NEW d \in DocIds, Minded(d), TaskMinds(t, d)
  PROVE  Minded(d)'
<1>1. \A u \in Slots \ {t} : (HeldBy(u, d)' <=> HeldBy(u, d)) /\ (StagedBy(u, d)' <=> StagedBy(u, d))
  BY DEF Writes, HeldBy, StagedBy, Page, Pc
<1>2. status'[d] = "fetching" => \E u \in Slots : StagedBy(u, d)'
  BY <1>1 DEF Minded, TaskMinds
<1>3. Unsettled(d)' => HasWork(d)' \/ \E u \in Slots : HeldBy(u, d)'
  BY <1>1 DEF Minded, TaskMinds
<1> QED
  BY <1>2, <1>3 DEF Minded

\* With the lists, the loop and the jobs unchanged no work is lost.
LEMMA WorkSame ==
  ASSUME NEW d, UNCHANGED <<queue, delayed, loop, job>>
  PROVE  HasWork(d)' <=> HasWork(d)
BY DEF HasWork, Queued, Delayed, Draining, InHand, HasJob, JobsOf, Positions

\* A write of one document's status leaves the others' alone.
LEMMA OneStatus ==
  ASSUME TypeOK, NEW e, NEW st \in Status, UpdateStatus(e, st), NEW d \in DocIds
  PROVE  /\ d # e => status'[d] = status[d]
         /\ d = e => status'[d] \in {st, "none"}
BY DEF UpdateStatus, TypeOK, HasRow

\* A step of a sync hands on the document it holds, and forgets none.
LEMMA SyncMinds ==
  ASSUME ConnShape, NEW t \in Threads, SyncStep(t), NEW d \in DocIds
  PROVE  TaskMinds(t, d)
<1>0. TypeOK /\ ConnTypeOK /\ t \in Slots /\ TaskShape(t)
  BY DEF ConnShape, TasksShape, Slots
<1>s. {"failed", "fetching", "pending"} \subseteq Status
  BY DEF Status, RowStatus, StableStatus, ActiveStatus
<1>d. Pc(t) \in {"fetch", "mark", "put", "stage", "enqueue", "setPending", "push"} => Page(t) \in DocIds
  BY <1>0 DEF TaskShape, DocPC
<1>a. Pc(t) \in SyncPC => Pc(t) \notin AbortPC \cup {"abortMark"}
  BY DEF SyncPC, AbortPC
<1>b. Pc(t) \in SyncPC
  BY SyncStepMoves
<1>w. UNCHANGED <<queue, delayed, loop, job>> => (HasWork(d)' <=> HasWork(d))
  BY WorkSame
<1>j. ASSUME NEW pc \in {"setPending", "push"}, Jump(t, pc), Page(t) = d PROVE HeldBy(t, d)'
  <2>1. pc \in TaskPC
    BY DEF TaskPC, SyncPC
  <2> QED
    BY <1>0, <1>j, <2>1, JumpEffect DEF HeldBy, Page, Pc
\* Steps that write no row and no list.
<1>1. CASE /\ UNCHANGED <<status, queue, delayed, loop, job>>
           /\ Pc(t) \notin {"put", "stage", "enqueue", "setPending", "push"}
  BY <1>1, <1>a, <1>b, <1>w DEF TaskMinds, StagedBy, HeldBy, Unsettled
<1>2. CASE \/ List(t) \/ NextPage(t) \/ NextAttachment(t) \/ WebRow(t) \/ WebSkip(t)
           \/ WebChanged(t) \/ GitHubRow(t) \/ ConfluenceRow(t) \/ AttachmentRow(t)
           \/ Raises(t) \/ HookStops(t) \/ Finish(t)
  <2>1. UNCHANGED unread
    BY <1>2 DEF List, NextPage, NextAttachment, WebRow, WebSkip, WebChanged, GitHubRow,
       ConfluenceRow, AttachmentRow, Raises, HookStops, Finish
  <2>2. Pc(t) \in {"list", "page", "attach", "row", "fetch", "mark", "finish"}
    BY <1>2 DEF List, NextPage, NextAttachment, WebRow, WebSkip, WebChanged, GitHubRow,
       ConfluenceRow, AttachmentRow, Raises, HookStops, Finish
  <2> QED
    BY <1>1, <2>1, <2>2 DEF unread, rows, redis, others, quiet
<1>3. CASE MarkActive(t) \/ SyncError(t) \/ SetIdle(t) \/ ClearAbort(t) \/ WebUnchanged(t)
  BY <1>1, <1>3 DEF MarkActive, SyncError, SetIdle, ClearAbort, WebUnchanged, rows, redis, others, quiet
<1>4. CASE SyncEnqueue(t)
  <2>1. UNCHANGED <<status, queue, delayed, loop, job>> /\ Pc(t) = "enqueue"
    BY <1>4 DEF SyncEnqueue, unread, rows, redis, others, quiet
  <2>2. Page(t) = d /\ Unsettled(d) => HeldBy(t, d)'
    BY <1>4, <1>j DEF SyncEnqueue, Unsettled
  <2> QED
    BY <1>a, <1>b, <1>w, <2>1, <2>2 DEF TaskMinds, StagedBy, HeldBy, Unsettled
<1>5. CASE WebFetchError(t) \/ PutFails(t)
  <2>1. /\ UNCHANGED <<queue, delayed, loop, job>> /\ Pc(t) \in {"fetch", "put"} /\ Page(t) \in DocIds
    BY <1>5, <1>d DEF WebFetchError, PutFails, redis, others, quiet
  <2>2. UpdateStatus(Page(t), "failed") \/ status' = [status EXCEPT ![Page(t)] = "failed"]
    BY <1>5 DEF WebFetchError, PutFails, Assign, CreateDoc
  <2>3. /\ d # Page(t) => status'[d] = status[d]
        /\ d = Page(t) => status'[d] \in {"failed", "none"}
    BY <1>0, <1>s, <2>1, <2>2, OneStatus DEF TypeOK
  <2> QED
    BY <1>a, <1>b, <1>w, <2>1, <2>3 DEF TaskMinds, StagedBy, HeldBy, Unsettled
<1>6. CASE Mark(t)
  <2>1. UNCHANGED <<queue, delayed, loop, job>> /\ Pc(t) = "mark" /\ Page(t) \in DocIds
    BY <1>6, <1>d DEF Mark, redis, others, quiet
  <2>2. UpdateStatus(Page(t), "fetching") \/ status' = [status EXCEPT ![Page(t)] = "fetching"]
    BY <1>6 DEF Mark, Assign, CreateDoc
  <2>3. /\ d # Page(t) => status'[d] = status[d]
        /\ d = Page(t) => status'[d] \in {"fetching", "none"}
    BY <1>0, <1>s, <2>1, <2>2, OneStatus DEF TypeOK
  <2>4. d = Page(t) => StagedBy(t, d)'
    BY <1>0, <1>6 DEF Mark, StagedBy, Page, Pc, ConnTypeOK, Slots, Task
  <2> QED
    BY <1>a, <1>b, <1>w, <2>1, <2>3, <2>4 DEF TaskMinds, StagedBy, HeldBy, Unsettled
<1>7. CASE Put(t)
  <2>1. UNCHANGED <<status, queue, delayed, loop, job>> /\ Pc(t) = "put"
    BY <1>7 DEF Put, rows, redis, others, quiet
  <2>2. d = Page(t) => StagedBy(t, d)'
    BY <1>0, <1>7 DEF Put, StagedBy, Page, Pc, ConnTypeOK, Slots, Task
  <2> QED
    BY <1>a, <1>b, <1>w, <2>1, <2>2 DEF TaskMinds, StagedBy, HeldBy, Unsettled
<1>8. CASE Stage(t) \/ SyncPending(t)
  <2>1. /\ UNCHANGED <<queue, delayed, loop, job>> /\ Pc(t) \in {"stage", "setPending"}
        /\ UpdateStatus(Page(t), "pending")
    BY <1>8 DEF Stage, SyncPending, redis, others, quiet
  <2>2. /\ d # Page(t) => status'[d] = status[d]
        /\ d = Page(t) => status'[d] \in {"pending", "none"}
    BY <1>0, <1>s, <2>1, OneStatus
  <2>3. d = Page(t) => HeldBy(t, d)'
    BY <1>0, <1>8, <1>j DEF Stage, SyncPending, HeldBy, Page, Pc, ConnTypeOK, Slots, Task
  <2> QED
    BY <1>a, <1>b, <1>w, <2>1, <2>2, <2>3 DEF TaskMinds, StagedBy, HeldBy, Unsettled
<1>9. CASE SyncPush(t)
  <2> DEFINE e == [id |-> Page(t), force |-> FALSE]
  <2>1. /\ UNCHANGED <<status, delayed, loop, job>> /\ Pc(t) = "push" /\ Page(t) \in DocIds
        /\ queue' = [queue EXCEPT !["upload"] = Append(@, e)]
    BY <1>9, <1>d DEF SyncPush, rows, others, quiet
  <2>2. e \in Item /\ e.id = Page(t) /\ queue["upload"] \in Seq(Item) /\ queue \in [Kind -> Seq(Item)]
        /\ "upload" \in Kind
    BY <1>0, <2>1 DEF TypeOK, Item, Kind
  <2> HIDE DEF e
  <2>3. queue'["upload"] = Append(queue["upload"], e) /\ \A k \in Kind \ {"upload"} : queue'[k] = queue[k]
    BY <2>1, <2>2
  <2>4. \A k \in Kind : /\ Positions(queue[k], d) # {} => Positions(queue'[k], d) # {}
                        /\ k = "upload" /\ d = Page(t) => Positions(queue'[k], d) # {}
    BY <2>2, <2>3, AppendKeeps
  <2>5. \A k \in Kind : Positions(queue[k], d)' = Positions(queue'[k], d)
    BY DEF Positions
  <2>6. (Queued(d) => Queued(d)') /\ (d = Page(t) => Queued(d)')
    BY <2>2, <2>4, <2>5 DEF Queued
  <2>7. /\ Delayed(d)' <=> Delayed(d)
        /\ Draining(d)' <=> Draining(d)
        /\ InHand(d)' <=> InHand(d)
        /\ HasJob(d)' <=> HasJob(d)
    BY <2>1 DEF Delayed, Draining, InHand, HasJob, JobsOf
  <2>8. (HasWork(d) => HasWork(d)') /\ (d = Page(t) => HasWork(d)')
    BY <2>6, <2>7 DEF HasWork
  <2> QED
    BY <1>a, <1>b, <2>1, <2>8 DEF TaskMinds, StagedBy, HeldBy, Unsettled
<1> QED
  BY <1>2, <1>3, <1>4, <1>5, <1>6, <1>7, <1>8, <1>9 DEF SyncStep

\* Where abort_active_ingest begins, nothing is held yet; then all it will fail is.
LEMMA AbortBegins ==
  ASSUME ConnTypeOK, NEW t \in Slots, NEW docs \in SUBSET DocIds,
         NEW back \in {"free", "docs", "collection"}, AbortOf(t, docs, back)
  PROVE  ToFail(t)'
<1>1. CASE docs # {}
  <2> DEFINE r == [task[t] EXCEPT !.pc = "abort", !.back = back, !.todo = docs, !.sub = docs]
  <2>1. r.todo = docs /\ r.sub = docs /\ r \in Task
    BY TaskTyped, ZenonT(60) DEF Task, CascadePC, AbortPC
  <2>2. task' = [task EXCEPT ![t] = r]
    BY <1>1 DEF AbortOf
  <2> HIDE DEF r
  <2> QED
    BY <2>1, <2>2, TaskWritten DEF Writes, ToFail
<1>2. CASE docs = {}
  <2>1. CASE task' = [task EXCEPT ![t] = FreeTask]
    BY <2>1 DEF ToFail, Pc, FreeTask, ConnTypeOK, Slots
  <2>2. CASE Jump(t, back)
    <3>1. back \in TaskPC
      BY DEF TaskPC, CascadePC, ApiPC
    <3> QED
      BY <2>2, <3>1, JumpEffect DEF ToFail, Pc
  <2> QED
    BY <1>2, <2>1, <2>2 DEF AbortOf
<1> QED
  BY <1>1, <1>2

\* The tasks that abort and delete.
LEMMA ErrandMinds ==
  ASSUME ConnShape, NEW t \in Slots, ToFail(t), CascadeStep(t) \/ (t = Api /\ AdminStep)
  PROVE  ToFail(t)' /\ \A d \in DocIds : TaskMinds(t, d)
<1>0. TypeOK /\ ConnTypeOK /\ TaskShape(t) /\ task \in [Slots -> Task]
  BY DEF ConnShape, TasksShape, ConnTypeOK, Slots
<1>s. {"failed", "deleted"} \subseteq Status
  BY DEF Status, RowStatus, StableStatus
<1>w. ASSUME NEW d \in DocIds, UNCHANGED <<queue, delayed, loop, job>>
      PROVE  HasWork(d)' <=> HasWork(d)
  BY <1>w, WorkSame
\* Steps of a task that holds nothing.
<1>n. ASSUME NEW d \in DocIds, UNCHANGED <<status, queue, delayed, loop, job>>,
             Pc(t) \notin AbortPC \cup {"put", "stage", "enqueue", "setPending", "push"}
      PROVE  TaskMinds(t, d)
  <2>1. ~HeldBy(t, d) /\ ~StagedBy(t, d)
    BY <1>n DEF HeldBy, StagedBy, AbortPC
  <2> QED
    BY <1>n, <1>w, <2>1 DEF TaskMinds, Unsettled
<1>f. ASSUME NEW r \in Task, task' = [task EXCEPT ![t] = r], r.pc # "abort" PROVE ToFail(t)'
  BY <1>0, <1>f DEF ToFail, Pc
<1> USE DEF rows, redis, others, quiet
<1>1. CASE AbortActive(t)
  <2>1. Pc(t) \notin AbortPC \cup {"put", "stage", "enqueue", "setPending", "push"}
    BY <1>1 DEF AbortActive, AbortPC
  <2>2. UNCHANGED <<status, queue, delayed, loop, job>>
    BY <1>1 DEF AbortActive, stores
  <2>3. ActiveDocs(Owner(t)) \in SUBSET DocIds
    BY DEF ActiveDocs
  <2>4. ToFail(t)'
    BY <1>0, <1>1, <2>3, AbortBegins DEF AbortActive
  <2> QED
    BY <1>n, <2>1, <2>2, <2>4
<1>2. CASE AbortDequeue(t)
  <2>1. PICK e \in task[t].todo :
          /\ DequeueUploads(e)
          /\ task' = [task EXCEPT ![t].todo = @ \ {e},
                        ![t].pc = IF task[t].todo = {e} THEN "abortPurge" ELSE @]
    BY <1>2 DEF AbortDequeue
  <2>2. /\ Pc(t) = "abort" /\ UNCHANGED <<status, loop, job>>
    BY <1>2 DEF AbortDequeue
  <2>3. /\ task'[t].sub = task[t].sub /\ task'[t].todo = task[t].todo \ {e}
        /\ task'[t].pc \in {"abort", "abortPurge"} /\ task'[t].doc = task[t].doc
    BY <1>0, <2>1, <2>2 DEF Pc, Task
  <2>4. e \in task[t].sub /\ e \in DocIds
    BY <1>0, <2>1, <2>2, TaskTyped DEF ToFail
  <2>5. ToFail(t)'
    BY <2>2, <2>3 DEF ToFail, Pc
  <2>6. \A d \in DocIds : d \in task[t].sub <=> HeldBy(t, d)'
    BY <2>3 DEF HeldBy, Pc, AbortPC
  <2>7. ASSUME NEW d \in DocIds PROVE TaskMinds(t, d)
    <3>1. HasWork(d) => HasWork(d)' \/ d = e
      <4>1. /\ queue["upload"] \in Seq(Item)
            /\ queue'["upload"] = Without(queue["upload"], e)
            /\ queue'["delete"] = queue["delete"]
            /\ delayed'["upload"] = {it \in delayed["upload"] : it.id # e}
            /\ delayed'["delete"] = delayed["delete"]
        BY <1>0, <2>1 DEF DequeueUploads, TypeOK, Kind
      <4>2. d # e /\ Positions(queue["upload"], d) # {} => Positions(queue'["upload"], d) # {}
        BY <4>1, WithoutKeeps
      <4>3. d # e /\ Queued(d) => Queued(d)'
        <5>1. Positions(queue["delete"], d) = Positions(queue'["delete"], d)
          BY <4>1
        <5>2. \A k \in Kind : Positions(queue[k], d)' = Positions(queue'[k], d)
          BY DEF Positions
        <5> QED
          BY <4>2, <5>1, <5>2 DEF Queued, Kind
      <4>4. d # e /\ Delayed(d) => Delayed(d)'
        BY <4>1 DEF Delayed, Kind
      <4>5. /\ Draining(d)' <=> Draining(d)
            /\ InHand(d)' <=> InHand(d)
            /\ HasJob(d)' <=> HasJob(d)
        BY <2>2 DEF Draining, InHand, HasJob, JobsOf
      <4> QED
        BY <4>3, <4>4, <4>5 DEF HasWork
    <3>2. HeldBy(t, d) => HeldBy(t, d)'
      BY <2>2, <2>6 DEF HeldBy
    <3>3. ~StagedBy(t, d)
      BY <2>2 DEF StagedBy
    <3> QED
      BY <2>2, <2>4, <2>6, <3>1, <3>2, <3>3 DEF TaskMinds, Unsettled
  <2> QED
    BY <2>5, <2>7
<1>3. CASE AbortPurge(t)
  <2>1. PICK e \in task[t].sub :
          task' = [task EXCEPT ![t].pc = "abortMark", ![t].doc = e, ![t].sub = @ \ {e}]
    BY <1>3 DEF AbortPurge
  <2>2. Pc(t) = "abortPurge" /\ UNCHANGED <<status, queue, delayed, loop, job>>
    BY <1>3 DEF AbortPurge
  <2>3. task'[t].pc = "abortMark" /\ task'[t].doc = e /\ task'[t].sub = task[t].sub \ {e}
    BY <1>0, <2>1 DEF Task
  <2>4. ToFail(t)'
    BY <2>3 DEF ToFail, Pc
  <2>5. ASSUME NEW d \in DocIds PROVE TaskMinds(t, d)
    <3>1. HeldBy(t, d) => HeldBy(t, d)'
      BY <2>2, <2>3 DEF HeldBy, Pc, Page, AbortPC
    <3> QED
      BY <1>w, <2>2, <3>1 DEF TaskMinds, Unsettled, StagedBy
  <2> QED
    BY <2>4, <2>5
<1>4. CASE AbortMark(t)
  <2>1. /\ Pc(t) = "abortMark" /\ UpdateStatus(Page(t), "failed")
        /\ UNCHANGED <<queue, delayed, loop, job>>
    BY <1>4 DEF AbortMark
  <2>2. /\ task[t].sub # {} => task'[t].sub = task[t].sub /\ task'[t].pc = "abortPurge"
        /\ task'[t].pc # "abort"
    <3>1. task[t].back # "abort"
      BY <1>0, TaskTyped
    <3>2. FreeTask.pc # "abort"
      BY DEF FreeTask
    <3> QED
      BY <1>0, <1>4, <3>1, <3>2 DEF AbortMark, Task
  <2>3. ToFail(t)'
    BY <2>2 DEF ToFail, Pc
  <2>4. ASSUME NEW d \in DocIds PROVE TaskMinds(t, d)
    <3>1. /\ d # Page(t) => status'[d] = status[d]
          /\ d = Page(t) => status'[d] \in {"failed", "none"}
      BY <1>0, <1>s, <2>1, OneStatus
    <3>2. HeldBy(t, d) => HeldBy(t, d)' \/ d = Page(t)
      BY <2>1, <2>2 DEF HeldBy, Pc, AbortPC
    <3> QED
      BY <1>w, <2>1, <3>1, <3>2 DEF TaskMinds, Unsettled, StagedBy
  <2> QED
    BY <2>3, <2>4
<1>5. CASE CascadeRetire(t)
  <2>1. /\ Pc(t) = "retire" /\ UpdateStatus(Page(t), "deleted")
        /\ UNCHANGED <<queue, delayed, loop, job>> /\ NextItem(t, "chunks")
    BY <1>5 DEF CascadeRetire
  <2>0. "chunks" \in TaskPC
    BY DEF TaskPC, CascadePC
  <2>4. task'[t].pc = "chunks"
    BY <1>0, <2>0, <2>1, NextItemEffect
  <2>2. ToFail(t)'
    BY <2>4 DEF ToFail, Pc
  <2>3. ASSUME NEW d \in DocIds PROVE TaskMinds(t, d)
    <3>1. /\ d # Page(t) => status'[d] = status[d]
          /\ d = Page(t) => status'[d] \in {"deleted", "none"}
      BY <1>0, <1>s, <2>1, OneStatus
    <3>2. ~HeldBy(t, d) /\ ~StagedBy(t, d)
      BY <2>1 DEF HeldBy, StagedBy, AbortPC
    <3> QED
      BY <1>w, <2>1, <3>1, <3>2 DEF TaskMinds, Unsettled
  <2> QED
    BY <2>2, <2>3
<1>6. CASE CascadeDocs(t) \/ CascadeChunks(t) \/ CascadeForget(t)
  <2>1. /\ Pc(t) \in {"docs", "chunks"} /\ UNCHANGED <<status, queue, delayed, loop, job>>
    BY <1>6 DEF CascadeDocs, CascadeChunks, CascadeForget, stores
  <2>2. task'[t].pc # "abort"
    <3>1. CASE task' = [task EXCEPT ![t] = FreeTask]
      BY <1>0, <3>1 DEF FreeTask
    <3>2. ASSUME NEW docs, task' = [task EXCEPT ![t].pc = "chunks", ![t].todo = docs]
          PROVE  task'[t].pc # "abort"
      BY <1>0, <3>2 DEF Task
    <3>3. ASSUME NEW d \in task[t].todo,
                 task' = [task EXCEPT ![t].pc = "retire", ![t].doc = d, ![t].todo = @ \ {d}]
          PROVE  task'[t].pc # "abort"
      BY <1>0, <3>3 DEF Task
    <3> QED
      BY <1>6, <3>1, <3>2, <3>3, Zenon DEF CascadeDocs, CascadeChunks, CascadeForget
  <2> QED
    BY <1>n, <2>1, <2>2 DEF AbortPC, ToFail, Pc
<1>7. CASE t = Api /\ (RequestAbort \/ DropCollection \/ DeletePrefix)
  <2>1. /\ Pc(t) \in {"flag", "collection", "prefix"} /\ UNCHANGED <<status, queue, delayed, loop, job>>
    BY <1>7 DEF RequestAbort, DropCollection, DeletePrefix, stores
  <2>2. task'[t].pc # "abort"
    BY <1>0, <1>7 DEF RequestAbort, DropCollection, DeletePrefix, Jump, Task
  <2> QED
    BY <1>n, <2>1, <2>2 DEF AbortPC, ToFail, Pc
<1>8. CASE t = Api /\ DeleteMeta
  <2>1. /\ Pc(t) = "meta" /\ UNCHANGED <<queue, delayed, loop, job>>
        /\ \A d \in DocIds : status'[d] = "none"
    BY <1>8 DEF DeleteMeta
  <2>2. task'[t].pc # "abort"
    BY <1>0, <1>8 DEF DeleteMeta, FreeTask
  <2> QED
    BY <2>1, <2>2 DEF TaskMinds, Unsettled, ToFail, Pc
<1> QED
  BY <1>1, <1>2, <1>3, <1>4, <1>5, <1>6, <1>7, <1>8 DEF CascadeStep, AdminStep, AbortStep

\* Every step leaves every document minded.
LEMMA MindedKept ==
  ASSUME ConnShape, MindedInv, [SysNext]_allVars
  PROVE  MindedInv'
<1>0. TypeOK /\ Shape /\ ConnTypeOK /\ crashes \in Nat /\ WorkerLoop
  BY DEF ConnShape, TypeOK, MindedInv
<1>k. ASSUME task' = task PROVE \A t \in Slots : ToFail(t)'
  BY <1>k DEF MindedInv, ToFail, Pc
<1>l. (loop' = loop) => WorkerLoop'
  BY <1>0 DEF WorkerLoop
\* What has to be shown of a step that writes one task.
<1>t. ASSUME NEW t \in Slots, Writes(t, task'[t]), ToFail(t)', loop' = loop, crashes' = crashes,
             \A d \in DocIds : TaskMinds(t, d)
      PROVE  MindedInv'
  <2>1. \A u \in Slots \ {t} : ToFail(u)'
    BY <1>t DEF Writes, MindedInv, ToFail, Pc
  <2>2. ASSUME crashes' = 0, NEW d \in DocIds PROVE Minded(d)'
    BY <1>t, <2>2, TaskMinded DEF MindedInv
  <2> QED
    BY <1>l, <1>t, <2>1, <2>2 DEF MindedInv
\* What has to be shown of one that writes none.
<1>q. ASSUME task' = task, UNCHANGED <<status, queue, delayed, loop, job, crashes>> PROVE MindedInv'
  <2>1. ASSUME NEW d \in DocIds PROVE Minded(d)' <=> Minded(d)
    <3>1. HasWork(d)' <=> HasWork(d)
      BY <1>q, WorkSame
    <3>2. \A t \in Slots : (HeldBy(t, d)' <=> HeldBy(t, d)) /\ (StagedBy(t, d)' <=> StagedBy(t, d))
      BY <1>q DEF HeldBy, StagedBy, Page, Pc
    <3> QED
      BY <1>q, <3>1, <3>2 DEF Minded, Unsettled
  <2> QED
    BY <1>k, <1>l, <1>q, <2>1 DEF MindedInv
<1>1. CASE UNCHANGED allVars \/ Edit
  BY <1>1, <1>q DEF allVars, connVars, vars, rows, redis, counters, Edit
<1>2. CASE WorkerStep
  <2>1. task' = task
    BY <1>2 DEF WorkerStep
  <2>2. WorkerLoop' /\ crashes' = crashes
    <3>1. CASE Poll \/ SetPending \/ Push
      <4>1. crashes' = crashes
        BY <3>1 DEF Poll, PollBegin, DrainNext, DrainDone, Take, Claim, ListDone, TakeError,
                    SetPending, Push, counters
      <4> QED
        BY <1>0, <3>1, <4>1, WorkerLoopKept
    <3>2. CASE \E j \in Jobs : StartTask(j)
      BY <1>l, <3>2 DEF StartTask, counters
    <3> QED
      BY <1>2, <3>1, <3>2 DEF WorkerStep
  <2> QED
    BY <1>0, <1>2, <1>k, <2>1, <2>2, WorkerMinded DEF MindedInv
<1>3. ASSUME NEW j \in Jobs, PipelineStep(j) PROVE MindedInv'
  <2>1. task' = task
    BY <1>3 DEF PipelineStep
  <2>2. WorkerLoop' /\ crashes' = crashes
    <3>1. UNCHANGED <<loop, counters>>
      BY <1>3 DEF PipelineStep, JobStep, IngestStep, DeleteStep, IngestLoad, IngestBegin, Parse, Detect,
                  Identical, Resolve, MoveChunks, PurgeOther, RetireOther, Embed, Clear, Insert,
                  SetIndexed, DeleteLoad, SetDeleting, DeleteChunks, DeleteFile, DeleteRow, Fail,
                  SetFailed, apiVars
    <3> QED
      BY <1>l, <3>1 DEF counters
  <2> QED
    BY <1>0, <1>3, <1>k, <2>1, <2>2, PipelineMinded DEF MindedInv
<1>4. ASSUME NEW t \in Threads, SyncStep(t) PROVE MindedInv'
  <2>1. SyncTables(t) /\ SyncMoves(t) /\ t \in Slots
    BY <1>4, SyncWrites, SyncStepMoves DEF Slots
  <2>2. loop' = loop /\ crashes' = crashes /\ Writes(t, task'[t])
    BY <2>1 DEF SyncTables, SyncMoves, counters
  <2>3. ToFail(t)'
    <3>1. task'[t].pc # "abort"
      BY <2>1 DEF SyncMoves, FreeTask, SyncPC
    <3> QED
      BY <3>1 DEF ToFail, Pc
  <2> QED
    BY <1>4, <1>t, <2>1, <2>2, <2>3, SyncMinds
<1>5. ASSUME NEW t \in Slots, CascadeStep(t) \/ (t = Api /\ AdminStep) PROVE MindedInv'
  <2>1. ErrandTables /\ ErrandMoves(t)
    BY <1>5, ErrandWrites, ErrandStepMoves
  <2>2. loop' = loop /\ crashes' = crashes /\ Writes(t, task'[t])
    BY <2>1 DEF ErrandTables, ErrandMoves, counters
  <2> QED
    BY <1>5, <1>t, <2>2, ErrandMinds DEF MindedInv
<1>6. CASE Admin
  <2>1. AdminMoves
    BY <1>6, AdminStepMoves
  <2>2. UNCHANGED <<status, queue, delayed, loop, job, crashes>>
    BY <2>1 DEF AdminMoves, rows, redis, quiet, counters
  <2>3. CASE task' = task
    BY <1>q, <2>2, <2>3
  <2>4. ASSUME NEW t \in Slots, Pc(t) = "free", Writes(t, task'[t]), ToFail(t)' PROVE MindedInv'
    <3>1. ASSUME NEW d \in DocIds PROVE TaskMinds(t, d)
      <4>1. ~HeldBy(t, d) /\ ~StagedBy(t, d)
        BY <2>4 DEF HeldBy, StagedBy, AbortPC
      <4>2. HasWork(d)' <=> HasWork(d)
        BY <2>2, WorkSame
      <4> QED
        BY <2>2, <4>1, <4>2 DEF TaskMinds, Unsettled
    <3> QED
      BY <1>t, <2>2, <2>4, <3>1
  <2>5. ASSUME NEW t \in Slots, NEW c \in Conns, NEW pc \in {"list", "cascade", "flag"}, Pc(t) = "free",
               task' = [task EXCEPT ![t].pc = pc, ![t].conn = c]
        PROVE  MindedInv'
    <3> DEFINE r == [task[t] EXCEPT !.pc = pc, !.conn = c]
    <3>0. pc \in {"free"} \cup SyncPC \cup CascadePC \cup ApiPC
      BY DEF SyncPC, CascadePC, ApiPC
    <3>1. r \in Task /\ r.pc = pc
      BY <1>0, <3>0, TaskTyped DEF Task
    <3>2. task' = [task EXCEPT ![t] = r]
      BY <2>5
    <3> HIDE DEF r
    <3>3. Writes(t, r)
      BY <1>0, <3>1, <3>2, TaskWritten
    <3> QED
      BY <2>4, <2>5, <3>1, <3>3 DEF Writes, ToFail, Pc
  <2>6. CASE DeleteKb
    <3>1. Pc(Api) = "free" /\ AbortOf(Api, ActiveKbDocs, "collection") /\ Api \in Slots
      BY <2>6 DEF DeleteKb, Admitted, LoopFree, Slots
    <3>2. ActiveKbDocs \in SUBSET DocIds /\ "free" \in ErrandPC
      BY DEF ActiveKbDocs, ErrandPC
    <3>3. ToFail(Api)' /\ ErrandMoves(Api)
      BY <1>0, <3>1, <3>2, AbortBegins, AbortOfMoves
    <3> QED
      BY <2>4, <3>1, <3>3 DEF ErrandMoves
  <2> QED
    BY <1>6, <2>3, <2>5, <2>6 DEF Admin, TriggerSync, AbortSync, DeleteConnector, CreateConnector,
       PatchConnector, Spawn, Admitted, LoopFree, Slots
<1>7. CASE Restart
  <2>1. crashes' = crashes + 1 /\ loop' = IdleLoop /\ task' = [t \in Slots |-> FreeTask]
    BY <1>7 DEF Restart, Crash, Slots
  <2> QED
    BY <1>0, <2>1 DEF MindedInv, WorkerLoop, IdleLoop, FailOp, ToFail, Pc, FreeTask
<1> QED
  BY <1>1, <1>2, <1>3, <1>4, <1>5, <1>6, <1>7 DEF SysNext, Slots

\* No document is stranded, however syncs, aborts, deletions, the worker and the
\* pipelines meet: as long as the process lives, one that is being fetched, waits
\* or is processed is in the hands of somebody who moves it on.
THEOREM FetchedIsOwnedHolds == SysSpec => []FetchedIsOwned
<1>1. SysInit => MindedInv
  BY DEF SysInit, Init, ConnInit, MindedInv, WorkerLoop, IdleLoop, FailOp, ToFail, Pc, Slots, FreeTask,
         Minded, Unsettled
<1>2. ConnShape /\ MindedInv /\ [SysNext]_allVars => (ConnShape /\ MindedInv)'
  BY ConnShapeKept, MindedKept
<1>3. MindedInv => FetchedIsOwned
  BY DEF MindedInv, Minded, Unsettled, FetchedIsOwned, InTask, StagedBy, HeldBy, Slots
<1> QED
  BY SysInitShaped, <1>1, <1>2, <1>3, PTL DEF SysSpec

-----------------------------------------------------------------------------
(* What is deleted stays deleted.  No delete event is ever made here: the     *)
(* connectors soft-delete their documents themselves.                         *)

OnlyUploads ==
  /\ queue["delete"] = <<>> /\ delayed["delete"] = {}
  /\ loop.kind = "delete" => loop.todo = {} /\ loop.op \notin {"setPending", "push", "claim"}
  /\ \A j \in Jobs : job[j].pc # "free" => job[j].kind = "upload"

\* The worker starts uploads only, as long as only uploads are queued.
LEMMA WorkerUploads ==
  ASSUME TypeOK, Shape, OnlyUploads, Poll \/ SetPending \/ Push \/ \E j \in Jobs : StartTask(j)
  PROVE  OnlyUploads'
<1>0. /\ queue["delete"] = <<>> /\ delayed["delete"] = {}
      /\ loop.kind = "delete" => loop.todo = {} /\ loop.op \notin {"setPending", "push", "claim"}
      /\ \A j \in Jobs : job[j].pc # "free" => job[j].kind = "upload"
      /\ loop.kind \in {"upload", "delete"} /\ Kind = {"upload", "delete"}
      /\ queue \in [Kind -> Seq(Item)] /\ delayed \in [Kind -> SUBSET Item]
  BY LoopTyped DEF OnlyUploads, TypeOK, Kind
<1> DEFINE LoopGoes == loop'.kind = "delete" =>
                         loop'.todo = {} /\ loop'.op \notin {"setPending", "push", "claim"}
<1>t. ASSUME NEW kind \in Kind, TakeReady(kind) PROVE LoopGoes /\ delayed'["delete"] = {}
  <2>1. PICK ready \in SUBSET delayed[kind] :
          /\ delayed' = [delayed EXCEPT ![kind] = @ \ ready]
          /\ loop' = [IdleLoop EXCEPT !.op = "drain", !.kind = kind, !.back = "drain", !.todo = ready]
    BY <1>t DEF TakeReady
  <2>2. loop'.kind = kind /\ loop'.op = "drain" /\ loop'.todo = ready
    BY <2>1 DEF IdleLoop
  <2> QED
    BY <1>0, <2>1, <2>2
<1>i. loop' = IdleLoop => LoopGoes
  BY DEF IdleLoop
<1>n. ASSUME loop.op = "take", NextList PROVE LoopGoes /\ delayed'["delete"] = {}
  <2>1. CASE loop' = [loop EXCEPT !.kind = "delete", !.n = 0, !.more = (loop.n = MaxPerPoll)]
             /\ UNCHANGED delayed
    <3>1. loop'.todo = loop.todo /\ loop'.op = loop.op
      BY <2>1, LoopTyped
    <3>2. loop.todo = {}
      BY <1>n DEF Shape, LoopShape
    <3> QED
      BY <1>0, <1>n, <2>1, <3>1, <3>2
  <2>2. CASE loop' = IdleLoop /\ UNCHANGED delayed
    BY <1>0, <1>i, <2>2
  <2> QED
    BY <1>0, <1>n, <1>t, <2>1, <2>2 DEF NextList
<1>g. ASSUME LoopGoes, queue'["delete"] = <<>>, delayed'["delete"] = {},
             \A j \in Jobs : job'[j].pc # "free" => job'[j].kind = "upload"
      PROVE  OnlyUploads'
  BY <1>g DEF OnlyUploads
<1>1. CASE PollBegin
  BY <1>0, <1>1, <1>g, <1>t DEF PollBegin
<1>2. CASE DrainNext
  <2>1. PICK it \in loop.todo :
          loop' = [loop EXCEPT !.id = it.id, !.force = it.force, !.todo = @ \ {it},
                     !.op = IF status[it.id] \in {"running", "deleting"}
                            THEN "push" ELSE "setPending"]
    BY <1>2 DEF DrainNext
  <2>2. loop'.kind = loop.kind
    BY <2>1, LoopTyped
  <2>3. loop.kind # "delete"
    BY <1>0, <2>1
  <2> QED
    BY <1>0, <1>2, <1>g, <2>2, <2>3 DEF DrainNext, redis
<1>3. CASE DrainDone
  <2>1. CASE TakeReady("delete")
    BY <1>0, <1>3, <1>g, <1>t, <2>1 DEF DrainDone
  <2>2. CASE loop' = [IdleLoop EXCEPT !.op = "take"] /\ UNCHANGED delayed
    <3>1. LoopGoes
      BY <2>2 DEF IdleLoop
    <3> QED
      BY <1>0, <1>3, <1>g, <2>2, <3>1 DEF DrainDone
  <2> QED
    BY <1>3, <2>1, <2>2 DEF DrainDone
<1>4. CASE Take
  <2>1. loop.kind = "upload" /\ UNCHANGED job
    BY <1>0, <1>4 DEF Take
  <2>2. loop'.kind = loop.kind
    BY <1>4, LoopTyped DEF Take
  <2>3. queue'["delete"] = <<>> /\ delayed'["delete"] = {}
    BY <1>0, <1>4, <2>1 DEF Take
  <2> QED
    BY <1>0, <1>g, <2>1, <2>2, <2>3
<1>5. CASE Claim
  <2>1. PICK j \in Jobs : job' = [job EXCEPT ![j] = NewJob(loop.kind, loop)]
    BY <1>5 DEF Claim
  <2>2. loop.op = "claim" /\ loop.kind = "upload" /\ UNCHANGED redis
    BY <1>0, <1>5 DEF Claim
  <2>3. NewJob(loop.kind, loop).kind = "upload"
    BY <2>2 DEF NewJob, FreeJob
  <2>4. \A i \in Jobs : job'[i].pc # "free" => job'[i].kind = "upload"
    BY <1>0, <2>1, <2>3 DEF TypeOK
  <2>5. loop'.kind = loop.kind
    BY <1>5, LoopTyped DEF Claim
  <2> QED
    BY <1>0, <1>g, <2>2, <2>4, <2>5 DEF redis
<1>6. CASE ListDone
  BY <1>0, <1>6, <1>g, <1>n DEF ListDone
<1>7. CASE TakeError
  <2>1. loop.kind = "upload" /\ UNCHANGED job
    BY <1>0, <1>7 DEF TakeError
  <2>2. queue'["delete"] = <<>>
    BY <1>0, <1>7, <2>1 DEF TakeError
  <2> QED
    BY <1>0, <1>7, <1>g, <1>n, <2>1, <2>2 DEF TakeError
<1>8. CASE SetPending
  <2>1. loop'.kind = loop.kind /\ loop.op = "setPending"
    BY <1>8, LoopTyped DEF SetPending, Goto
  <2> QED
    BY <1>0, <1>8, <1>g, <2>1 DEF SetPending, redis
<1>9. CASE Push
  <2>1. loop.kind = "upload" /\ UNCHANGED <<job, delayed>>
    BY <1>0, <1>9 DEF Push
  <2>2. LoopGoes
    <3>1. loop' = IdleLoop \/ loop'.kind = loop.kind
      BY <1>9, LoopTyped DEF Push, Return
    <3> QED
      BY <1>i, <2>1, <3>1
  <2>3. queue'["delete"] = <<>>
    BY <1>0, <1>9, <2>1 DEF Push
  <2> QED
    BY <1>0, <1>g, <2>1, <2>2, <2>3
<1>10. ASSUME NEW j \in Jobs, StartTask(j) PROVE OnlyUploads'
  <2>1. Step(j, "load") /\ "load" \in PC /\ job[j].pc # "free"
    BY <1>10 DEF StartTask, Step, PC
  <2>2. \A i \in Jobs : job'[i].pc # "free" => job'[i].kind = "upload"
    BY <1>0, <2>1, StepEffect
  <2> QED
    BY <1>0, <1>10, <1>g, <2>2 DEF StartTask, redis
<1> QED
  BY <1>1, <1>2, <1>3, <1>4, <1>5, <1>6, <1>7, <1>8, <1>9, <1>10 DEF Poll

\* So do the pipelines.
LEMMA PipelineUploads ==
  ASSUME TypeOK, Shape, OnlyUploads, NEW j \in Jobs, JobStep(j)
  PROVE  OnlyUploads'
<1>1. JobMoves(j)
  BY PipelineMoves
<1> QED
  BY <1>1 DEF OnlyUploads, JobMoves

-----------------------------------------------------------------------------
(* Work is only passed on: the worker and the pipelines bring no document     *)
(* into work that was not.                                                    *)

\* What becomes ready was delayed: a drain that begins brings nothing into work.
LEMMA ReadyUnborn ==
  ASSUME TypeOK, NEW kind \in Kind, TakeReady(kind), job' = job, NEW d \in DocIds,
         Queued(d)' => Queued(d), HasWork(d)'
  PROVE  HasWork(d)
<1>1. PICK ready \in SUBSET delayed[kind] :
        /\ delayed' = [delayed EXCEPT ![kind] = @ \ ready]
        /\ loop' = [IdleLoop EXCEPT !.op = "drain", !.kind = kind, !.back = "drain", !.todo = ready]
  BY DEF TakeReady
<1>2. loop'.op = "drain" /\ loop'.todo = ready
  BY <1>1 DEF IdleLoop
<1>3. Delayed(d)' => Delayed(d)
  BY <1>1 DEF Delayed, TypeOK
<1>4. Draining(d)' => Delayed(d)
  BY <1>2 DEF Draining, Delayed
<1>5. ~InHand(d)'
  BY <1>2 DEF InHand, InHandOp
<1>6. HasJob(d)' <=> HasJob(d)
  BY DEF HasJob, JobsOf
<1> QED
  BY <1>3, <1>4, <1>5, <1>6 DEF HasWork

\* The worker and its tasks bring no document into work: they only pass the work
\* on, from the delay sets to the lists and from the lists to the pipelines.
LEMMA WorkerUnborn ==
  ASSUME TypeOK, Shape, Poll \/ SetPending \/ Push \/ \E j \in Jobs : StartTask(j),
         NEW d \in DocIds, HasWork(d)'
  PROVE  HasWork(d)
<1>0. /\ queue \in [Kind -> Seq(Item)] /\ delayed \in [Kind -> SUBSET Item] /\ loop.kind \in Kind
      /\ job \in [Jobs -> Job]
  BY LoopTyped DEF TypeOK
<1>q. queue' = queue => (Queued(d)' <=> Queued(d))
  BY DEF Queued, Positions
<1>d. delayed' = delayed => (Delayed(d)' <=> Delayed(d))
  BY DEF Delayed
<1>j. job' = job => (HasJob(d)' <=> HasJob(d))
  BY DEF HasJob, JobsOf
<1>i. loop' = IdleLoop => ~Draining(d)' /\ ~InHand(d)'
  BY DEF IdleLoop, Draining, InHand, InHandOp
<1>n. ASSUME loop.op = "take", NextList, job' = job, Queued(d)' => Queued(d) PROVE HasWork(d)
  <2>1. CASE TakeReady("upload")
    BY <1>n, <2>1, ReadyUnborn DEF Kind
  <2>2. CASE loop' = IdleLoop /\ UNCHANGED delayed
    BY <1>d, <1>i, <1>j, <1>n, <2>2 DEF HasWork
  <2>3. CASE /\ loop' = [loop EXCEPT !.kind = "delete", !.n = 0, !.more = (loop.n = MaxPerPoll)]
             /\ UNCHANGED delayed
    <3>1. loop'.op = loop.op /\ loop'.id = loop.id /\ loop'.back = loop.back /\ loop'.todo = loop.todo
      BY <2>3, LoopTyped
    <3>2. (Draining(d)' <=> Draining(d)) /\ (InHand(d)' <=> InHand(d))
      BY <3>1 DEF Draining, InHand
    <3> QED
      BY <1>d, <1>j, <1>n, <2>3, <3>2 DEF HasWork
  <2> QED
    BY <1>n, <2>1, <2>2, <2>3 DEF NextList
<1>1. CASE PollBegin
  BY <1>1, <1>q, ReadyUnborn DEF PollBegin, Kind
<1>2. CASE DrainNext
  <2>1. PICK it \in loop.todo :
          loop' = [loop EXCEPT !.id = it.id, !.force = it.force, !.todo = @ \ {it},
                     !.op = IF status[it.id] \in {"running", "deleting"}
                            THEN "push" ELSE "setPending"]
    BY <1>2 DEF DrainNext
  <2>2. loop'.id = it.id /\ loop'.todo = loop.todo \ {it} /\ loop'.back = loop.back
    BY <2>1, LoopTyped
  <2>3. loop.back = "drain" /\ UNCHANGED <<queue, delayed, job>>
    BY <1>2 DEF DrainNext, redis, Shape, LoopShape
  <2>4. Draining(d)' \/ InHand(d)' => Draining(d)
    BY <2>2, <2>3 DEF Draining, InHand
  <2> QED
    BY <1>d, <1>j, <1>q, <2>3, <2>4 DEF HasWork
<1>3. CASE DrainDone
  <2>1. CASE TakeReady("delete")
    BY <1>3, <1>q, <2>1, ReadyUnborn DEF DrainDone, Kind
  <2>2. CASE loop' = [IdleLoop EXCEPT !.op = "take"] /\ UNCHANGED delayed
    <3>1. ~Draining(d)' /\ ~InHand(d)'
      BY <2>2 DEF IdleLoop, Draining, InHand, InHandOp
    <3> QED
      BY <1>3, <1>d, <1>j, <1>q, <2>2, <3>1 DEF DrainDone, HasWork
  <2> QED
    BY <1>3, <2>1, <2>2 DEF DrainDone
<1>4. CASE Take
  <2> DEFINE k0 == loop.kind
             q == queue[k0]
             e == Head(q)
  <2>1. k0 \in Kind /\ q \in Seq(Item) /\ q # <<>> /\ UNCHANGED job
    BY <1>0, <1>4 DEF Take
  <2>2. queue'[k0] = Tail(q) /\ \A k \in Kind \ {k0} : queue'[k] = queue[k]
    BY <1>0, <1>4, <2>1 DEF Take
  <2>3. /\ \A i \in Positions(Tail(q), d) : i + 1 \in Positions(q, d)
        /\ e.id = d => 1 \in Positions(q, d)
    BY <2>1, TailPositions
  <2>4. \/ loop' = loop
        \/ loop'.id = e.id /\ loop'.back = loop.back /\ loop'.todo = loop.todo
    BY <1>4, LoopTyped DEF Take
  <2>5. \/ delayed' = delayed
        \/ delayed' = [delayed EXCEPT ![k0] = @ \cup {e}]
    BY <1>4 DEF Take
  <2> HIDE DEF k0, q, e
  <2>6. Queued(d)' => Queued(d)
    <3>1. \A k \in Kind : Positions(queue'[k], d) # {} => Positions(queue[k], d) # {}
      BY <2>1, <2>2, <2>3 DEF q
    <3> QED
      BY <3>1 DEF Queued, Positions
  <2>7. e.id = d => Queued(d)
    BY <2>1, <2>3 DEF Queued, q
  <2>8. Delayed(d)' => Delayed(d) \/ e.id = d
    BY <1>0, <2>5, ZenonT(60) DEF Delayed
  <2>9. (InHand(d)' => InHand(d) \/ e.id = d) /\ (Draining(d)' => Draining(d))
    BY <2>4 DEF InHand, Draining
  <2> QED
    BY <1>j, <2>1, <2>6, <2>7, <2>8, <2>9 DEF HasWork
<1>5. CASE Claim
  <2>1. PICK j \in Jobs : job' = [job EXCEPT ![j] = NewJob(loop.kind, loop)]
    BY <1>5 DEF Claim
  <2>2. /\ loop.op = "claim" /\ loop'.op = "take" /\ loop'.back = loop.back /\ loop'.todo = loop.todo
        /\ UNCHANGED <<queue, delayed>>
    BY <1>5, LoopTyped DEF Claim, redis
  <2>3. NewJob(loop.kind, loop).id = loop.id
    BY DEF NewJob, FreeJob
  <2>4. \A i \in Jobs : job'[i] = job[i] \/ job'[i].id = loop.id
    BY <1>0, <2>1, <2>3
  <2>5. HasJob(d)' => HasJob(d) \/ InHand(d)
    BY <2>2, <2>4 DEF HasJob, JobsOf, InHand, InHandOp
  <2>6. ~InHand(d)' /\ (Draining(d)' => Draining(d))
    BY <2>2 DEF InHand, InHandOp, Draining
  <2> QED
    BY <1>d, <1>q, <2>2, <2>5, <2>6 DEF HasWork
<1>6. CASE ListDone
  BY <1>6, <1>n, <1>q DEF ListDone
<1>7. CASE TakeError
  <2> DEFINE k0 == loop.kind
             q == queue[k0]
             r == Append(Tail(q), Head(q))
  <2>1. k0 \in Kind /\ q \in Seq(Item) /\ q # <<>> /\ job' = job
    BY <1>0, <1>7 DEF TakeError
  <2>2. queue'[k0] = r /\ \A k \in Kind \ {k0} : queue'[k] = queue[k]
    BY <1>0, <1>7, <2>1 DEF TakeError
  <2>3. \A i \in DOMAIN r : \E m \in DOMAIN q : r[i] = q[m]
    <3> HIDE DEF k0, q
    <3>1. /\ DOMAIN q = 1 .. Len(q) /\ Len(q) \in Nat /\ Len(q) # 0 /\ Head(q) = q[1]
          /\ Tail(q) \in Seq(Item) /\ Len(Tail(q)) = Len(q) - 1 /\ Head(q) \in Item
          /\ \A i \in 1 .. Len(q) - 1 : Tail(q)[i] = q[i + 1]
      BY <2>1
    <3>2. DOMAIN r = 1 .. Len(q) /\ r[Len(q)] = q[1] /\ \A i \in 1 .. Len(q) - 1 : r[i] = q[i + 1]
      BY <3>1
    <3> QED
      BY <3>1, <3>2
  <2> HIDE DEF r
  <2>4. Positions(r, d) # {} => Positions(q, d) # {}
    BY <2>3 DEF Positions
  <2>5. Queued(d)' => Queued(d)
    BY <2>1, <2>2, <2>4 DEF Queued, Positions
  <2> QED
    BY <1>7, <1>n, <2>1, <2>5 DEF TakeError
<1>8. CASE SetPending
  <2>1. /\ loop.op = "setPending" /\ loop'.id = loop.id /\ loop'.back = loop.back
        /\ loop'.todo = loop.todo /\ UNCHANGED <<queue, delayed, job>>
    BY <1>8, LoopTyped DEF SetPending, Goto, redis
  <2>2. (InHand(d)' => InHand(d)) /\ (Draining(d)' <=> Draining(d))
    BY <2>1 DEF InHand, InHandOp, Draining
  <2> QED
    BY <1>d, <1>j, <1>q, <2>1, <2>2 DEF HasWork
<1>9. CASE Push
  <2> DEFINE k0 == loop.kind
             e  == [id |-> loop.id, force |-> loop.force]
  <2>1. /\ loop.op = "push" /\ k0 \in Kind /\ e \in Item /\ queue[k0] \in Seq(Item)
        /\ UNCHANGED <<job, delayed>>
    BY <1>0, <1>9, LoopTyped DEF Push, Shape, LoopShape, InHandOp, Item
  <2>2. queue'[k0] = Append(queue[k0], e) /\ \A k \in Kind \ {k0} : queue'[k] = queue[k]
    BY <1>0, <1>9, <2>1 DEF Push
  <2>3. /\ DOMAIN queue'[k0] = 1 .. (Len(queue[k0]) + 1) /\ DOMAIN queue[k0] = 1 .. Len(queue[k0])
        /\ queue'[k0][Len(queue[k0]) + 1] = e
        /\ \A i \in 1 .. Len(queue[k0]) : queue'[k0][i] = queue[k0][i]
        /\ Len(queue[k0]) \in Nat /\ e.id = loop.id
    BY <2>1, <2>2
  <2>4. ~InHand(d)' /\ (Draining(d)' => Draining(d))
    BY <1>9, ReturnReleases DEF Push
  <2> HIDE DEF k0, e
  <2>5. \A i \in Positions(queue'[k0], d) : i \in Positions(queue[k0], d) \/ d = loop.id
    BY <2>3 DEF Positions
  <2>6. Queued(d)' => Queued(d) \/ d = loop.id
    BY <2>1, <2>2, <2>5 DEF Queued, Positions
  <2>7. d = loop.id => InHand(d)
    BY <2>1 DEF InHand, InHandOp
  <2> QED
    BY <1>d, <1>j, <2>1, <2>4, <2>6, <2>7 DEF HasWork
<1>10. ASSUME NEW j \in Jobs, StartTask(j) PROVE HasWork(d)
  <2>1. JobMoves(j)
    BY <1>10, StartMoves
  <2>2. job[j].pc # "free" /\ \A i \in Jobs : i \in JobsOf(d)' => i \in JobsOf(d)
    BY <2>1 DEF JobMoves, JobsOf
  <2>3. UNCHANGED <<queue, delayed, loop>>
    BY <2>1 DEF JobMoves
  <2> QED
    BY <1>d, <1>q, <2>2, <2>3 DEF HasWork, HasJob, JobsOf, InHand, Draining
<1> QED
  BY <1>1, <1>2, <1>3, <1>4, <1>5, <1>6, <1>7, <1>8, <1>9, <1>10 DEF Poll

-----------------------------------------------------------------------------
(* The invariant. *)

\* A sync thread has claimed the document and has not handed it to a list yet.
StagingPC == {"put", "stage", "enqueue", "setPending", "push"}
Staging(t, d) == Page(t) = d /\ Pc(t) \in StagingPC

\* Nothing is served of the document and nothing is on its way to be.
Clean(d) ==
  /\ chunks[d] = {} /\ ~HasWork(d)
  /\ \A t \in Threads : ~Staging(t, d)
Retired(d) == status[d] \in {"deleted", "failed"} /\ Clean(d)

\* A cascade has listed its connector's documents: those that it still owns are on
\* the list, in hand or done with.
Retiring(t, d) == Page(t) = d /\ Pc(t) = "retire"
Swept(t, d) ==
  /\ Retiring(t, d) => Clean(d)
  /\ Pc(t) \in {"chunks", "retire"} /\ HasRow(d) /\ owner[d] = Owner(t) =>
       d \in task[t].todo \/ Retiring(t, d) \/ Retired(d)

\* delete_kb has dropped the collection, and then the files.
TornDown(d) ==
  /\ kb = "none" \/ Pc(Api) \in {"prefix", "meta"} => Clean(d)
  /\ kb = "none" \/ Pc(Api) = "meta" => s3[SourceOf[d]] = 0

Gone(d) ==
  /\ Orphan(d) => Retired(d)
  /\ status[d] = "deleted" => Clean(d)
  /\ \A t \in Threads : Swept(t, d)
  /\ TornDown(d)

\* A knowledge base that delete_kb is tearing down is not active.
Tearing ==
  \/ Pc(Api) \in {"collection", "prefix", "meta"}
  \/ Pc(Api) \in AbortPC /\ task[Api].back = "collection"
KbGoing == Tearing => kb # "active"

DelInv == OnlyUploads /\ KbGoing /\ \A d \in DocIds : ~Overridden(d) => Gone(d)

\* A step that lets a document rest: it gives it no row, no work and no chunks, and
\* takes it out of retirement only while it is in work.
Rests(d) ==
  /\ HasRow(d)' => HasRow(d)
  /\ Clean(d) => Clean(d)'
  /\ Retired(d) => Retired(d)'
  /\ status'[d] = "deleted" => status[d] = "deleted" \/ Clean(d)'
TearsOn ==
  /\ kb' = "none" => kb = "none"
  /\ Pc(Api)' \in {"prefix", "meta"} => Pc(Api)' = Pc(Api)

\* Such a step leaves alone what is gone, if the cascade that makes it does its part.
LEMMA RestsGone ==
  ASSUME NEW d \in DocIds, Gone(d), Rests(d), TearsOn, owner'[d] = owner[d],
         s3'[SourceOf[d]] \in {s3[SourceOf[d]], 0} \/ (kb' # "none" /\ Pc(Api)' # "meta"),
         \A t \in Threads : task'[t] = task[t] \/ Swept(t, d)'
  PROVE  Gone(d)'
<1>1. Orphan(d)' => Retired(d)'
  BY DEF Gone, Rests, Orphan
<1>2. status'[d] = "deleted" => Clean(d)'
  BY DEF Gone, Rests
<1>3. ASSUME NEW t \in Threads, task'[t] = task[t] PROVE Swept(t, d)'
  <2>1. Swept(t, d) /\ (Retiring(t, d)' <=> Retiring(t, d))
    BY <1>3 DEF Gone, Retiring, Page, Pc
  <2>2. Retiring(t, d)' => Clean(d)'
    BY <2>1 DEF Swept, Rests
  <2>3. Pc(t)' \in {"chunks", "retire"} /\ HasRow(d)' /\ owner'[d] = Owner(t)' =>
          d \in task'[t].todo \/ Retiring(t, d)' \/ Retired(d)'
    BY <1>3, <2>1 DEF Swept, Rests, Pc, Owner
  <2> QED
    BY <2>2, <2>3 DEF Swept
<1>4. TornDown(d)'
  <2>1. kb' = "none" \/ Pc(Api)' \in {"prefix", "meta"} => Clean(d)'
    BY DEF Gone, TornDown, Rests, TearsOn
  <2>2. kb' = "none" \/ Pc(Api)' = "meta" => s3'[SourceOf[d]] = 0
    BY DEF Gone, TornDown, TearsOn
  <2> QED
    BY <2>1, <2>2 DEF TornDown
<1> QED
  BY <1>1, <1>2, <1>3, <1>4 DEF Gone

\* A step that writes one task and adds neither work, nor chunks, nor a thread that
\* stages the document leaves a clean one clean.
LEMMA CleanKept ==
  ASSUME NEW t \in Slots, Writes(t, task'[t]), NEW d \in DocIds, Clean(d),
         t \in Threads /\ Staging(t, d)' => Staging(t, d),
         HasWork(d)' => HasWork(d), chunks'[d] \in {chunks[d], {}}
  PROVE  Clean(d)'
<1>1. ASSUME NEW u \in Threads, u # t PROVE Staging(u, d)' <=> Staging(u, d)
  BY <1>1 DEF Writes, Slots, Staging, Page, Pc
<1> QED
  BY <1>1 DEF Clean

-----------------------------------------------------------------------------
(* The worker and the pipelines. *)

\* The worker writes the status of a document that is in work.
LEMMA WorkerRows ==
  ASSUME TypeOK, Shape, Poll \/ SetPending \/ Push \/ \E j \in Jobs : StartTask(j),
         NEW d \in DocIds
  PROVE  /\ UNCHANGED <<chunks, s3, overridden>>
         /\ status'[d] = status[d] \/ (HasRow(d) /\ HasWork(d) /\ status'[d] \in {"pending", "running"})
<1>s. {"pending", "running"} \subseteq Status
  BY DEF Status, RowStatus, ActiveStatus
<1>1. CASE SetPending
  <2>1. loop.op = "setPending" /\ UpdateStatus(loop.id, "pending")
    BY <1>1 DEF SetPending
  <2>2. status'[d] = IF d = loop.id /\ HasRow(d) THEN "pending" ELSE status[d]
    BY <1>s, <2>1, UpdateTyped
  <2>3. d = loop.id => HasWork(d)
    BY <2>1 DEF HasWork, InHand, InHandOp
  <2> QED
    BY <1>1, <2>2, <2>3 DEF SetPending
<1>2. CASE Claim
  <2>1. loop.op = "claim" /\ (UpdateStatus(loop.id, "running") \/ UNCHANGED status)
    BY <1>2 DEF Claim
  <2>2. UpdateStatus(loop.id, "running") =>
          status'[d] = IF d = loop.id /\ HasRow(d) THEN "running" ELSE status[d]
    BY <1>s, UpdateTyped
  <2>3. d = loop.id => HasWork(d)
    BY <2>1 DEF HasWork, InHand, InHandOp
  <2> QED
    BY <1>2, <2>1, <2>2, <2>3 DEF Claim, history
<1>3. CASE \/ PollBegin \/ DrainNext \/ DrainDone \/ Take \/ ListDone \/ TakeError \/ Push
           \/ \E j \in Jobs : StartTask(j)
  BY <1>3 DEF PollBegin, DrainNext, DrainDone, Take, ListDone, TakeError, Push, StartTask, rows, history
<1> QED
  BY <1>1, <1>2, <1>3 DEF Poll

\* A pipeline writes its own document, and others only from indexed to outdated.
LEMMA PipelineRows ==
  ASSUME TypeOK, Shape, OnlyUploads, NEW j \in Jobs, JobStep(j), NEW d \in DocIds, ~Overridden(d)'
  PROVE  /\ s3' = s3 /\ (HasWork(d)' => HasWork(d))
         /\ chunks'[d] \in {chunks[d], {}} \/ HasWork(d)
         /\ \/ status'[d] = status[d]
            \/ /\ HasRow(d) /\ (HasWork(d) \/ status[d] = "indexed")
               /\ status'[d] \in {"running", "indexed", "failed", "outdated"}
<1>1. JobMoves(j) /\ JobWrites(j)
  BY PipelineMoves, PipelineWrites
<1>2. job[j].kind = "upload"
  BY <1>1 DEF JobMoves, OnlyUploads
<1>3. HasWork(d)' => HasWork(d)
  <2>1. UNCHANGED <<queue, delayed, loop>> /\ JobsOf(d)' \subseteq JobsOf(d)
    BY <1>1 DEF JobMoves, JobsOf
  <2> QED
    BY <2>1 DEF HasWork, HasJob, Queued, Delayed, Draining, InHand, Positions
<1>4. d = job[j].id => HasWork(d)
  BY <1>1 DEF JobMoves, HasWork, HasJob, JobsOf
<1>5. s3' = s3
  <2>1. s3' = s3 \/ DeleteFile(j)
    BY DEF JobStep, IngestStep, DeleteStep, IngestLoad, IngestBegin, Parse, Detect, Identical,
           Resolve, MoveChunks, PurgeOther, RetireOther, Embed, Clear, Insert, SetIndexed,
           DeleteLoad, SetDeleting, DeleteChunks, DeleteRow, Fail, SetFailed
  <2>2. ~DeleteFile(j)
    BY <1>2 DEF DeleteFile, At, Shape, JobShape, DeletePC
  <2> QED
    BY <2>1, <2>2
<1>6. d # job[j].id => chunks'[d] \in {chunks[d], {}}
  BY PipelineTouches
<1>7. CASE d # job[j].id
  <2>1. status'[d] = status[d] \/ (status[d] = "indexed" /\ status'[d] = "outdated")
    BY <1>1, <1>7, OthersStatus
  <2> QED
    BY <1>3, <1>5, <1>6, <1>7, <2>1 DEF HasRow
<1>8. CASE d = job[j].id
  <2>1. \A st \in {"running", "indexed", "failed", "outdated"} : st \in Status
    BY DEF Status, RowStatus, StableStatus, ActiveStatus
  <2>2. ASSUME NEW e, NEW st \in {"running", "indexed", "failed", "outdated"}, UpdateStatus(e, st)
        PROVE  status'[d] = status[d] \/ (HasRow(d) /\ status'[d] = st)
    BY <2>1, <2>2, UpdateTyped
  <2>3. \/ status'[d] = status[d]
        \/ HasRow(d) /\ status'[d] \in {"running", "indexed", "failed", "outdated"}
    BY <1>1, <1>2, <2>2 DEF JobWrites
  <2> QED
    BY <1>3, <1>4, <1>5, <1>8, <2>3
<1> QED
  BY <1>7, <1>8

\* So both leave alone what is gone.
LEMMA WorkGone ==
  ASSUME ConnShape, OnlyUploads, WorkerStep \/ (\E j \in Jobs : PipelineStep(j)),
         NEW d \in DocIds, Gone(d), ~Overridden(d)'
  PROVE  Gone(d)'
<1>0. TypeOK /\ Shape
  BY DEF ConnShape
<1>1. UNCHANGED <<task, kb, owner>>
  BY DEF WorkerStep, PipelineStep
<1>2. /\ s3' = s3 /\ (HasWork(d)' => HasWork(d))
      /\ chunks'[d] \in {chunks[d], {}} \/ HasWork(d)
      /\ \/ status'[d] = status[d]
         \/ /\ HasRow(d) /\ (HasWork(d) \/ status[d] = "indexed")
            /\ status'[d] \in {"pending", "running", "indexed", "failed", "outdated"}
  <2>1. CASE WorkerStep
    <3>1. Poll \/ SetPending \/ Push \/ \E j \in Jobs : StartTask(j)
      BY <2>1 DEF WorkerStep
    <3> QED
      BY <1>0, <3>1, WorkerRows, WorkerUnborn
  <2>2. ASSUME NEW j \in Jobs, PipelineStep(j)
        PROVE  /\ s3' = s3 /\ (HasWork(d)' => HasWork(d))
               /\ chunks'[d] \in {chunks[d], {}} \/ HasWork(d)
               /\ \/ status'[d] = status[d]
                  \/ /\ HasRow(d) /\ (HasWork(d) \/ status[d] = "indexed")
                     /\ status'[d] \in {"running", "indexed", "failed", "outdated"}
    BY <1>0, <2>2, PipelineRows DEF PipelineStep
  <2> QED
    BY <2>1, <2>2
<1>3. Clean(d) => Clean(d)' /\ (status[d] # "indexed" => status'[d] = status[d])
  BY <1>1, <1>2 DEF Clean, Staging, Page, Pc
<1>4. Rests(d)
  BY <1>2, <1>3 DEF Rests, Retired, HasRow
<1>5. TearsOn
  BY <1>1 DEF TearsOn, Pc
<1> QED
  BY <1>1, <1>2, <1>4, <1>5, RestsGone

-----------------------------------------------------------------------------
(* The sync threads. *)

\* A thread that is not late takes over a document that nobody is retiring: from
\* now on its connector owns it, or the thread is staging it already.
LEMMA ClaimGone ==
  ASSUME ConnShape, KbGoing, NEW t \in Threads, NEW d \in DocIds, Gone(d),
         SyncTables(t), SyncMoves(t), Owner(t) \in Conns, ~Late(t),
         \A u \in Threads : Retiring(u, d) => Clean(d)',
         status'[d] = "deleted" => Clean(d)',
         HasRow(d)' => \/ owner'[d] = Owner(t)
                       \/ owner'[d] = owner[d] /\ HasRow(d) /\ ~Clean(d)
  PROVE  Gone(d)'
<1>1. /\ Writes(t, task'[t]) /\ kb' = kb /\ t \in Slots /\ Api \in Slots /\ Api # t
      /\ task'[t].pc \notin {"chunks", "retire"}
  BY ConnectorAssumption DEF SyncMoves, SyncTables, FreeTask, SyncPC, Slots
<1>2. kb = "active" /\ \A u \in Threads : Owner(u) = Owner(t) => Pc(u) \notin CascadePC
  BY DEF Late
<1>3. Orphan(d)' => Retired(d)'
  BY ConnectorAssumption DEF Orphan, Gone, Retired
<1>4. ASSUME NEW u \in Threads PROVE Swept(u, d)'
  <2>1. CASE u = t
    BY <1>1, <2>1 DEF Swept, Retiring, Pc
  <2>2. CASE u # t
    <3>1. task'[u] = task[u]
      BY <1>1, <2>2 DEF Writes, Slots
    <3>2. Retiring(u, d)' => Clean(d)'
      BY <3>1 DEF Retiring, Page, Pc
    <3>3. ASSUME Pc(u)' \in {"chunks", "retire"}, HasRow(d)', owner'[d] = Owner(u)'
          PROVE  d \in task'[u].todo \/ Retiring(u, d)' \/ Retired(d)'
      <4>1. Pc(u) \in CascadePC /\ owner'[d] = Owner(u) /\ Pc(u) \in {"chunks", "retire"}
        BY <3>1, <3>3 DEF Pc, Owner, CascadePC
      <4>2. owner[d] = Owner(u) /\ HasRow(d) /\ ~Clean(d)
        BY <1>2, <3>3, <4>1
      <4>3. d \in task[u].todo \/ Retiring(u, d)
        BY <4>1, <4>2 DEF Gone, Swept, Retired
      <4> QED
        BY <3>1, <4>3 DEF Retiring, Page, Pc
    <3> QED
      BY <3>2, <3>3 DEF Swept
  <2> QED
    BY <2>1, <2>2
<1>5. TornDown(d)'
  <2>1. Pc(Api)' = Pc(Api)
    BY <1>1 DEF Writes, Pc
  <2> QED
    BY <1>1, <1>2, <2>1 DEF TornDown, KbGoing, Tearing
<1> QED
  BY <1>3, <1>4, <1>5 DEF Gone

\* The steps of a sync that do not have a document in hand to stage it.
LEMMA SyncStages ==
  ASSUME ConnShape, NEW t \in Threads,
         \/ List(t) \/ NextPage(t) \/ NextAttachment(t) \/ WebRow(t) \/ WebSkip(t)
         \/ WebChanged(t) \/ GitHubRow(t) \/ ConfluenceRow(t) \/ AttachmentRow(t)
         \/ Raises(t) \/ HookStops(t) \/ Finish(t)
         \/ MarkActive(t) \/ SyncError(t) \/ SetIdle(t) \/ ClearAbort(t)
  PROVE  task'[t].pc \notin StagingPC
<1> USE DEF StagingPC
<1>0. ConnTypeOK /\ t \in Slots /\ task \in [Slots -> Task]
  BY DEF ConnShape, ConnTypeOK, Slots
<1>j. ASSUME NEW pc \in {"page", "finish", "error", "attach", "idle", "wait"},
             Jump(t, pc) \/ NextItem(t, pc)
      PROVE  task'[t].pc \notin StagingPC
  BY <1>0, <1>j, JumpEffect, NextItemEffect DEF TaskPC, SyncPC
<1>1. CASE List(t)
  <2>1. ASSUME NEW docs, NEW listing,
               task' = [task EXCEPT ![t].pc = "page", ![t].todo = docs, ![t].listing = listing]
        PROVE  task'[t].pc \notin StagingPC
    BY <1>0, <2>1 DEF Task
  <2> QED
    BY <1>1, <1>j, <2>1, Zenon DEF List
<1>2. CASE WebRow(t) \/ WebSkip(t) \/ WebChanged(t)
  BY <1>0, <1>2, <1>j DEF WebRow, WebSkip, WebChanged, Task
<1>3. CASE GitHubRow(t) \/ ConfluenceRow(t) \/ AttachmentRow(t)
  BY <1>0, <1>3, <1>j DEF GitHubRow, ConfluenceRow, AttachmentRow, Task
<1>4. CASE Raises(t) \/ HookStops(t) \/ Finish(t)
  BY <1>4, <1>j DEF Raises, Raise, HookStops, Finish
<1>5. CASE NextPage(t)
  <2>1. ASSUME NEW e, NEW docs,
               task' = [task EXCEPT ![t].pc = "row", ![t].doc = e, ![t].todo = @ \ {e},
                                    ![t].sub = docs]
        PROVE  task'[t].pc \notin StagingPC
    BY <1>0, <2>1 DEF Task
  <2> QED
    BY <1>5, <1>j, <2>1, Zenon DEF NextPage
<1>6. CASE NextAttachment(t)
  <2>1. ASSUME NEW e, NEW listing,
               task' = [task EXCEPT ![t].pc = "row", ![t].doc = e, ![t].sub = @ \ {e},
                                    ![t].listing = listing]
        PROVE  task'[t].pc \notin StagingPC
    BY <1>0, <2>1 DEF Task
  <2>2. CASE task' = [task EXCEPT ![t].pc = "page", ![t].sub = {}]
    BY <1>0, <2>2 DEF Task
  <2> QED
    BY <1>6, <2>1, <2>2, Zenon DEF NextAttachment
<1>7. CASE MarkActive(t) \/ SyncError(t) \/ SetIdle(t) \/ ClearAbort(t)
  <2>1. "idle" \in TaskPC /\ "clear" \in TaskPC
    BY DEF TaskPC, SyncPC
  <2>2. Jump(t, "idle") \/ Jump(t, "clear") \/ task'[t] = FreeTask
    BY <1>0, <1>7 DEF MarkActive, SyncError, SetIdle, ClearAbort
  <2>3. task'[t].pc \in {"idle", "clear", "free"}
    BY <1>0, <2>1, <2>2, JumpEffect DEF FreeTask
  <2> QED
    BY <2>3
<1> QED
  BY <1>1, <1>2, <1>3, <1>4, <1>5, <1>6, <1>7

\* A step that writes the document in hand keeps it or lets it go.
LEMMA SyncHolds ==
  ASSUME ConnShape, NEW t \in Threads,
         WebFetchError(t) \/ Mark(t) \/ Put(t) \/ PutFails(t) \/ Stage(t) \/ SyncPending(t) \/ SyncPush(t)
  PROVE  /\ task'[t].doc \in {Page(t), NoDoc} /\ Page(t) \in DocIds /\ Intrude(t, Page(t))
         /\ WebFetchError(t) \/ PutFails(t) \/ SyncPush(t) => task'[t].pc \in {"page", "attach"}
<1>0. ConnTypeOK /\ t \in Slots /\ TaskShape(t)
  BY DEF ConnShape, TasksShape, Slots
<1>1. Pc(t) \in DocPC /\ Intrude(t, Page(t))
  BY DEF WebFetchError, Mark, Put, PutFails, Stage, SyncPending, SyncPush, DocPC
<1>2. Page(t) \in DocIds
  BY <1>0, <1>1 DEF TaskShape
<1>3. CASE WebFetchError(t) \/ PutFails(t) \/ SyncPush(t)
  <2>1. {"page", "attach"} \subseteq TaskPC
    BY DEF TaskPC, SyncPC
  <2>2. \E pc \in {"page", "attach"} : NextItem(t, pc)
    BY <1>3 DEF WebFetchError, PutFails, SyncPush, After
  <2>3. task'[t].doc = NoDoc /\ task'[t].pc \in {"page", "attach"}
    BY <1>0, <2>1, <2>2, NextItemEffect
  <2> QED
    BY <1>1, <1>2, <2>3
<1>4. CASE Mark(t) \/ Put(t) \/ Stage(t) \/ SyncPending(t)
  <2>1. task'[t].doc = Page(t)
    BY <1>0, <1>4 DEF Mark, Put, Stage, SyncPending, Jump, Page, ConnTypeOK, Slots, Task
  <2>2. ~(WebFetchError(t) \/ PutFails(t) \/ SyncPush(t)) \/ task'[t].pc \in {"page", "attach"}
    BY <1>3
  <2> QED
    BY <1>1, <1>2, <1>3, <2>1, <2>2
<1> QED
  BY <1>3, <1>4

\* The event that a thread pushes is its document's.
LEMMA SyncPushOthers ==
  ASSUME ConnShape, NEW t \in Threads, SyncPush(t), NEW d \in DocIds, d # Page(t), HasWork(d)'
  PROVE  HasWork(d)
<1> DEFINE e == [id |-> Page(t), force |-> FALSE]
<1>0. UNCHANGED <<delayed, loop, job>> /\ Page(t) \in DocIds /\ HasWork(d)'
  BY SyncHolds DEF SyncPush, others, quiet
<1>1. /\ queue' = [queue EXCEPT !["upload"] = Append(@, e)] /\ e \in Item /\ e.id = Page(t)
      /\ queue \in [Kind -> Seq(Item)] /\ "upload" \in Kind
  BY <1>0 DEF SyncPush, Item, ConnShape, TypeOK, Kind
<1> HIDE DEF e
<1>2. /\ queue'["upload"] = Append(queue["upload"], e) /\ queue["upload"] \in Seq(Item)
      /\ \A k \in Kind \ {"upload"} : queue'[k] = queue[k]
  BY <1>1
<1>3. Positions(queue'["upload"], d) # {} => Positions(queue["upload"], d) # {}
  <2>1. /\ DOMAIN queue'["upload"] = 1 .. (Len(queue["upload"]) + 1)
        /\ DOMAIN queue["upload"] = 1 .. Len(queue["upload"])
        /\ queue'["upload"][Len(queue["upload"]) + 1] = e
        /\ \A i \in 1 .. Len(queue["upload"]) : queue'["upload"][i] = queue["upload"][i]
        /\ Len(queue["upload"]) \in Nat
    BY <1>1, <1>2
  <2> QED
    BY <1>1, <2>1 DEF Positions
<1>4. Queued(d)' => Queued(d)
  BY <1>1, <1>2, <1>3 DEF Queued, Positions
<1> QED
  BY <1>0, <1>4 DEF HasWork, Delayed, Draining, InHand, HasJob, JobsOf

\* Every step of a sync leaves what is gone alone, unless it marks it overridden.
LEMMA SyncGone ==
  ASSUME ConnShape, KbGoing, NEW t \in Threads, SyncStep(t), NEW d \in DocIds, Gone(d),
         ~Overridden(d)'
  PROVE  Gone(d)'
<1>0. /\ TypeOK /\ ConnTypeOK /\ t \in Slots /\ Api \in Slots /\ Api # t /\ TaskShape(t)
      /\ NoDoc \notin DocIds
  BY ConnectorAssumption, StoreAssumption DEF ConnShape, TasksShape, Slots
<1>1. SyncTables(t) /\ SyncMoves(t) /\ Owner(t) \in Conns /\ Pc(t) \in SyncPC
  BY SyncWrites, SyncStepMoves
<1>2. /\ Writes(t, task'[t]) /\ kb' = kb /\ Pc(Api)' = Pc(Api)
      /\ task'[t].pc \notin {"chunks", "retire"}
      /\ UNCHANGED <<chunks, delayed, loop, job>>
  BY <1>0, <1>1 DEF SyncMoves, SyncTables, FreeTask, SyncPC, Writes, Pc
<1>c. ASSUME Staging(t, d)' => Staging(t, d), HasWork(d)' => HasWork(d), Clean(d) PROVE Clean(d)'
  BY <1>0, <1>2, <1>c, CleanKept
<1>w. queue' = queue => (HasWork(d)' <=> HasWork(d))
  BY <1>2, WorkSame
\* A step that touches the document at most by taking it out of the hand.
<1>r. ASSUME status'[d] = status[d], owner'[d] = owner[d], HasWork(d)' => HasWork(d),
             Staging(t, d)' => Staging(t, d), s3'[SourceOf[d]] = s3[SourceOf[d]] \/ kb = "active"
      PROVE  Gone(d)'
  <2>1. Rests(d)
    BY <1>c, <1>r DEF Rests, HasRow, Retired
  <2>2. TearsOn
    BY <1>2 DEF TearsOn
  <2>3. \A u \in Threads : task'[u] = task[u] \/ Swept(u, d)'
    BY <1>2 DEF Writes, Slots, Swept, Retiring, Pc
  <2>4. kb = "active" => kb' # "none" /\ Pc(Api)' # "meta"
    BY <1>2 DEF KbGoing, Tearing
  <2> QED
    BY <1>r, <2>1, <2>2, <2>3, <2>4, RestsGone
<1>p. task'[t].pc \notin StagingPC => ~Staging(t, d)'
  BY DEF Staging, Pc
<1>d. Pc(t) \in DocPC => Page(t) \in DocIds
  BY <1>0 DEF TaskShape
\* Steps that write nothing but the task and the connector's row.
<1>3. CASE \/ List(t) \/ NextPage(t) \/ NextAttachment(t) \/ WebRow(t) \/ WebSkip(t)
           \/ WebChanged(t) \/ GitHubRow(t) \/ ConfluenceRow(t) \/ AttachmentRow(t)
           \/ Raises(t) \/ HookStops(t) \/ Finish(t)
  <2>1. UNCHANGED unread
    BY <1>3 DEF List, NextPage, NextAttachment, WebRow, WebSkip, WebChanged, GitHubRow,
       ConfluenceRow, AttachmentRow, Raises, HookStops, Finish
  <2>2. task'[t].pc \notin StagingPC
    BY <1>3, SyncStages
  <2> QED
    BY <1>p, <1>r, <1>w, <2>1, <2>2 DEF unread, rows, redis, tables
<1>4. CASE MarkActive(t) \/ SyncError(t) \/ SetIdle(t) \/ ClearAbort(t)
  <2>1. task'[t].pc \notin StagingPC
    BY <1>4, SyncStages
  <2> QED
    BY <1>p, <1>r, <1>w, <1>4, <2>1 DEF MarkActive, SyncError, SetIdle, ClearAbort, rows, redis, tables
<1>5. CASE SyncEnqueue(t)
  <2>1. UNCHANGED unread /\ Pc(t) = "enqueue"
    BY <1>5 DEF SyncEnqueue
  <2>2. task'[t].doc \in {task[t].doc, NoDoc}
    <3>1. {"push", "setPending", "attach", "page"} \subseteq TaskPC
      BY DEF TaskPC, SyncPC
    <3>2. \E pc \in {"push", "setPending", "attach", "page"} : Jump(t, pc) \/ NextItem(t, pc)
      BY <1>5 DEF SyncEnqueue, After
    <3> QED
      BY <1>0, <3>1, <3>2, JumpEffect, NextItemEffect
  <2>3. Staging(t, d)' => Staging(t, d)
    BY <1>0, <2>1, <2>2 DEF Staging, Page, Pc, StagingPC
  <2> QED
    BY <1>r, <1>w, <2>1, <2>3 DEF unread, rows, redis, tables
\* The document is the stored one: its owner may change.
<1>6. CASE WebUnchanged(t)
  <2>1. /\ Pc(t) = "fetch" /\ Page(t) \in DocIds /\ UNCHANGED <<status, s3, queue>>
        /\ owner' = IF HasRow(Page(t)) THEN [owner EXCEPT ![Page(t)] = Owner(t)] ELSE owner
        /\ Override(Page(t), Late(t)) /\ NextItem(t, "page")
    BY <1>6, <1>d DEF WebUnchanged, DocPC, rows, redis
  <2>2. task'[t].pc = "page"
    BY <1>0, <2>1, NextItemEffect DEF TaskPC, SyncPC
  <2>3. ~Staging(t, d)'
    BY <1>p, <2>2 DEF StagingPC
  <2>4. Clean(d) => Clean(d)'
    BY <1>c, <1>w, <2>1, <2>3
  <2>5. CASE d # Page(t)
    <3>1. owner'[d] = owner[d]
      BY <2>1, <2>5
    <3> QED
      BY <1>r, <1>w, <2>1, <2>3, <3>1
  <2>6. CASE d = Page(t)
    <3>1. ~Late(t)
      BY <2>1, <2>6 DEF Override, Overridden
    <3>2. HasRow(d)' => owner'[d] = Owner(t)
      BY <1>0, <2>1, <2>6 DEF HasRow, ConnTypeOK
    <3>3. \A u \in Threads : Retiring(u, d) => Clean(d)'
      BY <2>4 DEF Gone, Swept
    <3>4. status'[d] = "deleted" => Clean(d)'
      BY <2>1, <2>4 DEF Gone
    <3> QED
      BY <1>1, <3>1, <3>2, <3>3, <3>4, ClaimGone
  <2> QED
    BY <2>5, <2>6
\* The steps that stage the document, or fail to.
<1>i. CASE WebFetchError(t) \/ Mark(t) \/ Put(t) \/ PutFails(t) \/ Stage(t) \/ SyncPending(t) \/ SyncPush(t)
  <2>1. Pc(t) \in {"fetch", "mark", "put", "stage", "setPending", "push"} /\ Intrude(t, Page(t))
    BY <1>i DEF WebFetchError, Mark, Put, PutFails, Stage, SyncPending, SyncPush
  <2>2. Page(t) \in DocIds
    BY <1>d, <2>1 DEF DocPC
  <2>3. SourceOf[d] = SourceOf[Page(t)] =>
          /\ ~Late(t) /\ kb = "active"
          /\ \A u \in Threads : ~Retiring(u, Page(t))
    BY <2>1 DEF Intrude, Override, Overridden, Late, Retiring
  <2>4. task'[t].doc \in {Page(t), NoDoc}
    BY <1>i, SyncHolds
  <2>s. \A st \in {"failed", "fetching", "pending"} : st \in Status /\ st # "deleted"
    BY DEF Status, RowStatus, StableStatus, ActiveStatus
  <2>f. /\ status \in [DocIds -> Status] /\ owner \in [DocIds -> Conns \cup {NoConn}]
        /\ s3 \in [Sources -> Nat]
    BY <1>0 DEF TypeOK, ConnTypeOK
  \* What they write.
  <2>5. \/ /\ Pc(t) \in {"fetch", "mark"} /\ UNCHANGED <<s3, queue>>
           /\ \E st \in {"failed", "fetching"} :
                CreateDoc(Page(t), Owner(t), st) \/ Assign(Page(t), Owner(t), st)
        \/ /\ Pc(t) \in StagingPC /\ UNCHANGED owner
           /\ (UNCHANGED status /\ (UNCHANGED queue \/ SyncPush(t)))
                \/ (UNCHANGED queue /\ \E st \in {"failed", "pending"} : UpdateStatus(Page(t), st))
           /\ s3' = s3 \/ \E n : s3' = [s3 EXCEPT ![SourceOf[Page(t)]] = n]
    <3>1. CASE WebFetchError(t) \/ Mark(t)
      BY <3>1 DEF WebFetchError, Mark, redis
    <3>2. CASE Put(t)
      BY <3>2, Zenon DEF Put, StagingPC, rows, redis, tables
    <3>3. CASE PutFails(t) \/ Stage(t) \/ SyncPending(t)
      BY <3>3 DEF PutFails, Stage, SyncPending, StagingPC, redis
    <3>4. CASE SyncPush(t)
      BY <3>4 DEF SyncPush, StagingPC, rows, tables
    <3> QED
      BY <1>i, <3>1, <3>2, <3>3, <3>4
  <2>6. CASE d # Page(t)
    <3>1. status'[d] = status[d] /\ owner'[d] = owner[d]
      BY <2>5, <2>6, <2>f DEF CreateDoc, Assign, UpdateStatus
    <3>2. s3'[SourceOf[d]] = s3[SourceOf[d]] \/ kb = "active"
      <4>1. CASE SourceOf[d] = SourceOf[Page(t)]
        BY <2>3, <4>1
      <4>2. CASE SourceOf[d] # SourceOf[Page(t)]
        BY <2>5, <2>f, <4>2, StoreAssumption
      <4> QED
        BY <4>1, <4>2
    <3>3. ~Staging(t, d)'
      BY <1>0, <2>4, <2>6 DEF Staging, Page
    <3>4. HasWork(d)' => HasWork(d)
      <4>1. CASE queue' = queue
        BY <1>w, <4>1
      <4>2. CASE SyncPush(t)
        BY <2>6, <4>2, SyncPushOthers
      <4> QED
        BY <2>5, <4>1, <4>2
    <3> QED
      BY <1>r, <3>1, <3>2, <3>3, <3>4
  <2>7. CASE d = Page(t)
    <3>1. ~Late(t) /\ \A u \in Threads : Retiring(u, d) => Clean(d)'
      BY <2>3, <2>7
    <3>2. CASE /\ Pc(t) \in {"fetch", "mark"}
               /\ \E st \in {"failed", "fetching"} :
                    CreateDoc(Page(t), Owner(t), st) \/ Assign(Page(t), Owner(t), st)
      <4>1. HasRow(d)' => owner'[d] = Owner(t)
        BY <2>7, <2>f, <3>2 DEF CreateDoc, Assign, UpdateStatus, HasRow
      <4>2. status'[d] # "deleted"
        BY <2>7, <2>f, <3>2 DEF CreateDoc, Assign, UpdateStatus, HasRow
      <4> QED
        BY <1>1, <3>1, <4>1, <4>2, ClaimGone
    <3>3. CASE /\ Pc(t) \in StagingPC /\ UNCHANGED owner
               /\ UNCHANGED status \/ \E st \in {"failed", "pending"} : UpdateStatus(Page(t), st)
      <4>1. ~Clean(d)
        BY <2>7, <3>3 DEF Clean, Staging
      <4>2. status[d] # "deleted"
        BY <4>1 DEF Gone
      <4>3. status'[d] # "deleted" /\ (HasRow(d)' => HasRow(d))
        BY <2>7, <2>f, <3>3, <4>2 DEF UpdateStatus, HasRow
      <4> QED
        BY <1>1, <3>1, <3>3, <4>1, <4>3, ClaimGone
    <3> QED
      BY <2>5, <3>2, <3>3
  <2> QED
    BY <2>6, <2>7
<1> QED
  BY <1>3, <1>4, <1>5, <1>6, <1>i DEF SyncStep

-----------------------------------------------------------------------------
(* abort_active_ingest. *)

\* Where it goes: through its steps and back to who called it.
LEMMA AbortTask ==
  ASSUME ConnShape, NEW t \in Slots, AbortStep(t)
  PROVE  /\ Writes(t, task'[t])
         /\ task'[t].pc \in {"free", "docs", "collection"} \cup AbortPC
         /\ task'[t].pc = "collection" \/ (task'[t].pc \in AbortPC /\ task'[t].back = "collection") =>
              Pc(t) \in AbortPC /\ task[t].back = "collection"
<1>0. ConnTypeOK /\ task \in [Slots -> Task]
  BY DEF ConnShape, ConnTypeOK, Slots
<1>1. Writes(t, task'[t])
  BY ErrandStepMoves DEF CascadeStep, ErrandMoves
<1> USE DEF AbortPC
<1>2. CASE AbortActive(t)
  <2> DEFINE docs == ActiveDocs(Owner(t))
             back == IF Pc(t) = "cascade" THEN "docs" ELSE "free"
  <2>1. AbortOf(t, docs, back) /\ back \in {"docs", "free"}
    BY <1>2 DEF AbortActive
  <2>2. docs \in SUBSET DocIds
    BY DEF ActiveDocs
  <2> HIDE DEF docs, back
  <2>3. CASE task' = [task EXCEPT ![t].pc = "abort", ![t].back = back, ![t].todo = docs, ![t].sub = docs]
    <3>1. task'[t].pc = "abort" /\ task'[t].back = back
      BY <1>0, <2>3 DEF Task
    <3> QED
      BY <1>1, <2>1, <3>1
  <2>4. CASE task' = [task EXCEPT ![t] = FreeTask]
    BY <1>0, <1>1, <2>4 DEF FreeTask
  <2>5. CASE Jump(t, back) /\ back # "free"
    <3>1. back \in TaskPC /\ back = "docs"
      BY <2>1, <2>5 DEF TaskPC, CascadePC
    <3>2. task'[t].pc = "docs"
      BY <1>0, <2>5, <3>1, JumpEffect
    <3> QED
      BY <1>1, <3>2
  <2> QED
    BY <2>1, <2>3, <2>4, <2>5 DEF AbortOf
<1>3. CASE AbortDequeue(t)
  <2>1. PICK e \in task[t].todo :
          task' = [task EXCEPT ![t].todo = @ \ {e},
                     ![t].pc = IF task[t].todo = {e} THEN "abortPurge" ELSE @]
    BY <1>3 DEF AbortDequeue
  <2>2. Pc(t) = "abort"
    BY <1>3 DEF AbortDequeue
  <2>3. task'[t].pc \in {"abort", "abortPurge"} /\ task'[t].back = task[t].back
    BY <1>0, <2>1, <2>2 DEF Task, Pc
  <2> QED
    BY <1>1, <2>2, <2>3
<1>4. CASE AbortPurge(t)
  <2>1. PICK e \in task[t].sub :
          task' = [task EXCEPT ![t].pc = "abortMark", ![t].doc = e, ![t].sub = @ \ {e}]
    BY <1>4 DEF AbortPurge
  <2>2. Pc(t) = "abortPurge"
    BY <1>4 DEF AbortPurge
  <2>3. task'[t].pc = "abortMark" /\ task'[t].back = task[t].back
    BY <1>0, <2>1 DEF Task
  <2> QED
    BY <1>1, <2>2, <2>3
<1>5. CASE AbortMark(t)
  <2>0. Pc(t) = "abortMark" /\ task[t].back \in {"free", "docs", "collection"} /\ task[t] \in Task
    BY <1>0, <1>5, TaskTyped DEF AbortMark
  <2>1. CASE task' = [task EXCEPT ![t] = [task[t] EXCEPT !.pc = "abortPurge", !.doc = NoDoc]]
    <3>1. task'[t].pc = "abortPurge" /\ task'[t].back = task[t].back
      BY <1>0, <2>0, <2>1 DEF Task
    <3> QED
      BY <1>1, <2>0, <3>1
  <2>2. CASE task' = [task EXCEPT ![t] = FreeTask]
    BY <1>0, <1>1, <2>2 DEF FreeTask
  <2>3. CASE task' = [task EXCEPT ![t] = [task[t] EXCEPT !.pc = task[t].back, !.back = "free", !.doc = NoDoc]]
    <3>1. task'[t].pc = task[t].back
      BY <1>0, <2>0, <2>3 DEF Task
    <3> QED
      BY <1>1, <2>0, <3>1
  <2> QED
    BY <1>5, <2>1, <2>2, <2>3 DEF AbortMark
<1> QED
  BY <1>2, <1>3, <1>4, <1>5 DEF AbortStep

\* It only takes documents out of the lists.
LEMMA AbortUnborn ==
  ASSUME ConnShape, NEW t \in Slots, AbortStep(t), NEW d \in DocIds, HasWork(d)'
  PROVE  HasWork(d)
<1>0. TypeOK /\ HasWork(d)'
  BY DEF ConnShape
<1>w. UNCHANGED <<loop, job>>
  BY DEF AbortStep, AbortActive, AbortDequeue, AbortPurge, AbortMark, stores, tables, others, quiet
<1>1. CASE AbortActive(t) \/ AbortPurge(t) \/ AbortMark(t)
  <2>1. UNCHANGED <<queue, delayed, loop, job>>
    BY <1>1 DEF AbortActive, AbortPurge, AbortMark, stores, redis, others, quiet
  <2> QED
    BY <1>0, <2>1, WorkSame
<1>2. CASE AbortDequeue(t)
  <2>1. PICK e \in task[t].todo : DequeueUploads(e)
    BY <1>2 DEF AbortDequeue
  <2>2. /\ queue["upload"] \in Seq(Item)
        /\ queue'["upload"] = Without(queue["upload"], e)
        /\ queue'["delete"] = queue["delete"]
        /\ delayed'["upload"] = {it \in delayed["upload"] : it.id # e}
        /\ delayed'["delete"] = delayed["delete"]
    BY <1>0, <2>1 DEF DequeueUploads, TypeOK, Kind
  <2>3. Positions(Without(queue["upload"], e), d) # {} => Positions(queue["upload"], d) # {}
    <3> DEFINE q == queue["upload"]
    <3>1. /\ Without(q, e) \in Seq(Item)
          /\ \A n \in 1 .. Len(Without(q, e)) : \E i \in 1 .. Len(q) : Without(q, e)[n] = q[i]
      BY <2>2, WithoutEntries
    <3>2. DOMAIN Without(q, e) = 1 .. Len(Without(q, e)) /\ DOMAIN q = 1 .. Len(q)
      BY <2>2, <3>1
    <3> QED
      BY <3>1, <3>2 DEF Positions
  <2>4. Queued(d)' => Queued(d)
    BY <2>2, <2>3 DEF Queued, Kind, Positions
  <2>5. Delayed(d)' => Delayed(d)
    BY <2>2 DEF Delayed, Kind
  <2> QED
    BY <1>0, <1>w, <2>4, <2>5 DEF HasWork, Draining, InHand, HasJob, JobsOf
<1> QED
  BY <1>1, <1>2 DEF AbortStep

\* It takes documents out of the lists, purges their chunks and fails them: none of
\* that brings back what is gone.
LEMMA AbortGone ==
  ASSUME ConnShape, NEW t \in Slots, AbortStep(t), NEW d \in DocIds, Gone(d)
  PROVE  Gone(d)'
<1>0. TypeOK /\ ConnTypeOK /\ TaskShape(t)
  BY DEF ConnShape, TasksShape
<1>1. Writes(t, task'[t]) /\ task'[t].pc \in {"free", "docs", "collection"} \cup AbortPC
  BY AbortTask
<1>2. UNCHANGED <<kb, owner, s3, loop, job>>
  BY DEF AbortStep, AbortActive, AbortDequeue, AbortPurge, AbortMark, stores, tables, others, quiet
<1>3. ~Staging(t, d)' /\ task'[t].pc \notin {"chunks", "retire", "prefix", "meta"}
  BY <1>1 DEF Staging, Pc, StagingPC, AbortPC
<1>4. TearsOn /\ \A u \in Threads : task'[u] = task[u] \/ Swept(u, d)'
  <2>1. Pc(Api)' \in {"prefix", "meta"} => Pc(Api)' = Pc(Api)
    BY <1>1, <1>3 DEF Writes, Slots, Pc
  <2>2. \A u \in Threads : task'[u] = task[u] \/ Swept(u, d)'
    BY <1>1, <1>3 DEF Writes, Slots, Swept, Retiring, Pc
  <2> QED
    BY <1>2, <2>1, <2>2 DEF TearsOn
<1>5. HasWork(d)' => HasWork(d)
  BY AbortUnborn
<1>6. chunks'[d] \in {chunks[d], {}}
  <2>1. CASE AbortActive(t) \/ AbortDequeue(t) \/ AbortMark(t)
    BY <2>1 DEF AbortActive, AbortDequeue, AbortMark, stores
  <2>2. CASE AbortPurge(t)
    BY <1>0, <2>2 DEF AbortPurge, PurgeChunks, TypeOK
  <2> QED
    BY <2>1, <2>2 DEF AbortStep
<1>7. Clean(d) => Clean(d)'
  BY <1>1, <1>3, <1>5, <1>6, CleanKept
<1>8. status'[d] = status[d] \/ (HasRow(d) /\ status'[d] = "failed")
  <2>1. CASE AbortActive(t) \/ AbortDequeue(t) \/ AbortPurge(t)
    BY <2>1 DEF AbortActive, AbortDequeue, AbortPurge, stores, rows
  <2>2. CASE AbortMark(t)
    <3>1. UpdateStatus(Page(t), "failed") /\ "failed" \in Status
      BY <2>2 DEF AbortMark, Status, RowStatus, StableStatus
    <3> QED
      BY <1>0, <3>1, UpdateTyped
  <2> QED
    BY <2>1, <2>2 DEF AbortStep
<1>9. Rests(d)
  BY <1>7, <1>8 DEF Rests, Retired, HasRow
<1> QED
  BY <1>2, <1>4, <1>9, RestsGone

-----------------------------------------------------------------------------
(* _cascade_delete and delete_kb. *)

\* A cascade retires the documents it lists, and forgets its connector only when
\* every one that the connector still owns is retired.
LEMMA CascadeGone ==
  ASSUME ConnShape, NEW t \in Threads,
         CascadeDocs(t) \/ CascadeChunks(t) \/ CascadeRetire(t) \/ CascadeForget(t),
         NEW d \in DocIds, Gone(d), ~Overridden(d)'
  PROVE  Gone(d)'
<1>0. /\ TypeOK /\ ConnTypeOK /\ t \in Slots /\ Api \in Slots /\ Api # t /\ TaskShape(t)
      /\ task \in [Slots -> Task] /\ NoDoc \notin DocIds
  BY ConnectorAssumption, StoreAssumption DEF ConnShape, TasksShape, Slots, ConnTypeOK
<1>1. Writes(t, task'[t])
  BY <1>0, ErrandStepMoves DEF CascadeStep, ErrandMoves
<1>2. UNCHANGED <<kb, s3, queue, delayed, loop, job>>
  BY DEF CascadeDocs, CascadeChunks, CascadeRetire, CascadeForget, stores, redis, tables, others, quiet
<1>3. (HasWork(d)' <=> HasWork(d)) /\ TearsOn
  BY <1>0, <1>1, <1>2, WorkSame DEF TearsOn, Writes, Pc
<1>o. \A u \in Threads : u # t => task'[u] = task[u]
  BY <1>1 DEF Writes, Slots
\* What is to be shown when the owners stay.
<1>r. ASSUME Rests(d), owner'[d] = owner[d], Swept(t, d)' PROVE Gone(d)'
  BY <1>2, <1>3, <1>o, <1>r, RestsGone
<1>c. ASSUME ~Staging(t, d)', chunks'[d] \in {chunks[d], {}}, Clean(d) PROVE Clean(d)'
  BY <1>0, <1>1, <1>3, <1>c, CleanKept
<1>s. Swept(t, d)
  BY DEF Gone
<1>4. CASE CascadeDocs(t)
  <2> DEFINE docs == {e \in DocIds : owner[e] = Owner(t) /\ status[e] # "deleted"}
  <2>1. UNCHANGED <<status, chunks, owner>> /\ task' = [task EXCEPT ![t].pc = "chunks", ![t].todo = docs]
    BY <1>4 DEF CascadeDocs, stores, rows
  <2>2. task'[t].pc = "chunks" /\ task'[t].todo = docs /\ task'[t].conn = task[t].conn
    BY <1>0, <2>1 DEF Task
  <2>3. Clean(d) => Clean(d)'
    BY <1>c, <2>1, <2>2 DEF Staging, Pc, StagingPC
  <2>4. status[d] = "deleted" => Retired(d)'
    BY <2>1, <2>3 DEF Gone, Retired
  <2>5. Swept(t, d)'
    BY <2>1, <2>2, <2>4 DEF Swept, Retiring, Owner, Pc
  <2>6. Rests(d)
    BY <2>1, <2>3 DEF Rests, HasRow, Retired
  <2> QED
    BY <1>r, <2>1, <2>5, <2>6
<1>5. CASE CascadeChunks(t)
  <2>0. UNCHANGED <<status, owner>> /\ Pc(t) = "chunks"
    BY <1>5 DEF CascadeChunks, rows, tables
  <2>1. CASE UNCHANGED chunks /\ task' = [task EXCEPT ![t] = FreeTask]
    <3>1. task'[t].pc = "free"
      BY <1>0, <2>1 DEF FreeTask
    <3>2. Clean(d) => Clean(d)'
      BY <1>c, <2>1, <3>1 DEF Staging, Pc, StagingPC
    <3>3. Rests(d) /\ Swept(t, d)'
      BY <2>0, <3>1, <3>2 DEF Rests, HasRow, Retired, Swept, Retiring, Pc
    <3> QED
      BY <1>r, <2>0, <3>3
  <2>2. ASSUME NEW e \in task[t].todo, chunks' = [chunks EXCEPT ![e] = {}], Disturb(t, e),
               task' = [task EXCEPT ![t].pc = "retire", ![t].doc = e, ![t].todo = @ \ {e}]
        PROVE  Gone(d)'
    <3>1. /\ task'[t].pc = "retire" /\ task'[t].doc = e /\ task'[t].todo = task[t].todo \ {e}
          /\ task'[t].conn = task[t].conn
      BY <1>0, <2>2 DEF Task
    <3>2. ~Staging(t, d)'
      BY <3>1 DEF Staging, Pc, StagingPC
    <3>3. chunks'[d] \in {chunks[d], {}} /\ (d = e => chunks'[d] = {})
      BY <1>0, <2>2 DEF TypeOK
    <3>4. Clean(d) => Clean(d)'
      BY <1>c, <3>2, <3>3
    <3>5. Rests(d)
      BY <2>0, <3>4 DEF Rests, HasRow, Retired
    <3>6. CASE d = e
      <4>1. ~HasWork(d) /\ \A u \in Threads \ {t} : ~(Page(u) = d /\ Pc(u) \in SyncPC)
        BY <2>2, <3>6 DEF Disturb, Shared, Override, Overridden
      <4>2. \A u \in Threads : ~Staging(u, d)'
        BY <1>o, <3>2, <4>1 DEF Staging, StagingPC, SyncPC, Page, Pc
      <4>3. Clean(d)'
        BY <1>3, <3>3, <3>6, <4>1, <4>2 DEF Clean
      <4>4. Swept(t, d)'
        BY <3>1, <3>6, <4>3 DEF Swept, Retiring, Page, Pc
      <4> QED
        BY <1>r, <2>0, <3>5, <4>4
    <3>7. CASE d # e
      <4>1. ~Retiring(t, d)' /\ ~Retiring(t, d)
        BY <2>0, <3>1, <3>7 DEF Retiring, Page, Pc
      <4>2. HasRow(d)' /\ owner'[d] = Owner(t)' => d \in task'[t].todo \/ Retired(d)'
        BY <1>s, <2>0, <3>1, <3>5, <3>7, <4>1 DEF Swept, Rests, HasRow, Owner
      <4>3. Swept(t, d)'
        BY <4>1, <4>2 DEF Swept
      <4> QED
        BY <1>r, <2>0, <3>5, <4>3
    <3> QED
      BY <3>6, <3>7
  <2> QED
    BY <1>5, <2>1, <2>2 DEF CascadeChunks
<1>6. CASE CascadeRetire(t)
  <2>1. /\ Pc(t) = "retire" /\ UpdateStatus(Page(t), "deleted") /\ NextItem(t, "chunks")
        /\ UNCHANGED <<chunks, owner>>
    BY <1>6 DEF CascadeRetire, tables
  <2>2. /\ task'[t].pc = "chunks" /\ task'[t].doc = NoDoc /\ task'[t].todo = task[t].todo
        /\ task'[t].conn = task[t].conn
    BY <1>0, <2>1, NextItemEffect DEF TaskPC, CascadePC
  <2>3. Clean(d) => Clean(d)'
    BY <1>c, <2>1, <2>2 DEF Staging, Pc, StagingPC
  <2>4. status'[d] = IF d = Page(t) /\ HasRow(d) THEN "deleted" ELSE status[d]
    BY <1>0, <2>1, UpdateTyped DEF Status, RowStatus, StableStatus
  <2>5. d = Page(t) => Retiring(t, d) /\ Clean(d)'
    BY <1>s, <2>1, <2>3 DEF Swept, Retiring
  <2>6. Rests(d)
    BY <2>3, <2>4, <2>5 DEF Rests, HasRow, Retired
  <2>7. Retiring(t, d) /\ HasRow(d) => Retired(d)'
    BY <2>4, <2>5 DEF Retired, Retiring
  <2>8. ~Retiring(t, d)'
    BY <2>2 DEF Retiring, Pc
  <2>9. HasRow(d)' /\ owner'[d] = Owner(t)' => d \in task'[t].todo \/ Retired(d)'
    BY <1>s, <2>1, <2>2, <2>6, <2>7 DEF Swept, Rests, Owner
  <2>10. Swept(t, d)'
    BY <2>8, <2>9 DEF Swept
  <2> QED
    BY <1>r, <2>1, <2>6, <2>10
<1>7. CASE CascadeForget(t)
  <2>1. /\ Pc(t) = "chunks" /\ task[t].todo = {} /\ UNCHANGED <<status, chunks>>
        /\ owner'[d] = IF owner[d] = Owner(t) THEN NoConn ELSE owner[d]
        /\ task' = [task EXCEPT ![t] = FreeTask]
    BY <1>7 DEF CascadeForget, rows
  <2>2. task'[t].pc = "free"
    BY <1>0, <2>1 DEF FreeTask
  <2>3. Clean(d) => Clean(d)'
    BY <1>c, <2>1, <2>2 DEF Staging, Pc, StagingPC
  <2>4. Retired(d) => Retired(d)'
    BY <2>1, <2>3 DEF Retired
  <2>5. Orphan(d)' => Retired(d)'
    <3>1. HasRow(d) /\ owner[d] = Owner(t) => Retired(d)
      BY <1>s, <2>1 DEF Swept, Retiring
    <3> QED
      BY <2>1, <2>4, <3>1 DEF Gone, Orphan, HasRow
  <2>6. ASSUME NEW u \in Threads PROVE Swept(u, d)'
    <3>1. CASE u = t
      BY <2>2, <3>1 DEF Swept, Retiring, Pc
    <3>2. CASE u # t
      <4>1. task'[u] = task[u] /\ Swept(u, d) /\ (Retiring(u, d)' <=> Retiring(u, d))
        BY <1>o, <3>2 DEF Gone, Retiring, Page, Pc
      <4>2. Retiring(u, d)' => Clean(d)'
        BY <2>3, <4>1 DEF Swept
      <4>3. ASSUME Pc(u)' \in {"chunks", "retire"}, HasRow(d)', owner'[d] = Owner(u)'
            PROVE  d \in task'[u].todo \/ Retiring(u, d)' \/ Retired(d)'
        <5>1. Pc(u) \in {"chunks", "retire"} /\ Owner(u) = owner'[d]
          BY <4>1, <4>3 DEF Pc, Owner
        <5>2. Owner(u) \in Conns
          BY <5>1 DEF ConnShape, TasksShape, TaskShape, Slots, CascadePC, AbortPC
        <5>3. owner[d] = Owner(u) /\ HasRow(d)
          BY <2>1, <4>3, <5>1, <5>2, ConnectorAssumption DEF HasRow
        <5> QED
          BY <2>4, <4>1, <5>1, <5>3 DEF Swept
      <4> QED
        BY <4>2, <4>3 DEF Swept
    <3> QED
      BY <3>1, <3>2
  <2>7. TornDown(d)'
    BY <1>0, <1>1, <1>2, <2>3 DEF Gone, TornDown, Writes, Pc
  <2> QED
    BY <2>1, <2>3, <2>5, <2>6, <2>7 DEF Gone
<1> QED
  BY <1>4, <1>5, <1>6, <1>7

\* delete_kb drops the chunks and then the files of every document that nobody works
\* on, and then every row.
LEMMA TearDownGone ==
  ASSUME ConnShape, RequestAbort \/ DropCollection \/ DeletePrefix \/ DeleteMeta,
         NEW d \in DocIds, Gone(d), ~Overridden(d)'
  PROVE  Gone(d)'
<1>0. TypeOK /\ ConnTypeOK /\ Api \in Slots /\ Api \notin Threads /\ task \in [Slots -> Task]
  BY ConnectorAssumption DEF ConnShape, ConnTypeOK, Slots
<1>1. Writes(Api, task'[Api])
  BY <1>0, ErrandStepMoves DEF AdminStep, ErrandMoves
<1>2. UNCHANGED <<queue, delayed, loop, job>>
  BY DEF RequestAbort, DropCollection, DeletePrefix, DeleteMeta, stores, redis, others, quiet
<1>3. HasWork(d)' <=> HasWork(d)
  BY <1>2, WorkSame
<1>o. \A u \in Threads : task'[u] = task[u]
  BY <1>0, <1>1 DEF Writes, Slots
<1>c. ASSUME chunks'[d] \in {chunks[d], {}}, Clean(d) PROVE Clean(d)'
  BY <1>0, <1>1, <1>3, <1>c, CleanKept
<1>j. ASSUME NEW pc \in {"abortDocs", "prefix", "meta"}, Jump(Api, pc) PROVE task'[Api].pc = pc
  BY <1>0, <1>j, JumpEffect DEF TaskPC, ApiPC
<1>4. CASE RequestAbort
  <2>1. UNCHANGED <<status, chunks, s3, kb, owner>> /\ task'[Api].pc = "abortDocs"
    BY <1>4, <1>j DEF RequestAbort, stores, rows
  <2>2. Rests(d)
    BY <1>c, <2>1 DEF Rests, HasRow, Retired
  <2>3. TearsOn
    BY <2>1 DEF TearsOn, Pc
  <2> QED
    BY <1>o, <2>1, <2>2, <2>3, RestsGone
<1>5. CASE DropCollection
  <2>1. /\ UNCHANGED <<status, s3, kb, owner>> /\ task'[Api].pc = "prefix" /\ Pc(Api) = "collection"
        /\ chunks'[d] = {} /\ overridden' = overridden \cup Survivors
    BY <1>5, <1>j DEF DropCollection, rows, tables
  <2>2. ~HasWork(d) /\ \A u \in Threads : Page(u) # d
    BY <2>1 DEF Overridden, Survivors
  <2>3. Clean(d)'
    BY <1>3, <1>o, <2>1, <2>2 DEF Clean, Staging, Page
  <2>4. (Orphan(d)' => Retired(d)') /\ (status'[d] = "deleted" => Clean(d)')
    BY <2>1, <2>3 DEF Gone, Orphan, HasRow, Retired
  <2>5. ASSUME NEW u \in Threads PROVE Swept(u, d)'
    <3>1. task'[u] = task[u] /\ Swept(u, d) /\ ~Retiring(u, d) /\ ~Retiring(u, d)'
      BY <1>o, <2>2 DEF Gone, Retiring, Page
    <3>2. Retired(d) => Retired(d)'
      BY <2>1, <2>3 DEF Retired
    <3> QED
      BY <2>1, <3>1, <3>2 DEF Swept, HasRow, Pc, Owner
  <2>6. TornDown(d)'
    BY <2>1, <2>3 DEF Gone, TornDown, Pc
  <2> QED
    BY <2>4, <2>5, <2>6 DEF Gone
<1>6. CASE DeletePrefix
  <2>1. /\ UNCHANGED <<status, chunks, kb, owner>> /\ task'[Api].pc = "meta" /\ Pc(Api) = "prefix"
        /\ s3' = [s \in Sources |-> 0]
    BY <1>6, <1>j DEF DeletePrefix, rows, tables
  <2>2. Rests(d)
    BY <1>c, <2>1 DEF Rests, HasRow, Retired
  <2>3. (Orphan(d)' => Retired(d)') /\ (status'[d] = "deleted" => Clean(d)')
    BY <2>1, <2>2 DEF Gone, Orphan, Rests
  <2>4. ASSUME NEW u \in Threads PROVE Swept(u, d)'
    <3>1. task'[u] = task[u] /\ Swept(u, d) /\ (Retiring(u, d) <=> Retiring(u, d)')
      BY <1>o DEF Gone, Retiring, Page, Pc
    <3> QED
      BY <2>1, <2>2, <3>1 DEF Swept, Rests, Pc, Owner
  <2>5. TornDown(d)'
    <3>1. Clean(d)'
      BY <2>1, <2>2 DEF Gone, TornDown, Rests
    <3>2. s3'[SourceOf[d]] = 0
      BY <2>1, StoreAssumption
    <3> QED
      BY <3>1, <3>2 DEF TornDown
  <2> QED
    BY <2>3, <2>4, <2>5 DEF Gone
<1>7. CASE DeleteMeta
  <2>1. /\ UNCHANGED <<chunks, s3>> /\ Pc(Api) = "meta" /\ status'[d] = "none"
    BY <1>7 DEF DeleteMeta
  <2>2. Clean(d) /\ Clean(d)' /\ s3'[SourceOf[d]] = 0
    BY <1>c, <2>1 DEF Gone, TornDown
  <2>3. \A u \in Threads : Swept(u, d)'
    BY <2>1, <2>2 DEF Swept, HasRow
  <2> QED
    BY <2>1, <2>2, <2>3 DEF Gone, Orphan, HasRow, TornDown
<1> QED
  BY <1>4, <1>5, <1>6, <1>7

-----------------------------------------------------------------------------
(* The rest of the steps. *)

\* A request begins at most one task, and only delete_kb touches the knowledge base.
LEMMA AdminTask ==
  ASSUME ConnShape, Admin
  PROVE  \/ task' = task /\ kb' = kb
         \/ \E t \in Slots :
              /\ Pc(t) = "free" /\ Writes(t, task'[t])
              /\ \/ task'[t].pc \in {"list", "cascade", "flag"} /\ kb' = kb
                 \/ task'[t].pc \in {"abort", "collection"} /\ kb' = "deleting"
<1>0. ConnTypeOK /\ Api \in Slots /\ Threads \subseteq Slots /\ task \in [Slots -> Task]
  BY DEF ConnShape, Slots, ConnTypeOK
<1> DEFINE Begun(t) ==
      /\ Pc(t) = "free" /\ Writes(t, task'[t])
      /\ \/ task'[t].pc \in {"list", "cascade", "flag"} /\ kb' = kb
         \/ task'[t].pc \in {"abort", "collection"} /\ kb' = "deleting"
<1>1. ASSUME NEW t \in Slots, NEW c \in Conns, NEW pc \in {"list", "cascade", "flag"}, Pc(t) = "free",
             task' = [task EXCEPT ![t].pc = pc, ![t].conn = c], kb' = kb
      PROVE  Begun(t)
  <2> DEFINE r == [task[t] EXCEPT !.pc = pc, !.conn = c]
  <2>0. pc \in {"free"} \cup SyncPC \cup CascadePC \cup ApiPC
    BY DEF SyncPC, CascadePC, ApiPC
  <2>1. r \in Task /\ r.pc = pc
    BY <1>0, <2>0, TaskTyped, ZenonT(60) DEF Task
  <2>2. task' = [task EXCEPT ![t] = r]
    BY <1>1
  <2> HIDE DEF r
  <2>3. Writes(t, r)
    BY <1>0, <2>1, <2>2, TaskWritten
  <2> QED
    BY <1>1, <2>1, <2>3 DEF Writes
<1>2. CASE DeleteKb
  <2>1. /\ Pc(Api) = "free" /\ AbortOf(Api, ActiveKbDocs, "collection") /\ kb' = "deleting"
        /\ ActiveKbDocs \in SUBSET DocIds /\ "free" \in ErrandPC
    BY <1>2 DEF DeleteKb, Admitted, LoopFree, ActiveKbDocs, ErrandPC
  <2>2. Writes(Api, task'[Api])
    BY <1>0, <2>1, AbortOfMoves DEF ErrandMoves
  <2>3. task'[Api].pc \in {"abort", "collection"}
    <3> DEFINE docs == ActiveKbDocs
    <3> HIDE DEF docs
    <3>1. ASSUME task' = [task EXCEPT ![Api].pc = "abort", ![Api].back = "collection",
                                      ![Api].todo = docs, ![Api].sub = docs]
          PROVE  task'[Api].pc = "abort"
      BY <1>0, <3>1 DEF Task
    <3>2. ASSUME Jump(Api, "collection") PROVE task'[Api].pc = "collection"
      BY <1>0, <3>2, JumpEffect DEF TaskPC, ApiPC
    <3> QED
      BY <2>1, <3>1, <3>2 DEF AbortOf, docs
  <2> QED
    BY <1>0, <2>1, <2>2, <2>3
<1> HIDE DEF Begun
<1>3. CASE \E c \in Conns : TriggerSync(c) \/ AbortSync(c) \/ DeleteConnector(c)
  <2>1. PICK c \in Conns : TriggerSync(c) \/ AbortSync(c) \/ DeleteConnector(c)
    BY <1>3
  <2>2. \E t \in Slots, pc \in {"list", "cascade", "flag"} :
          Pc(t) = "free" /\ task' = [task EXCEPT ![t].pc = pc, ![t].conn = c] /\ kb' = kb
    BY <1>0, <2>1 DEF TriggerSync, AbortSync, DeleteConnector, Spawn, Admitted, LoopFree, stores
  <2> QED
    BY <1>1, <2>2 DEF Begun
<1>4. CASE \/ \E c \in Conns, type \in Types : CreateConnector(c, type)
           \/ \E c \in Conns, st \in {"active", "paused"} : PatchConnector(c, st)
  BY <1>4 DEF CreateConnector, PatchConnector, stores
<1> QED
  BY <1>2, <1>3, <1>4 DEF Admin, Begun

\* A request leaves alone what is gone, and with it the knowledge base that goes.
LEMMA AdminGone ==
  ASSUME ConnShape, Admin
  PROVE  /\ KbGoing => KbGoing'
         /\ \A d \in DocIds : Gone(d) => Gone(d)'
<1>0. Api \in Slots
  BY DEF Slots
<1>1. AdminMoves
  BY AdminStepMoves
<1>2. UNCHANGED <<status, owner, s3, chunks, queue, delayed, loop, job>>
  BY <1>1 DEF AdminMoves, rows, redis, quiet
<1>3. \/ task' = task /\ kb' = kb
      \/ \E t \in Slots :
           /\ Pc(t) = "free" /\ Writes(t, task'[t])
           /\ \/ task'[t].pc \in {"list", "cascade", "flag"} /\ kb' = kb
              \/ task'[t].pc \in {"abort", "collection"} /\ kb' = "deleting"
  BY AdminTask
<1>4. CASE task' = task /\ kb' = kb
  <2>1. KbGoing => KbGoing'
    BY <1>4 DEF KbGoing, Tearing, Pc
  <2>2. ASSUME NEW d \in DocIds, Gone(d) PROVE Gone(d)'
    <3>1. (HasWork(d)' <=> HasWork(d)) /\ TearsOn
      BY <1>2, <1>4, WorkSame DEF TearsOn, Pc
    <3>2. Clean(d)' <=> Clean(d)
      BY <1>2, <1>4, <3>1 DEF Clean, Staging, Page, Pc
    <3>3. Rests(d)
      BY <1>2, <3>2 DEF Rests, HasRow, Retired
    <3> QED
      BY <1>2, <1>4, <2>2, <3>1, <3>3, RestsGone
  <2> QED
    BY <2>1, <2>2
<1>5. ASSUME NEW t \in Slots, Pc(t) = "free", Writes(t, task'[t]),
             \/ task'[t].pc \in {"list", "cascade", "flag"} /\ kb' = kb
             \/ task'[t].pc \in {"abort", "collection"} /\ kb' = "deleting"
      PROVE  /\ KbGoing => KbGoing'
             /\ \A d \in DocIds : Gone(d) => Gone(d)'
  <2>1. task'[t].pc \in {"list", "cascade", "flag", "abort", "collection"}
    BY <1>5
  <2>2. KbGoing => KbGoing'
    <3>1. CASE t = Api
      BY <1>5, <3>1 DEF KbGoing, Tearing, Pc, AbortPC
    <3>2. CASE t # Api
      BY <1>0, <1>5, <3>2 DEF KbGoing, Tearing, Pc, Writes
    <3> QED
      BY <3>1, <3>2
  <2>3. ASSUME NEW d \in DocIds, Gone(d) PROVE Gone(d)'
    <3>1. HasWork(d)' <=> HasWork(d)
      BY <1>2, WorkSame
    <3>2. ~Staging(t, d)'
      BY <2>1 DEF Staging, StagingPC, Pc
    <3>3. Clean(d) => Clean(d)'
      BY <1>2, <1>5, <3>1, <3>2, CleanKept
    <3>4. Rests(d)
      BY <1>2, <3>3 DEF Rests, HasRow, Retired
    <3>5. TearsOn
      BY <1>0, <1>5, <2>1 DEF TearsOn, Writes, Pc
    <3>6. \A u \in Threads : task'[u] = task[u] \/ Swept(u, d)'
      BY <1>5, <2>1 DEF Writes, Slots, Swept, Retiring, Pc
    <3> QED
      BY <1>2, <2>3, <3>4, <3>5, <3>6, RestsGone
  <2> QED
    BY <2>2, <2>3
<1> QED
  BY <1>3, <1>4, <1>5

\* A crash ends the tasks and the pipelines, and with them what they had in hand.
LEMMA RestartGone ==
  ASSUME ConnShape, Restart
  PROVE  /\ OnlyUploads => OnlyUploads'
         /\ KbGoing'
         /\ \A d \in DocIds : Gone(d) => Gone(d)'
<1>1. /\ UNCHANGED <<status, owner, kb, s3, chunks, queue, delayed>>
      /\ loop' = IdleLoop /\ job' = [j \in Jobs |-> FreeJob]
      /\ task' = [t \in Slots |-> FreeTask]
  BY DEF Restart, Crash, rows, redis, tables, Slots
<1>2. \A t \in Slots : Pc(t)' = "free"
  BY <1>1 DEF Pc, FreeTask
<1>3. OnlyUploads => OnlyUploads'
  BY <1>1 DEF OnlyUploads, IdleLoop, FreeJob
<1>4. Pc(Api)' = "free"
  BY <1>2 DEF Slots
<1>5. KbGoing'
  BY <1>4 DEF KbGoing, Tearing, AbortPC, Pc
<1>6. ASSUME NEW d \in DocIds, Gone(d) PROVE Gone(d)'
  <2>1. HasWork(d)' => HasWork(d)
    <3>1. ~Draining(d)' /\ ~InHand(d)' /\ ~HasJob(d)'
      BY <1>1 DEF IdleLoop, FreeJob, Draining, InHand, InHandOp, HasJob, JobsOf
    <3>2. (Queued(d)' <=> Queued(d)) /\ (Delayed(d)' <=> Delayed(d))
      BY <1>1 DEF Queued, Delayed, Positions
    <3> QED
      BY <3>1, <3>2 DEF HasWork
  <2>2. \A t \in Threads : Pc(t)' = "free"
    BY <1>2 DEF Slots
  <2>3. Clean(d) => Clean(d)'
    BY <1>1, <2>1, <2>2 DEF Clean, Staging, StagingPC
  <2>4. Rests(d)
    BY <1>1, <2>3 DEF Rests, HasRow, Retired
  <2>5. TearsOn
    BY <1>1, <1>4 DEF TearsOn
  <2>6. \A t \in Threads : Swept(t, d)'
    BY <2>2 DEF Swept, Retiring
  <2> QED
    BY <1>1, <1>6, <2>4, <2>5, <2>6, RestsGone
<1> QED
  BY <1>3, <1>5, <1>6

\* A change at the origin, or no change at all.
LEMMA IdleGone ==
  ASSUME Edit \/ UNCHANGED allVars
  PROVE  /\ OnlyUploads => OnlyUploads'
         /\ KbGoing => KbGoing'
         /\ \A d \in DocIds : Gone(d) => Gone(d)'
<1>1. UNCHANGED <<status, owner, kb, s3, chunks, queue, delayed, loop, job, task>>
  BY DEF Edit, allVars, connVars, vars, rows, redis, counters, tables
<1>2. OnlyUploads => OnlyUploads'
  BY <1>1 DEF OnlyUploads
<1>3. (KbGoing => KbGoing') /\ TearsOn
  BY <1>1 DEF KbGoing, Tearing, TearsOn, Pc
<1>4. ASSUME NEW d \in DocIds, Gone(d) PROVE Gone(d)'
  <2>1. HasWork(d)' <=> HasWork(d)
    BY <1>1, WorkSame
  <2>2. Clean(d)' <=> Clean(d)
    BY <1>1, <2>1 DEF Clean, Staging, Page, Pc
  <2>3. Rests(d)
    BY <1>1, <2>2 DEF Rests, HasRow, Retired
  <2> QED
    BY <1>1, <1>3, <1>4, <2>3, RestsGone
<1> QED
  BY <1>2, <1>3, <1>4
-----------------------------------------------------------------------------
(* Every step of the system. *)

\* The sync threads, the cascades and the handlers queue uploads only.
LEMMA TasksUpload ==
  ASSUME ConnShape, OnlyUploads,
         \/ \E t \in Threads : SyncStep(t) \/ CascadeStep(t)
         \/ Admin \/ AdminStep
  PROVE  OnlyUploads'
<1>0. TypeOK
  BY DEF ConnShape
<1>g. ASSUME UNCHANGED <<loop, job>>, queue'["delete"] = queue["delete"],
             delayed'["delete"] = delayed["delete"]
      PROVE  OnlyUploads'
  BY <1>g DEF OnlyUploads
<1>1. ASSUME NEW t \in Threads, SyncStep(t) PROVE OnlyUploads'
  <2>1. UNCHANGED <<loop, job, delayed>>
    BY <1>1, SyncWrites DEF ConnShape, SyncTables
  <2>2. queue'["delete"] = queue["delete"]
    <3>1. CASE SyncPush(t)
      BY <1>0, <3>1 DEF SyncPush, TypeOK, Kind
    <3>2. CASE ~SyncPush(t)
      BY <1>1, <3>2 DEF SyncStep, List, NextPage, NextAttachment, WebRow, WebFetchError, WebSkip,
         WebUnchanged, WebChanged, GitHubRow, ConfluenceRow, AttachmentRow, Mark, Raises, HookStops,
         Put, PutFails, Stage, SyncEnqueue, SyncPending, Finish, MarkActive, SyncError, SetIdle,
         ClearAbort, unread, redis
    <3> QED
      BY <3>1, <3>2
  <2> QED
    BY <1>g, <2>1, <2>2
<1>2. ASSUME NEW t \in Slots, CascadeStep(t) \/ (t = Api /\ AdminStep) PROVE OnlyUploads'
  <2>1. UNCHANGED <<loop, job>>
    BY <1>2, ErrandWrites DEF ErrandTables
  <2>2. CASE AbortDequeue(t)
    <3>1. PICK e \in task[t].todo : DequeueUploads(e)
      BY <2>2 DEF AbortDequeue
    <3>2. queue'["delete"] = queue["delete"] /\ delayed'["delete"] = delayed["delete"]
      BY <1>0, <3>1 DEF DequeueUploads, TypeOK, Kind
    <3> QED
      BY <1>g, <2>1, <3>2
  <2>3. CASE ~AbortDequeue(t)
    <3>1. UNCHANGED redis
      BY <1>2, <2>3 DEF CascadeStep, AdminStep, AbortStep, AbortActive, AbortPurge, AbortMark, CascadeDocs,
         CascadeChunks, CascadeRetire, CascadeForget, RequestAbort, DropCollection, DeletePrefix,
         DeleteMeta, stores
    <3> QED
      BY <1>g, <2>1, <3>1 DEF redis
  <2> QED
    BY <2>2, <2>3
<1>3. CASE Admin
  BY <1>3, <1>g, AdminStepMoves DEF AdminMoves, redis, quiet
<1> QED
  BY <1>1, <1>2, <1>3 DEF Slots

\* A knowledge base that is being torn down is not made active by anybody.
LEMMA TasksTear ==
  ASSUME ConnShape, KbGoing, (\E t \in Threads : SyncStep(t) \/ CascadeStep(t)) \/ AdminStep
  PROVE  KbGoing'
<1>0. Api \in Slots /\ Api \notin Threads /\ ConnTypeOK
  BY ConnectorAssumption DEF Slots, ConnShape
<1>1. ASSUME NEW t \in Threads, SyncStep(t) \/ CascadeStep(t) PROVE KbGoing'
  <2>1. t \in Slots /\ t # Api
    BY <1>0 DEF Slots
  <2>2. Writes(t, task'[t])
    BY <1>1, <2>1, SyncStepMoves, ErrandStepMoves DEF SyncMoves, ErrandMoves
  <2>3. task'[Api] = task[Api]
    BY <1>0, <2>1, <2>2 DEF Writes
  <2>4. kb' = kb
    <3>1. CASE SyncStep(t)
      BY <3>1, SyncWrites DEF ConnShape, SyncTables
    <3>2. CASE CascadeStep(t)
      BY <3>2 DEF CascadeStep, AbortStep, AbortActive, AbortDequeue, AbortPurge, AbortMark, CascadeDocs,
         CascadeChunks, CascadeRetire, CascadeForget, stores, tables
    <3> QED
      BY <1>1, <3>1, <3>2
  <2> QED
    BY <2>3, <2>4 DEF KbGoing, Tearing, Pc
<1>j. ASSUME NEW pc \in {"abortDocs", "prefix", "meta"}, Jump(Api, pc) PROVE task'[Api].pc = pc
  BY <1>0, <1>j, JumpEffect DEF TaskPC, ApiPC
<1>2. CASE AbortStep(Api)
  <2>1. kb' = kb
    BY <1>2 DEF AbortStep, AbortActive, AbortDequeue, AbortPurge, AbortMark, stores, tables
  <2>2. /\ task'[Api].pc \in {"free", "docs", "collection"} \cup AbortPC
        /\ task'[Api].pc = "collection" \/ (task'[Api].pc \in AbortPC /\ task'[Api].back = "collection") =>
             Pc(Api) \in AbortPC /\ task[Api].back = "collection"
    BY <1>0, <1>2, AbortTask
  <2>3. Tearing' => Tearing
    BY <2>2 DEF Tearing, Pc, AbortPC
  <2> QED
    BY <2>1, <2>3 DEF KbGoing
<1>3. CASE RequestAbort
  <2>1. task'[Api].pc = "abortDocs"
    BY <1>3, <1>j DEF RequestAbort
  <2> QED
    BY <2>1 DEF KbGoing, Tearing, Pc, AbortPC
<1>4. CASE DropCollection \/ DeletePrefix
  <2>1. kb' = kb /\ Tearing
    BY <1>4 DEF DropCollection, DeletePrefix, tables, Tearing
  <2> QED
    BY <2>1 DEF KbGoing
<1>5. CASE DeleteMeta
  BY <1>5 DEF DeleteMeta, KbGoing
<1> QED
  BY <1>1, <1>2, <1>3, <1>4, <1>5 DEF AdminStep

\* What is marked overridden stays so.
LEMMA TasksOverride ==
  ASSUME (\E t \in Threads : SyncStep(t) \/ CascadeStep(t)) \/ AdminStep
  PROVE  overridden \subseteq overridden'
<1>o. ASSUME NEW e, NEW busy \in BOOLEAN, Override(e, busy) PROVE overridden \subseteq overridden'
  BY <1>o DEF Override
<1>d. ASSUME NEW t, NEW e, Disturb(t, e) PROVE overridden \subseteq overridden'
  BY <1>d DEF Disturb, Override
<1>i. ASSUME NEW t, NEW e, Intrude(t, e) PROVE overridden \subseteq overridden'
  BY <1>i DEF Intrude, Override
<1>1. ASSUME NEW t, SyncStep(t) PROVE overridden \subseteq overridden'
  <2>1. CASE WebFetchError(t) \/ Mark(t) \/ Put(t) \/ PutFails(t) \/ Stage(t) \/ SyncPending(t) \/ SyncPush(t)
    BY <1>i, <2>1 DEF WebFetchError, Mark, Put, PutFails, Stage, SyncPending, SyncPush
  <2>2. CASE WebUnchanged(t)
    BY <2>2 DEF WebUnchanged, Override
  <2>3. CASE \/ List(t) \/ NextPage(t) \/ NextAttachment(t) \/ WebRow(t) \/ WebSkip(t) \/ WebChanged(t)
             \/ GitHubRow(t) \/ ConfluenceRow(t) \/ AttachmentRow(t) \/ Raises(t) \/ HookStops(t)
             \/ SyncEnqueue(t) \/ Finish(t) \/ MarkActive(t) \/ SyncError(t) \/ SetIdle(t) \/ ClearAbort(t)
    BY <2>3 DEF List, NextPage, NextAttachment, WebRow, WebSkip, WebChanged, GitHubRow, ConfluenceRow,
       AttachmentRow, Raises, HookStops, SyncEnqueue, Finish, MarkActive, SyncError, SetIdle, ClearAbort,
       unread
  <2> QED
    BY <1>1, <2>1, <2>2, <2>3 DEF SyncStep
<1>2. ASSUME NEW t, AbortStep(t) PROVE overridden \subseteq overridden'
  BY <1>2, <1>d DEF AbortStep, AbortActive, AbortDequeue, AbortPurge, AbortMark, Override, stores
<1>3. ASSUME NEW t, CascadeDocs(t) \/ CascadeChunks(t) \/ CascadeRetire(t) \/ CascadeForget(t)
      PROVE  overridden \subseteq overridden'
  BY <1>3, <1>d DEF CascadeDocs, CascadeChunks, CascadeRetire, CascadeForget, stores
<1>4. CASE RequestAbort \/ DropCollection \/ DeletePrefix \/ DeleteMeta
  BY <1>4 DEF RequestAbort, DropCollection, DeletePrefix, DeleteMeta, stores
<1> QED
  BY <1>1, <1>2, <1>3, <1>4 DEF CascadeStep, AdminStep

\* Every step leaves alone what is gone.
LEMMA DelKept ==
  ASSUME ConnShape, DelInv, [SysNext]_allVars
  PROVE  DelInv'
<1>0. TypeOK /\ Shape /\ OnlyUploads /\ KbGoing /\ \A d \in DocIds : ~Overridden(d) => Gone(d)
  BY DEF DelInv, ConnShape
\* What has to be shown of a step.
<1>g. ASSUME OnlyUploads', KbGoing', overridden \subseteq overridden',
             \A d \in DocIds : Gone(d) /\ ~Overridden(d)' => Gone(d)'
      PROVE  DelInv'
  BY <1>0, <1>g DEF DelInv, Overridden
<1>1. CASE Edit \/ UNCHANGED allVars
  <2>1. overridden' = overridden
    BY <1>1 DEF Edit, allVars, vars, history
  <2> QED
    BY <1>0, <1>1, <1>g, <2>1, IdleGone
<1>2. CASE Restart
  <2>1. overridden' = overridden
    BY <1>2 DEF Restart, Crash, history
  <2> QED
    BY <1>0, <1>2, <1>g, <2>1, RestartGone
<1>3. CASE Admin
  <2>1. overridden' = overridden
    BY <1>3, AdminStepMoves DEF AdminMoves
  <2> QED
    BY <1>0, <1>3, <1>g, <2>1, AdminGone, TasksUpload
<1>4. CASE WorkerStep \/ \E j \in Jobs : PipelineStep(j)
  <2>1. UNCHANGED <<kb, task>>
    BY <1>4 DEF WorkerStep, PipelineStep
  <2>2. KbGoing'
    BY <1>0, <2>1 DEF KbGoing, Tearing, Pc
  <2>3. OnlyUploads' /\ overridden \subseteq overridden'
    <3>1. CASE WorkerStep
      <4>1. Poll \/ SetPending \/ Push \/ \E j \in Jobs : StartTask(j)
        BY <3>1 DEF WorkerStep
      <4>2. overridden' = overridden
        <5>1. CASE \E j \in Jobs : StartTask(j)
          BY <1>0, <5>1, StartMoves
        <5>2. CASE Poll \/ SetPending \/ Push
          BY <5>2 DEF Poll, PollBegin, DrainNext, DrainDone, Take, Claim, ListDone, TakeError, SetPending,
             Push, history
        <5> QED
          BY <4>1, <5>1, <5>2
      <4> QED
        BY <1>0, <4>1, <4>2, WorkerUploads
    <3>2. ASSUME NEW j \in Jobs, PipelineStep(j) PROVE OnlyUploads' /\ overridden \subseteq overridden'
      BY <1>0, <3>2, PipelineUploads, PipelineMoves DEF PipelineStep, JobMoves
    <3> QED
      BY <1>4, <3>1, <3>2
  <2> QED
    BY <1>0, <1>4, <1>g, <2>2, <2>3, WorkGone
<1>5. ASSUME NEW t \in Threads, SyncStep(t) PROVE DelInv'
  BY <1>0, <1>5, <1>g, TasksUpload, TasksTear, TasksOverride, SyncGone
<1>6. ASSUME NEW t \in Threads, CascadeStep(t) PROVE DelInv'
  <2>1. \A d \in DocIds : Gone(d) /\ ~Overridden(d)' => Gone(d)'
    BY <1>6, AbortGone, CascadeGone DEF CascadeStep, Slots
  <2> QED
    BY <1>0, <1>6, <1>g, <2>1, TasksUpload, TasksTear, TasksOverride
<1>7. CASE AdminStep
  <2>1. \A d \in DocIds : Gone(d) /\ ~Overridden(d)' => Gone(d)'
    BY <1>7, AbortGone, TearDownGone DEF AdminStep, Slots
  <2> QED
    BY <1>0, <1>7, <1>g, <2>1, TasksUpload, TasksTear, TasksOverride
<1> QED
  BY <1>1, <1>2, <1>3, <1>4, <1>5, <1>6, <1>7 DEF SysNext

\* Nothing is gone at first, so nothing has come back.
LEMMA SysInitGone == SysInit => DelInv
<1> SUFFICES ASSUME SysInit PROVE DelInv
  OBVIOUS
<1>1. /\ status = [d \in DocIds |-> "none"] /\ queue = [k \in Kind |-> <<>>]
      /\ delayed = [k \in Kind |-> {}] /\ loop = IdleLoop /\ job = [j \in Jobs |-> FreeJob]
      /\ kb = "active" /\ task = [t \in Slots |-> FreeTask]
  BY DEF SysInit, Init, ConnInit, Slots
<1>2. OnlyUploads
  BY <1>1 DEF OnlyUploads, IdleLoop, FreeJob, Kind
<1>3. \A t \in Slots : Pc(t) = "free"
  BY <1>1 DEF Pc, FreeTask
<1>4. KbGoing
  BY <1>3 DEF KbGoing, Tearing, Slots, AbortPC
<1>5. ASSUME NEW d \in DocIds PROVE Gone(d)
  <2>1. status[d] = "none" /\ ~HasRow(d)
    BY <1>1 DEF HasRow
  <2>2. \A t \in Threads : Swept(t, d)
    BY <1>3 DEF Swept, Retiring, Slots
  <2>3. TornDown(d)
    BY <1>1, <1>3 DEF TornDown, Slots
  <2> QED
    BY <2>1, <2>2, <2>3 DEF Gone, Orphan
<1> QED
  BY <1>2, <1>4, <1>5 DEF DelInv

\* What is deleted stays deleted: of a deleted connector or knowledge base nothing is
\* served, staged or on its way to be, for any number of connectors, sync threads,
\* pipelines and documents, through aborts and crashes.  The documents that the system
\* itself raced for (a late sync, a pipeline that outlived the deletion, a sync of
\* another connector while the deletion had the document) are the exception that the
\* property names.
THEOREM DeletedStaysDeletedHolds == SysSpec => []DeletedStaysDeleted
<1>1. ConnShape /\ DelInv /\ [SysNext]_allVars => (ConnShape /\ DelInv)'
  BY ConnShapeKept, DelKept
<1>2. DelInv => DeletedStaysDeleted
  BY DEF DelInv, Gone, Retired, Clean, TornDown, DeletedStaysDeleted
<1> QED
  BY SysInitShaped, SysInitGone, <1>1, <1>2, PTL DEF SysSpec

-----------------------------------------------------------------------------
(* What search serves of a synced document.                                  *)

\* What is stored of a document.
File(d) == s3[SourceOf[d]]

\* What a sync thread knows of the origin is no newer than the origin, what it is
\* going to record is no newer than the bytes it is going to store, and what it is
\* going to update is there.
Fetched(t) ==
  /\ Pc(t) = "free" => task[t] = FreeTask
  /\ Pc(t) \in SyncPC => \A d \in DocIds : task[t].listing[d] <= site[SourceOf[d]]
  /\ Pc(t) \in {"list", "page", "attach", "row", "fetch"} => task[t].file = 0
  /\ Pc(t) \in {"mark", "put"} =>
       task[t].ver <= IF task[t].file = 0 THEN site[SourceOf[Page(t)]] ELSE task[t].file
  /\ Pc(t) \in StagingPC => ~task[t].new
  /\ kb = "active" /\ Pc(t) \in {"fetch", "mark"} \cup StagingPC /\ ~task[t].new => HasRow(Page(t))

\* What is in work has a row no newer than its file, and one pipeline at most, which
\* carries the file.
InWork(d) ==
  /\ HasWork(d) => HasRow(d) /\ version[d] <= File(d)
  /\ HasJob(d) => status[d] = "running"
  /\ loop.id = d /\ loop.op \in {"setPending", "claim"} => ~HasJob(d)
  /\ \A i, j \in JobsOf(d) : i = j
  /\ \A j \in JobsOf(d) : JobServes(j, d)

\* A thread stages what nobody works on.
Staged(t, d) == Staging(t, d) =>
  /\ status[d] # "indexed" /\ ~HasWork(d)
  /\ Pc(t) = "stage" => task[t].ver <= File(d)
  /\ Pc(t) \in {"enqueue", "setPending", "push"} => version[d] <= File(d)

\* What is indexed serves its file, or nothing while or after a cascade had it.
Serving(d) == status[d] = "indexed" =>
  /\ chunks[d] \subseteq {File(d)} /\ version[d] <= File(d)
  /\ chunks[d] = {} => crashes > 0 \/ \E t \in Threads : Retiring(t, d)

Synced(d) == InWork(d) /\ Serving(d) /\ \A t \in Threads : Staged(t, d)

SyncInv ==
  /\ NoVerdict
  /\ \A t \in Threads : Fetched(t)
  /\ kb = "active" => \A d \in DocIds : ~Overridden(d) => Synced(d)

-----------------------------------------------------------------------------
\* While the knowledge base is active no row goes.
LEMMA RowsKept ==
  ASSUME ConnShape, OnlyUploads, [SysNext]_allVars, kb' = "active"
  PROVE  kb = "active" /\ \A d \in DocIds : HasRow(d) => HasRow(d)'
<1>0. TypeOK /\ Shape /\ ConnTypeOK /\ kb' = "active"
  BY DEF ConnShape
<1>u. ASSUME NEW e, NEW st \in Status \ {"none"}, UpdateStatus(e, st), NEW d \in DocIds, HasRow(d)
      PROVE  HasRow(d)'
  BY <1>0, <1>u, UpdateTyped DEF HasRow
<1>s. {"failed", "fetching", "pending", "deleted", "running", "indexed", "outdated"} \subseteq Status \ {"none"}
  BY DEF Status, RowStatus, StableStatus, ActiveStatus
<1>1. ASSUME NEW t \in Threads, SyncStep(t) PROVE kb' = kb /\ \A d \in DocIds : HasRow(d) => HasRow(d)'
  <2>1. kb' = kb
    BY <1>1, SyncWrites DEF SyncTables
  <2>2. \/ UNCHANGED status
        \/ \E st \in {"failed", "fetching", "pending"} :
             UpdateStatus(Page(t), st) \/ status' = [status EXCEPT ![Page(t)] = st]
    <3>1. CASE WebFetchError(t) \/ Mark(t)
      BY <3>1 DEF WebFetchError, Mark, CreateDoc, Assign
    <3>2. CASE PutFails(t) \/ Stage(t) \/ SyncPending(t)
      BY <3>2 DEF PutFails, Stage, SyncPending
    <3>3. CASE Put(t) \/ SyncPush(t) \/ WebUnchanged(t)
      BY <3>3 DEF Put, SyncPush, WebUnchanged, rows
    <3>4. CASE \/ List(t) \/ NextPage(t) \/ NextAttachment(t) \/ WebRow(t) \/ WebSkip(t) \/ WebChanged(t)
               \/ GitHubRow(t) \/ ConfluenceRow(t) \/ AttachmentRow(t) \/ Raises(t) \/ HookStops(t)
               \/ SyncEnqueue(t) \/ Finish(t)
      BY <3>4 DEF List, NextPage, NextAttachment, WebRow, WebSkip, WebChanged, GitHubRow, ConfluenceRow,
         AttachmentRow, Raises, HookStops, SyncEnqueue, Finish, unread, rows
    <3>5. CASE MarkActive(t) \/ SyncError(t) \/ SetIdle(t) \/ ClearAbort(t)
      BY <3>5 DEF MarkActive, SyncError, SetIdle, ClearAbort, rows
    <3> QED
      BY <1>1, <3>1, <3>2, <3>3, <3>4, <3>5 DEF SyncStep
  <2>3. ASSUME NEW st \in {"failed", "fetching", "pending"}, status' = [status EXCEPT ![Page(t)] = st],
               NEW d \in DocIds, HasRow(d)
        PROVE  HasRow(d)'
    BY <1>0, <2>3 DEF HasRow, TypeOK
  <2>4. UNCHANGED status => \A d \in DocIds : HasRow(d) => HasRow(d)'
    BY DEF HasRow
  <2> QED
    BY <1>u, <1>s, <2>1, <2>2, <2>3, <2>4
<1>2. ASSUME NEW t \in Slots, CascadeStep(t) \/ AbortStep(t)
      PROVE  kb' = kb /\ \A d \in DocIds : HasRow(d) => HasRow(d)'
  <2>1. kb' = kb
    BY <1>2 DEF CascadeStep, AbortStep, AbortActive, AbortDequeue, AbortPurge, AbortMark, CascadeDocs,
         CascadeChunks, CascadeRetire, CascadeForget, stores, tables
  <2>2. UNCHANGED status \/ \E st \in {"failed", "deleted"} : UpdateStatus(Page(t), st)
    BY <1>2 DEF CascadeStep, AbortStep, AbortActive, AbortDequeue, AbortPurge, AbortMark, CascadeDocs,
         CascadeChunks, CascadeRetire, CascadeForget, stores, rows
  <2>4. UNCHANGED status => \A d \in DocIds : HasRow(d) => HasRow(d)'
    BY DEF HasRow
  <2> QED
    BY <1>u, <1>s, <2>1, <2>2, <2>4
<1>3. CASE AdminStep
  <2>1. CASE RequestAbort \/ DropCollection \/ DeletePrefix
    BY <1>0, <2>1 DEF RequestAbort, DropCollection, DeletePrefix, stores, tables, rows, HasRow
  <2>2. CASE DeleteMeta
    BY <1>0, <2>2 DEF DeleteMeta
  <2> QED
    BY <1>0, <1>2, <1>3, <2>1, <2>2 DEF AdminStep, Slots
<1>4. CASE Admin
  <2>1. UNCHANGED status
    BY <1>4, AdminStepMoves DEF AdminMoves, rows
  <2>2. kb = "active"
    BY <1>0, <1>4, AdminTask
  <2> QED
    BY <2>1, <2>2 DEF HasRow
<1>5. CASE WorkerStep
  <2>1. kb' = kb /\ (Poll \/ SetPending \/ Push \/ \E j \in Jobs : StartTask(j))
    BY <1>5 DEF WorkerStep
  <2>2. \A d \in DocIds : HasRow(d) => HasRow(d)'
    BY <1>0, <2>1, WorkerRows DEF HasRow
  <2> QED
    BY <1>0, <2>1, <2>2
<1>6. ASSUME NEW j \in Jobs, PipelineStep(j) PROVE kb' = kb /\ \A d \in DocIds : HasRow(d) => HasRow(d)'
  <2>1. kb' = kb /\ JobStep(j)
    BY <1>6 DEF PipelineStep
  <2>2. JobWrites(j) /\ job[j].kind = "upload"
    BY <1>0, <2>1, PipelineMoves, PipelineWrites DEF JobMoves, OnlyUploads
  <2>3. UNCHANGED status => \A d \in DocIds : HasRow(d) => HasRow(d)'
    BY DEF HasRow
  <2>4. \/ UNCHANGED status
        \/ \E st \in {"running", "indexed", "failed", "outdated"} :
             UpdateStatus(job[j].id, st) \/ UpdateStatus(job[j].dup, st)
    BY <2>2 DEF JobWrites
  <2> QED
    BY <1>u, <1>s, <2>1, <2>3, <2>4
<1>7. CASE Edit \/ Restart \/ UNCHANGED allVars
  BY <1>0, <1>7 DEF Edit, Restart, Crash, allVars, connVars, vars, rows, tables, HasRow
<1> QED
  BY <1>0, <1>1, <1>2, <1>3, <1>4, <1>5, <1>6, <1>7 DEF SysNext, Slots

\* The origin only moves on, and nobody else moves it.
LEMMA SiteGrows ==
  ASSUME ConnShape, [SysNext]_allVars, NEW s \in Sources
  PROVE  site[s] \in Nat /\ site'[s] \in Nat /\ site[s] <= site'[s]
<1>0. site \in [Sources -> Nat]
  BY DEF ConnShape, ConnTypeOK
<1>1. CASE Edit
  BY <1>0, <1>1 DEF Edit
<1>2. CASE WorkerStep \/ (\E j \in Jobs : PipelineStep(j)) \/ Restart \/ UNCHANGED allVars
  BY <1>0, <1>2 DEF WorkerStep, PipelineStep, Restart, allVars, connVars
<1>3. ASSUME NEW t \in Threads, SyncStep(t) \/ CascadeStep(t) PROVE site' = site
  BY <1>3, SyncWrites, ErrandWrites DEF SyncTables, ErrandTables, Slots
<1>4. CASE Admin \/ AdminStep
  BY <1>0, <1>4, AdminStepMoves, ErrandWrites DEF AdminMoves, ErrandTables, quiet, Slots
<1> QED
  BY <1>0, <1>1, <1>2, <1>3, <1>4 DEF SysNext

\* A thread that another step passes by still knows what it knew.
LEMMA FetchedStays ==
  ASSUME ConnShape, OnlyUploads, [SysNext]_allVars, NEW t \in Threads, Fetched(t), task'[t] = task[t]
  PROVE  Fetched(t)'
<1>0. /\ task[t] \in Task /\ task[t].listing \in [DocIds -> Nat] /\ task[t].ver \in Nat /\ task[t].file \in Nat
      /\ Pc(t) \in DocPC => Page(t) \in DocIds
  BY TaskTyped DEF ConnShape, TasksShape, TaskShape, Slots
<1>1. \A d \in DocIds : SourceOf[d] \in Sources /\ site[SourceOf[d]] \in Nat /\ site'[SourceOf[d]] \in Nat
                        /\ site[SourceOf[d]] <= site'[SourceOf[d]]
  BY SiteGrows, StoreAssumption
<1>2. \A d \in DocIds : task[t].listing[d] <= site[SourceOf[d]] => task'[t].listing[d] <= site'[SourceOf[d]]
  BY <1>0, <1>1
<1>3. Pc(t) \in {"mark", "put"} \cup StagingPC \cup {"fetch"} => Page(t) \in DocIds
  BY <1>0 DEF DocPC, StagingPC
<1>4. Pc(t)' \in {"mark", "put"} =>
        task'[t].ver <= IF task'[t].file = 0 THEN site'[SourceOf[Page(t)']] ELSE task'[t].file
  <2> SUFFICES ASSUME Pc(t) \in {"mark", "put"}
               PROVE  task[t].ver <= IF task[t].file = 0 THEN site'[SourceOf[Page(t)]] ELSE task[t].file
    BY DEF Pc, Page
  <2> DEFINE a == site[SourceOf[Page(t)]]
             b == site'[SourceOf[Page(t)]]
  <2>1. a \in Nat /\ b \in Nat /\ a <= b
    BY <1>1, <1>3
  <2>2. task[t].ver <= IF task[t].file = 0 THEN a ELSE task[t].file
    BY DEF Fetched
  <2> HIDE DEF a, b
  <2>3. task[t].ver <= IF task[t].file = 0 THEN b ELSE task[t].file
    BY <1>0, <2>1, <2>2
  <2> QED
    BY <2>3 DEF b
<1>5. kb' = "active" /\ Pc(t)' \in {"fetch", "mark"} \cup StagingPC /\ ~task'[t].new => HasRow(Page(t))'
  BY <1>3, RowsKept DEF Fetched, Pc, Page, HasRow
<1> QED
  BY <1>2, <1>4, <1>5 DEF Fetched, Pc

\* What a step of a sync learns of the origin and of its document.
LEMMA SyncFetched ==
  ASSUME ConnShape, OnlyUploads, NEW t \in Threads, SyncStep(t), Fetched(t)
  PROVE  Fetched(t)'
<1>0. /\ TypeOK /\ ConnTypeOK /\ t \in Slots /\ TaskShape(t) /\ task \in [Slots -> Task] /\ Pc(t) \in SyncPC
      /\ task[t] \in Task /\ task[t].listing \in [DocIds -> Nat] /\ task[t].ver \in Nat /\ task[t].file \in Nat
  BY SyncStepMoves, TaskTyped DEF ConnShape, TasksShape, Slots, ConnTypeOK
<1>1. site' = site /\ kb' = kb
  BY SyncWrites DEF SyncTables
<1>2. \A d \in DocIds : SourceOf[d] \in Sources /\ site[SourceOf[d]] \in Nat
  BY <1>0, StoreAssumption DEF ConnTypeOK
<1>3. \A d \in DocIds : task[t].listing[d] <= site[SourceOf[d]]
  BY <1>0 DEF Fetched
<1>4. kb = "active" => \A d \in DocIds : HasRow(d) => HasRow(d)'
  <2>1. [SysNext]_allVars
    BY DEF SysNext
  <2> QED
    BY <1>1, <2>1, RowsKept
<1>p. Pc(t) \in DocPC => Page(t) \in DocIds
  BY <1>0 DEF TaskShape
\* Steps that go elsewhere with the listing they have.
<1>j. ASSUME NEW pc \in {"finish", "error", "idle", "wait", "clear"}, Jump(t, pc) PROVE Fetched(t)'
  <2>1. pc \in TaskPC
    BY DEF TaskPC, SyncPC
  <2>2. task'[t].pc = pc /\ task'[t].listing = task[t].listing
    BY <1>0, <1>j, <2>1, JumpEffect
  <2> QED
    BY <1>1, <1>3, <2>2 DEF Fetched, Pc, StagingPC
<1>n. ASSUME NEW pc \in {"page", "attach"}, NextItem(t, pc) PROVE Fetched(t)'
  <2>1. pc \in TaskPC
    BY DEF TaskPC, SyncPC
  <2>2. task'[t].pc = pc /\ task'[t].listing = task[t].listing /\ task'[t].file = 0
    BY <1>0, <1>n, <2>1, NextItemEffect
  <2> QED
    BY <1>1, <1>3, <2>2 DEF Fetched, Pc, StagingPC
<1>a. After(t) \in {"page", "attach"}
  BY DEF After
\* Steps that list or take the next item.
<1>l. ASSUME task'[t].pc \in {"page", "row"}, task'[t].file = 0,
             \A d \in DocIds : task'[t].listing[d] <= site[SourceOf[d]]
      PROVE  Fetched(t)'
  BY <1>1, <1>l DEF Fetched, Pc, StagingPC
<1>5. CASE List(t)
  <2>1. CASE Jump(t, "error")
    BY <1>j, <2>1
  <2> DEFINE listing == [d \in DocIds |-> IF Type(t) = "web" \/ d \notin Pages THEN 0 ELSE site[SourceOf[d]]]
  <2>2. \A d \in DocIds : listing[d] <= site[SourceOf[d]]
    BY <1>2
  <2> HIDE DEF listing
  <2>3. CASE task' = [task EXCEPT ![t].pc = "page", ![t].todo = Pages, ![t].listing = listing]
    <3>1. task'[t].pc = "page" /\ task'[t].file = task[t].file /\ task'[t].listing = listing
      BY <1>0, <2>3 DEF Task
    <3>2. task[t].file = 0
      BY <1>5 DEF List, Fetched
    <3> QED
      BY <1>l, <2>2, <3>1, <3>2
  <2> QED
    BY <1>5, <2>1, <2>3 DEF List, listing
<1>6. CASE NextPage(t)
  <2>1. CASE Jump(t, "finish")
    BY <1>j, <2>1
  <2>2. ASSUME NEW d, NEW docs,
               task' = [task EXCEPT ![t].pc = "row", ![t].doc = d, ![t].todo = @ \ {d}, ![t].sub = docs]
        PROVE  Fetched(t)'
    <3>1. task'[t].pc = "row" /\ task'[t].file = task[t].file /\ task'[t].listing = task[t].listing
      BY <1>0, <2>2 DEF Task
    <3>2. task[t].file = 0
      BY <1>6 DEF NextPage, Fetched
    <3> QED
      BY <1>3, <1>l, <3>1, <3>2
  <2> QED
    BY <1>6, <2>1, <2>2, Zenon DEF NextPage
<1>7. CASE NextAttachment(t)
  <2>f. task[t].file = 0
    BY <1>7 DEF NextAttachment, Fetched
  <2> DEFINE listing == [a \in DocIds |-> ListedVersion(t, a)]
  <2>1. \A d \in DocIds : listing[d] <= site[SourceOf[d]]
    BY <1>2, <1>3 DEF ListedVersion
  <2> HIDE DEF listing
  <2>2. ASSUME NEW d,
               task' = [task EXCEPT ![t].pc = "row", ![t].doc = d, ![t].sub = @ \ {d}, ![t].listing = listing]
        PROVE  Fetched(t)'
    <3>1. task'[t].pc = "row" /\ task'[t].file = task[t].file /\ task'[t].listing = listing
      BY <1>0, <2>2 DEF Task
    <3> QED
      BY <1>l, <2>1, <2>f, <3>1
  <2>3. CASE task' = [task EXCEPT ![t].pc = "page", ![t].sub = {}]
    <3>1. task'[t].pc = "page" /\ task'[t].file = task[t].file /\ task'[t].listing = task[t].listing
      BY <1>0, <2>3 DEF Task
    <3> QED
      BY <1>3, <1>l, <2>f, <3>1
  <2> QED
    BY <1>7, <2>2, <2>3, Zenon DEF NextAttachment, listing
\* Steps that have read the row.
<1>8. CASE WebRow(t)
  <2> DEFINE new == ~HasRow(Page(t))
             seen == Stored(Page(t))
  <2>1. Pc(t) = "row" /\ task' = [task EXCEPT ![t].pc = "fetch", ![t].new = new, ![t].seen = seen]
    BY <1>8 DEF WebRow
  <2>2. new <=> ~HasRow(Page(t))
    OBVIOUS
  <2>h. Page(t) \in DocIds
    BY <1>p, <2>1 DEF DocPC
  <2> HIDE DEF new, seen
  <2>3. /\ task'[t].pc = "fetch" /\ task'[t].new = new /\ task'[t].doc = task[t].doc
        /\ task'[t].file = task[t].file /\ task'[t].listing = task[t].listing
    BY <1>0, <2>1 DEF Task
  <2>4. task[t].file = 0
    BY <2>1 DEF Fetched
  <2>5. kb = "active" /\ ~new => HasRow(Page(t))'
    BY <1>4, <2>2, <2>3, <2>h DEF HasRow, Page
  <2> QED
    BY <1>1, <1>3, <2>3, <2>4, <2>5 DEF Fetched, Pc, Page, StagingPC
<1>9. CASE WebChanged(t)
  <2> DEFINE now == site[SourceOf[Page(t)]]
  <2>1. /\ Pc(t) = "fetch" /\ Page(t) \in DocIds
        /\ task' = [task EXCEPT ![t].pc = "mark", ![t].seen = 0, ![t].ver = now, ![t].file = now]
    BY <1>9, <1>p DEF WebChanged, DocPC
  <2>2. now \in Nat
    BY <1>2, <2>1
  <2> HIDE DEF now
  <2>3. /\ task'[t].pc = "mark" /\ task'[t].new = task[t].new /\ task'[t].doc = task[t].doc
        /\ task'[t].ver = now /\ task'[t].file = now /\ task'[t].listing = task[t].listing
    BY <1>0, <2>1 DEF Task
  <2>4. now <= IF now = 0 THEN now ELSE now
    BY <2>2
  <2>5. task'[t].ver <= IF task'[t].file = 0 THEN site'[SourceOf[Page(t)']] ELSE task'[t].file
    BY <1>1, <2>3, <2>4 DEF now, Page
  <2>6. kb = "active" /\ ~task'[t].new => HasRow(Page(t))'
    BY <1>4, <2>1, <2>3 DEF Fetched, HasRow, Page
  <2> QED
    BY <1>1, <1>3, <2>3, <2>5, <2>6 DEF Fetched, Pc, Page, StagingPC
<1>m. ASSUME NEW new, NEW ver, NEW file, Pc(t) = "row", new = ~HasRow(Page(t)),
             ver = task[t].listing[Page(t)], file \in {task[t].file, ver},
             task' = [task EXCEPT ![t].pc = "mark", ![t].new = new, ![t].ver = ver, ![t].file = file]
      PROVE  Fetched(t)'
  <2>1. Page(t) \in DocIds
    BY <1>p, <1>m DEF DocPC
  <2> DEFINE now == site[SourceOf[Page(t)]]
  <2>2. now \in Nat /\ ver \in Nat /\ ver <= now
    BY <1>0, <1>2, <1>3, <1>m, <2>1
  <2> HIDE DEF now
  <2>3. /\ task'[t].pc = "mark" /\ task'[t].new = new /\ task'[t].doc = task[t].doc
        /\ task'[t].ver = ver /\ task'[t].file = file /\ task'[t].listing = task[t].listing
    BY <1>0, <1>m DEF Task
  <2>4. file = 0 \/ file = ver
    BY <1>m DEF Fetched
  <2>5. ver <= IF file = 0 THEN now ELSE file
    BY <2>2, <2>4
  <2>6. task'[t].ver <= IF task'[t].file = 0 THEN site'[SourceOf[Page(t)']] ELSE task'[t].file
    BY <1>1, <2>3, <2>5 DEF now, Page
  <2>7. kb = "active" /\ ~task'[t].new => HasRow(Page(t))'
    BY <1>4, <1>m, <2>1, <2>3 DEF HasRow, Page
  <2> QED
    BY <1>1, <1>3, <2>3, <2>6, <2>7 DEF Fetched, Pc, Page, StagingPC
<1>f. ASSUME NEW new, NEW ver,
             task' = [task EXCEPT ![t].pc = "mark", ![t].new = new, ![t].ver = ver]
      PROVE  task' = [task EXCEPT ![t].pc = "mark", ![t].new = new, ![t].ver = ver, ![t].file = task[t].file]
  BY <1>0, <1>f, Zenon DEF Task
<1>10. CASE GitHubRow(t) \/ AttachmentRow(t)
  <2>1. Pc(t) = "row"
    BY <1>10 DEF GitHubRow, AttachmentRow
  <2>2. CASE NextItem(t, "page") \/ NextItem(t, "attach")
    BY <1>n, <2>2
  <2>3. CASE task' = [task EXCEPT ![t].pc = "mark", ![t].new = ~HasRow(Page(t)),
                                  ![t].ver = task[t].listing[Page(t)]]
    <3> DEFINE new == ~HasRow(Page(t))
               ver == task[t].listing[Page(t)]
    <3>1. task' = [task EXCEPT ![t].pc = "mark", ![t].new = new, ![t].ver = ver]
      BY <2>3
    <3>2. new = ~HasRow(Page(t)) /\ ver = task[t].listing[Page(t)]
      OBVIOUS
    <3> HIDE DEF new, ver
    <3>3. task' = [task EXCEPT ![t].pc = "mark", ![t].new = new, ![t].ver = ver, ![t].file = task[t].file]
      BY <1>f, <3>1
    <3>4. task[t].file \in {task[t].file, ver}
      OBVIOUS
    <3> QED
      BY <1>m, <2>1, <3>2, <3>3, <3>4, Zenon
  <2> QED
    BY <1>10, <2>2, <2>3 DEF GitHubRow, AttachmentRow
<1>11. CASE ConfluenceRow(t)
  <2>1. Pc(t) = "row"
    BY <1>11 DEF ConfluenceRow
  <2>2. CASE NextItem(t, "page") \/ NextItem(t, "attach")
    BY <1>n, <2>2
  <2>3. CASE task' = [task EXCEPT ![t].pc = "mark", ![t].new = ~HasRow(Page(t)),
                                  ![t].ver = task[t].listing[Page(t)], ![t].file = task[t].listing[Page(t)]]
    BY <1>m, <2>1, <2>3
  <2> QED
    BY <1>11, <2>2, <2>3 DEF ConfluenceRow
\* Steps that leave the item or the sync.
<1>12. CASE Raises(t) \/ HookStops(t) \/ Finish(t) \/ MarkActive(t) \/ SyncError(t) \/ SetIdle(t)
  BY <1>12, <1>j, <1>n DEF Raises, Raise, HookStops, Finish, MarkActive, SyncError, SetIdle
<1>13. CASE WebFetchError(t) \/ WebSkip(t) \/ WebUnchanged(t) \/ PutFails(t) \/ SyncPush(t)
  BY <1>13, <1>a, <1>n DEF WebFetchError, WebSkip, WebUnchanged, PutFails, SyncPush
<1>14. CASE ClearAbort(t)
  <2>1. task'[t] = FreeTask
    BY <1>0, <1>14 DEF ClearAbort
  <2> QED
    BY <2>1 DEF Fetched, Pc, FreeTask, SyncPC, StagingPC
\* Steps that stage the document.
<1>s. ASSUME task'[t].pc \in StagingPC, ~task'[t].new, task'[t].doc = task[t].doc,
             task'[t].listing = task[t].listing, kb = "active" => HasRow(Page(t))',
             task'[t].pc = "put" => task'[t].ver = task[t].ver /\ task'[t].file = task[t].file /\ Pc(t) = "mark"
      PROVE  Fetched(t)'
  <2>1. Pc(t)' = "put" =>
          task'[t].ver <= IF task'[t].file = 0 THEN site'[SourceOf[Page(t)']] ELSE task'[t].file
    BY <1>1, <1>s DEF Fetched, Pc, Page
  <2> QED
    BY <1>1, <1>3, <1>s, <2>1 DEF Fetched, Pc, Page, StagingPC
<1>h. ASSUME Pc(t) \in StagingPC PROVE Page(t) \in DocIds /\ ~task[t].new /\ (kb = "active" => status'[Page(t)] # "none")
  <2>1. Page(t) \in DocIds
    BY <1>h, <1>p DEF StagingPC, DocPC
  <2>2. ~task[t].new /\ (kb = "active" => HasRow(Page(t)))
    BY <1>h DEF Fetched
  <2> QED
    BY <1>4, <2>1, <2>2 DEF HasRow
<1>15. CASE Mark(t)
  <2>1. Pc(t) = "mark" /\ task' = [task EXCEPT ![t].pc = "put", ![t].new = FALSE] /\ Page(t) \in DocIds
    BY <1>15, <1>p DEF Mark, DocPC
  <2>2. /\ task'[t].pc = "put" /\ task'[t].new = FALSE /\ task'[t].doc = task[t].doc
        /\ task'[t].ver = task[t].ver /\ task'[t].file = task[t].file /\ task'[t].listing = task[t].listing
    BY <1>0, <2>1 DEF Task
  <2>3. kb = "active" => HasRow(Page(t))'
    <3>1. CASE CreateDoc(Page(t), Owner(t), "fetching")
      <4>1. status'[Page(t)] = "fetching"
        BY <1>0, <2>1, <3>1 DEF CreateDoc, TypeOK
      <4> QED
        BY <2>2, <4>1 DEF HasRow, Page
    <3>2. CASE ~task[t].new
      BY <1>4, <2>1, <2>2, <3>2 DEF Fetched, HasRow, Page
    <3> QED
      BY <1>15, <3>1, <3>2 DEF Mark
  <2> QED
    BY <1>s, <2>1, <2>2, <2>3 DEF StagingPC
<1>16. CASE Put(t)
  <2>1. Pc(t) = "put" /\ task' = [task EXCEPT ![t].pc = "stage", ![t].file = 0]
    BY <1>16 DEF Put
  <2>2. /\ task'[t].pc = "stage" /\ task'[t].new = task[t].new /\ task'[t].doc = task[t].doc
        /\ task'[t].listing = task[t].listing
    BY <1>0, <2>1 DEF Task
  <2> QED
    BY <1>h, <1>s, <2>1, <2>2 DEF StagingPC, HasRow, Page
<1>17. CASE Stage(t)
  <2>1. Pc(t) = "stage" /\ task' = [task EXCEPT ![t].pc = "enqueue", ![t].ver = 0]
    BY <1>17 DEF Stage
  <2>2. /\ task'[t].pc = "enqueue" /\ task'[t].new = task[t].new /\ task'[t].doc = task[t].doc
        /\ task'[t].listing = task[t].listing
    BY <1>0, <2>1 DEF Task
  <2> QED
    BY <1>h, <1>s, <2>1, <2>2 DEF StagingPC, HasRow, Page
<1>18. CASE SyncEnqueue(t) \/ SyncPending(t)
  <2>1. Pc(t) \in StagingPC
    BY <1>18 DEF SyncEnqueue, SyncPending, StagingPC
  <2>2. CASE NextItem(t, After(t))
    BY <1>a, <1>n, <2>2
  <2>3. ASSUME NEW pc \in {"push", "setPending"}, Jump(t, pc) PROVE Fetched(t)'
    <3>1. pc \in TaskPC
      BY DEF TaskPC, SyncPC
    <3>2. /\ task'[t].pc = pc /\ task'[t].new = task[t].new /\ task'[t].doc = task[t].doc
          /\ task'[t].listing = task[t].listing
      BY <1>0, <2>3, <3>1, JumpEffect
    <3> QED
      BY <1>h, <1>s, <2>1, <3>2 DEF StagingPC, HasRow, Page
  <2> QED
    BY <1>18, <2>2, <2>3 DEF SyncEnqueue, SyncPending
<1> QED
  BY <1>5, <1>6, <1>7, <1>8, <1>9, <1>10, <1>11, <1>12, <1>13, <1>14, <1>15, <1>16, <1>17, <1>18 DEF SyncStep

\* A cascade that ends leaves nothing in its slot.
LEMMA CascadeEnds ==
  ASSUME ConnShape, NEW t \in Threads, CascadeStep(t), task'[t].pc = "free"
  PROVE  task'[t] = FreeTask
<1>0. /\ ConnTypeOK /\ t \in Slots /\ task \in [Slots -> Task] /\ task[t] \in Task /\ task'[t].pc = "free"
      /\ TaskShape(t)
  BY TaskTyped DEF ConnShape, ConnTypeOK, TasksShape, Slots
<1>f. ASSUME task' = [task EXCEPT ![t] = FreeTask] PROVE task'[t] = FreeTask
  BY <1>0, <1>f
<1>1. CASE AbortActive(t)
  <2> DEFINE docs == ActiveDocs(Owner(t))
             back == IF Pc(t) = "cascade" THEN "docs" ELSE "free"
  <2>1. AbortOf(t, docs, back) /\ back \in {"docs", "free"}
    BY <1>1 DEF AbortActive
  <2> HIDE DEF docs, back
  <2>2. ~(task' = [task EXCEPT ![t].pc = "abort", ![t].back = back, ![t].todo = docs, ![t].sub = docs])
    BY <1>0 DEF Task
  <2>3. ~(Jump(t, back) /\ back # "free")
    <3>1. back # "free" => back = "docs"
      BY <2>1
    <3>2. "docs" \in TaskPC
      BY DEF TaskPC, CascadePC
    <3> QED
      BY <1>0, <3>1, <3>2, JumpEffect
  <2> QED
    BY <1>f, <2>1, <2>2, <2>3 DEF AbortOf
<1>2. CASE AbortDequeue(t)
  <2>1. PICK e \in task[t].todo :
          task' = [task EXCEPT ![t].todo = @ \ {e},
                     ![t].pc = IF task[t].todo = {e} THEN "abortPurge" ELSE @]
    BY <1>2 DEF AbortDequeue
  <2>2. Pc(t) = "abort"
    BY <1>2 DEF AbortDequeue
  <2>3. task'[t].pc \in {"abort", "abortPurge"}
    BY <1>0, <2>1, <2>2 DEF Task, Pc
  <2> QED
    BY <1>0, <2>3
<1>3. CASE AbortPurge(t)
  <2>1. PICK e \in task[t].sub :
          task' = [task EXCEPT ![t].pc = "abortMark", ![t].doc = e, ![t].sub = @ \ {e}]
    BY <1>3 DEF AbortPurge
  <2> QED
    BY <1>0, <2>1 DEF Task
<1>4. CASE AbortMark(t)
  <2>1. CASE task' = [task EXCEPT ![t] = [task[t] EXCEPT !.pc = "abortPurge", !.doc = NoDoc]]
    BY <1>0, <2>1 DEF Task
  <2>2. CASE task' = [task EXCEPT ![t] = [task[t] EXCEPT !.pc = task[t].back, !.back = "free", !.doc = NoDoc]]
             /\ task[t].back # "free"
    BY <1>0, <2>2 DEF Task
  <2> QED
    BY <1>4, <1>f, <2>1, <2>2 DEF AbortMark
<1>5. CASE CascadeDocs(t)
  <2> DEFINE docs == {d \in DocIds : owner[d] = Owner(t) /\ status[d] # "deleted"}
  <2>1. task' = [task EXCEPT ![t].pc = "chunks", ![t].todo = docs]
    BY <1>5 DEF CascadeDocs
  <2> HIDE DEF docs
  <2> QED
    BY <1>0, <2>1 DEF Task
<1>6. CASE CascadeChunks(t)
  <2>1. ASSUME NEW e, task' = [task EXCEPT ![t].pc = "retire", ![t].doc = e, ![t].todo = @ \ {e}]
        PROVE  FALSE
    BY <1>0, <2>1 DEF Task
  <2> QED
    BY <1>6, <1>f, <2>1 DEF CascadeChunks
<1>7. CASE CascadeRetire(t)
  <2>1. NextItem(t, "chunks") /\ "chunks" \in TaskPC
    BY <1>7 DEF CascadeRetire, TaskPC, CascadePC
  <2> QED
    BY <1>0, <2>1, NextItemEffect
<1>8. CASE CascadeForget(t)
  BY <1>8, <1>f DEF CascadeForget
<1> QED
  BY <1>1, <1>2, <1>3, <1>4, <1>5, <1>6, <1>7, <1>8 DEF CascadeStep, AbortStep

\* Every step leaves every thread with what it knows.
LEMMA FetchedKept ==
  ASSUME ConnShape, OnlyUploads, [SysNext]_allVars, NEW u \in Threads, Fetched(u)
  PROVE  Fetched(u)'
<1>0. /\ ConnTypeOK /\ u \in Slots /\ Api \in Slots /\ u # Api /\ task \in [Slots -> Task]
      /\ task[u] \in Task
  BY ConnectorAssumption, TaskTyped DEF ConnShape, ConnTypeOK, Slots
<1>s. task'[u] = task[u] => Fetched(u)'
  BY FetchedStays
<1>w. ASSUME NEW t \in Slots, Writes(t, task'[t]), t # u PROVE Fetched(u)'
  BY <1>0, <1>s, <1>w DEF Writes
<1>e. ASSUME task'[u].pc \in ErrandPC, task'[u].pc = "free" => task'[u] = FreeTask PROVE Fetched(u)'
  BY <1>e DEF ErrandPC, CascadePC, ApiPC, AbortPC, Fetched, Pc, SyncPC, StagingPC, FreeTask
<1>1. ASSUME NEW t \in Threads, SyncStep(t) PROVE Fetched(u)'
  <2>1. CASE t = u
    BY <1>1, <2>1, SyncFetched
  <2>2. CASE t # u
    <3>1. Writes(t, task'[t]) /\ t \in Slots
      BY <1>1, SyncStepMoves DEF SyncMoves, Slots
    <3> QED
      BY <1>w, <2>2, <3>1
  <2> QED
    BY <2>1, <2>2
<1>2. ASSUME NEW t \in Threads, CascadeStep(t) PROVE Fetched(u)'
  <2>1. Writes(t, task'[t]) /\ t \in Slots /\ task'[t].pc \in ErrandPC
    BY <1>2, ErrandStepMoves DEF ErrandMoves, Slots
  <2>2. CASE t = u
    BY <1>2, <1>e, <2>1, <2>2, CascadeEnds
  <2> QED
    BY <1>w, <2>1, <2>2
<1>3. CASE AdminStep
  <2>1. Writes(Api, task'[Api])
    BY <1>0, <1>3, ErrandStepMoves DEF ErrandMoves
  <2> QED
    BY <1>0, <1>w, <2>1
<1>4. CASE Admin
  <2>1. CASE \E c \in Conns : TriggerSync(c) \/ DeleteConnector(c)
    <3>1. PICK t \in Threads, c \in Conns, pc \in {"list", "cascade"} :
            Pc(t) = "free" /\ task' = [task EXCEPT ![t].pc = pc, ![t].conn = c]
      BY <2>1 DEF TriggerSync, DeleteConnector, Spawn
    <3>2. CASE t # u
      <4>1. task'[u] = task[u]
        BY <1>0, <3>1, <3>2
      <4> QED
        BY <1>s, <4>1
    <3>3. CASE t = u
      <4>1. task[u] = FreeTask
        BY <3>1, <3>3 DEF Fetched
      <4>2. task'[u].pc = pc /\ task'[u].file = task[u].file /\ task'[u].listing = task[u].listing
        BY <1>0, <3>1, <3>3 DEF Task
      <4>3. task[u].file = 0 /\ \A d \in DocIds : task[u].listing[d] = 0
        BY <4>1 DEF FreeTask
      <4>4. \A d \in DocIds : 0 <= site'[SourceOf[d]]
        BY SiteGrows, StoreAssumption
      <4> QED
        BY <3>1, <4>2, <4>3, <4>4 DEF Fetched, Pc, SyncPC, StagingPC, CascadePC
    <3> QED
      BY <3>2, <3>3
  <2>2. CASE \E c \in Conns : AbortSync(c)
    <3>1. PICK c \in Conns : task' = [task EXCEPT ![Api].pc = "flag", ![Api].conn = c]
      BY <2>2 DEF AbortSync
    <3>2. task'[u] = task[u]
      BY <1>0, <3>1
    <3> QED
      BY <1>s, <3>2
  <2>3. CASE DeleteKb
    <3>1. AbortOf(Api, ActiveKbDocs, "collection")
      BY <2>3 DEF DeleteKb
    <3>2. task'[u] = task[u]
      BY <1>0, <3>1 DEF AbortOf, Jump
    <3> QED
      BY <1>s, <3>2
  <2>4. CASE \/ \E c \in Conns, type \in Types : CreateConnector(c, type)
             \/ \E c \in Conns, st \in {"active", "paused"} : PatchConnector(c, st)
    <3>1. task' = task
      BY <2>4 DEF CreateConnector, PatchConnector
    <3> QED
      BY <1>s, <3>1
  <2> QED
    BY <1>4, <2>1, <2>2, <2>3, <2>4 DEF Admin
<1>5. CASE WorkerStep \/ (\E j \in Jobs : PipelineStep(j)) \/ Edit \/ UNCHANGED allVars
  <2>1. task' = task
    BY <1>5 DEF WorkerStep, PipelineStep, Edit, allVars, connVars
  <2> QED
    BY <1>s, <2>1
<1>6. CASE Restart
  <2>1. task'[u] = FreeTask
    BY <1>6 DEF Restart
  <2> QED
    BY <1>e, <2>1 DEF FreeTask, ErrandPC
<1> QED
  BY <1>1, <1>2, <1>3, <1>4, <1>5, <1>6 DEF SysNext

-----------------------------------------------------------------------------
\* What has to be shown of a step that writes one task and leaves the document alone.
LEMMA TaskLeaves ==
  ASSUME NEW t \in Slots, Writes(t, task'[t]), NEW d \in DocIds, Synced(d),
         UNCHANGED <<loop, job, crashes>>, status'[d] = status[d], version'[d] = version[d],
         chunks'[d] = chunks[d], File(d)' = File(d), HasWork(d)' => HasWork(d),
         t \in Threads => Staged(t, d)' /\ (Retiring(t, d) => Retiring(t, d)')
  PROVE  Synced(d)'
<1>1. JobsOf(d)' = JobsOf(d)
  BY DEF JobsOf
<1>2. InWork(d)'
  BY <1>1 DEF Synced, InWork, HasRow, HasJob, JobServes, File
<1>o. \A u \in Threads : u # t => task'[u] = task[u]
  BY DEF Writes, Slots
<1>3. Serving(d)'
  <2>1. \A u \in Threads : Retiring(u, d) => Retiring(u, d)'
    BY <1>o DEF Retiring, Page, Pc
  <2> QED
    BY <2>1 DEF Synced, Serving
<1>4. ASSUME NEW u \in Threads, u # t PROVE Staged(u, d)'
  <2>1. Staged(u, d) /\ task'[u] = task[u]
    BY <1>o, <1>4 DEF Synced
  <2> QED
    BY <2>1 DEF Staged, Staging, Page, Pc
<1> QED
  BY <1>2, <1>3, <1>4 DEF Synced

\* And of one that writes a document nobody else has in hand.
LEMMA TaskOwns ==
  ASSUME NEW t \in Slots, Writes(t, task'[t]), NEW d \in DocIds, UNCHANGED <<loop, job>>, ~Shared(t, d),
         t \in Threads => Staged(t, d)', Serving(d)',
         HasWork(d)' => HasRow(d)' /\ version'[d] <= File(d)'
  PROVE  Synced(d)'
<1>1. ~HasJob(d) /\ ~HasJob(d)' /\ JobsOf(d)' = {}
  BY DEF Shared, HasWork, HasJob, JobsOf
<1>2. InWork(d)'
  BY <1>1 DEF InWork
<1>3. ASSUME NEW u \in Threads, u # t PROVE Staged(u, d)'
  <2>1. task'[u] = task[u] /\ ~(Page(u) = d /\ Pc(u) \in SyncPC)
    BY <1>3 DEF Writes, Slots, Shared
  <2> QED
    BY <2>1 DEF Staged, Staging, StagingPC, SyncPC, Page, Pc
<1> QED
  BY <1>2, <1>3 DEF Synced

\* Every step of a sync keeps a document in step with its file, unless it marks it
\* overridden.
LEMMA SyncSynced ==
  ASSUME ConnShape, NEW t \in Threads, SyncStep(t), Fetched(t), kb = "active",
         NEW d \in DocIds, Synced(d), ~Overridden(d)'
  PROVE  Synced(d)'
<1>0. TypeOK /\ ConnTypeOK /\ t \in Slots /\ NoDoc \notin DocIds
  BY StoreAssumption DEF ConnShape, Slots
<1>1. /\ Writes(t, task'[t]) /\ Pc(t) \in SyncPC
      /\ UNCHANGED <<loop, job, crashes, chunks, delayed>>
  BY SyncStepMoves, SyncWrites DEF SyncMoves, SyncTables, counters
<1>w. queue' = queue => (HasWork(d)' <=> HasWork(d))
  BY <1>1, WorkSame
<1>t. ~Retiring(t, d)
  BY <1>1 DEF Retiring, SyncPC
<1>l. ASSUME status'[d] = status[d], version'[d] = version[d], File(d)' = File(d),
             HasWork(d)' => HasWork(d), Staged(t, d)'
      PROVE  Synced(d)'
  BY <1>0, <1>1, <1>l, <1>t, TaskLeaves
<1>p. task'[t].pc \notin StagingPC => Staged(t, d)'
  BY DEF Staged, Staging, Pc
\* Steps that write nothing of the document, or only its owner.
<1>2. CASE \/ List(t) \/ NextPage(t) \/ NextAttachment(t) \/ WebRow(t) \/ WebSkip(t)
           \/ WebChanged(t) \/ GitHubRow(t) \/ ConfluenceRow(t) \/ AttachmentRow(t)
           \/ Raises(t) \/ HookStops(t) \/ Finish(t)
           \/ MarkActive(t) \/ SyncError(t) \/ SetIdle(t) \/ ClearAbort(t)
  <2>1. UNCHANGED <<status, version, s3, queue>>
    BY <1>2 DEF List, NextPage, NextAttachment, WebRow, WebSkip, WebChanged, GitHubRow,
       ConfluenceRow, AttachmentRow, Raises, HookStops, Finish, unread, MarkActive, SyncError, SetIdle,
       ClearAbort, rows, redis
  <2>2. task'[t].pc \notin StagingPC
    BY <1>2, SyncStages
  <2> QED
    BY <1>l, <1>p, <1>w, <2>1, <2>2 DEF File
<1>3. CASE WebUnchanged(t)
  <2>1. UNCHANGED <<status, version, s3, queue>> /\ NextItem(t, "page") /\ "page" \in TaskPC
    BY <1>3 DEF WebUnchanged, rows, redis, TaskPC, SyncPC
  <2>2. task'[t].pc \notin StagingPC
    BY <1>0, <2>1, NextItemEffect DEF StagingPC
  <2> QED
    BY <1>l, <1>p, <1>w, <2>1, <2>2 DEF File
<1>4. CASE SyncEnqueue(t)
  <2>1. UNCHANGED <<status, version, s3, queue>> /\ Pc(t) = "enqueue"
    BY <1>4 DEF SyncEnqueue, unread, rows, redis
  <2>2. \/ task'[t].doc = NoDoc
        \/ task'[t].doc = task[t].doc /\ task'[t].pc \in {"push", "setPending"}
    <3>1. {"push", "setPending", "attach", "page"} \subseteq TaskPC
      BY DEF TaskPC, SyncPC
    <3>2. \/ \E pc \in {"push", "setPending"} : Jump(t, pc)
          \/ \E pc \in {"attach", "page"} : NextItem(t, pc)
      BY <1>4 DEF SyncEnqueue, After
    <3> QED
      BY <1>0, <3>1, <3>2, JumpEffect, NextItemEffect
  <2>3. Staged(t, d)
    BY DEF Synced
  <2>4. Staged(t, d)'
    BY <1>0, <1>w, <2>1, <2>2, <2>3 DEF Staged, Staging, Page, Pc, StagingPC, File
  <2> QED
    BY <1>l, <1>w, <2>1, <2>4 DEF File
\* The steps that stage the document, or fail to.
<1>i. CASE WebFetchError(t) \/ Mark(t) \/ Put(t) \/ PutFails(t) \/ Stage(t) \/ SyncPending(t) \/ SyncPush(t)
  <2>1. /\ task'[t].doc \in {Page(t), NoDoc} /\ Page(t) \in DocIds /\ Intrude(t, Page(t))
        /\ WebFetchError(t) \/ PutFails(t) \/ SyncPush(t) => task'[t].pc \in {"page", "attach"}
    BY <1>i, SyncHolds
  <2>s. \A st \in {"failed", "fetching", "pending"} : st \in Status /\ st # "indexed"
    BY DEF Status, RowStatus, StableStatus, ActiveStatus
  <2>f. /\ status \in [DocIds -> Status] /\ version \in [DocIds -> Nat] /\ s3 \in [Sources -> Nat]
    BY <1>0 DEF TypeOK
  <2>2. \/ /\ WebFetchError(t) \/ Mark(t) \/ PutFails(t) \/ SyncPending(t)
           /\ UNCHANGED <<s3, queue>>
           /\ \E st \in {"failed", "fetching", "pending"} :
                \/ CreateDoc(Page(t), Owner(t), st)
                \/ UpdateStatus(Page(t), st) /\ UNCHANGED version
        \/ Put(t) \/ Stage(t) \/ SyncPush(t)
    <3>1. CASE WebFetchError(t) \/ Mark(t)
      BY <3>1 DEF WebFetchError, Mark, Assign, redis
    <3>2. CASE PutFails(t) \/ SyncPending(t)
      BY <3>2 DEF PutFails, SyncPending, redis
    <3> QED
      BY <1>i, <3>1, <3>2
  <2>3. CASE d # Page(t)
    <3>1. SourceOf[d] # SourceOf[Page(t)] /\ SourceOf[d] \in Sources /\ SourceOf[Page(t)] \in Sources
      BY <2>1, <2>3, OneDocPerSource, StoreAssumption
    <3>2. status'[d] = status[d] /\ version'[d] = version[d] /\ File(d)' = File(d)
      <4>1. CASE Put(t)
        BY <3>1, <4>1, <2>f DEF Put, rows, File
      <4>2. CASE Stage(t)
        BY <2>3, <4>2, <2>f DEF Stage, UpdateStatus, File
      <4>3. CASE SyncPush(t)
        BY <4>3 DEF SyncPush, rows, File
      <4>4. CASE /\ UNCHANGED s3
                 /\ \E st \in {"failed", "fetching", "pending"} :
                      \/ CreateDoc(Page(t), Owner(t), st)
                      \/ UpdateStatus(Page(t), st) /\ UNCHANGED version
        BY <2>3, <4>4, <2>f DEF CreateDoc, UpdateStatus, File
      <4> QED
        BY <2>2, <4>1, <4>2, <4>3, <4>4
    <3>3. HasWork(d)' => HasWork(d)
      <4>1. CASE SyncPush(t)
        BY <2>3, <4>1, SyncPushOthers
      <4>2. CASE queue' = queue
        BY <1>w, <4>2
      <4> QED
        BY <2>2, <4>1, <4>2 DEF Put, Stage, redis
    <3>4. Staged(t, d)'
      BY <1>0, <2>1, <2>3 DEF Staged, Staging, Page
    <3> QED
      BY <1>l, <3>2, <3>3, <3>4
  <2>4. CASE d = Page(t)
    <3>1. ~Shared(t, d) /\ ~HasWork(d)
      BY <2>1, <2>4 DEF Intrude, Override, Overridden, Shared
    <3>2. Staged(t, d)
      BY DEF Synced
    <3>g. ASSUME status'[d] # "indexed", Staged(t, d)',
                 HasWork(d)' => HasRow(d)' /\ version'[d] <= File(d)'
          PROVE  Synced(d)'
      <4>1. Serving(d)'
        BY <3>g DEF Serving
      <4> QED
        BY <1>0, <1>1, <3>1, <3>g, <4>1, TaskOwns
    <3>3. CASE /\ WebFetchError(t) \/ Mark(t) \/ PutFails(t) \/ SyncPending(t)
               /\ UNCHANGED <<s3, queue>>
               /\ \E st \in {"failed", "fetching", "pending"} :
                    \/ CreateDoc(Page(t), Owner(t), st)
                    \/ UpdateStatus(Page(t), st) /\ UNCHANGED version
      <4>1. status'[d] # "indexed" /\ ~HasWork(d)'
        BY <1>w, <2>4, <2>f, <2>s, <3>1, <3>3 DEF CreateDoc, UpdateStatus, HasRow
      <4>2. Staged(t, d)'
        <5>1. CASE WebFetchError(t) \/ PutFails(t)
          BY <1>p, <2>1, <5>1 DEF StagingPC
        <5>2. CASE Mark(t)
          <6>1. task'[t].pc = "put"
            BY <1>0, <5>2 DEF Mark, ConnTypeOK, Slots, Task
          <6> QED
            BY <4>1, <6>1 DEF Staged, Pc
        <5>3. CASE SyncPending(t)
          <6>1. Pc(t) = "setPending" /\ Jump(t, "push") /\ "push" \in TaskPC /\ UNCHANGED <<version, s3>>
            BY <5>3 DEF SyncPending, TaskPC, SyncPC
          <6>2. task'[t].pc = "push"
            BY <1>0, <6>1, JumpEffect
          <6>3. version[d] <= File(d)
            BY <2>4, <3>2, <6>1 DEF Staged, Staging, StagingPC
          <6> QED
            BY <4>1, <6>1, <6>2, <6>3 DEF Staged, Pc, File
        <5> QED
          BY <3>3, <5>1, <5>2, <5>3
      <4> QED
        BY <3>g, <4>1, <4>2
    <3>4. CASE Put(t)
      <4>1. /\ Pc(t) = "put" /\ UNCHANGED <<status, queue>>
            /\ task' = [task EXCEPT ![t].pc = "stage", ![t].file = 0]
        BY <3>4 DEF Put, rows, redis
      <4>2. task'[t].pc = "stage" /\ task'[t].ver = task[t].ver
        BY <1>0, <4>1 DEF ConnTypeOK, Slots, Task
      <4>3. File(d)' = IF task[t].file = 0 THEN site[SourceOf[d]] ELSE task[t].file
        BY <2>4, <2>f, <3>4, StoreAssumption DEF Put, File
      <4>4. task'[t].ver <= File(d)'
        BY <2>4, <4>1, <4>2, <4>3 DEF Fetched
      <4>5. status'[d] # "indexed" /\ ~HasWork(d)'
        BY <1>w, <2>4, <3>1, <3>2, <4>1 DEF Staged, Staging, StagingPC
      <4>6. Staged(t, d)'
        BY <4>2, <4>4, <4>5 DEF Staged, Pc
      <4> QED
        BY <3>g, <4>5, <4>6
    <3>5. CASE Stage(t)
      <4>1. /\ Pc(t) = "stage" /\ UNCHANGED <<s3, queue>> /\ UpdateStatus(d, "pending")
            /\ version' = IF HasRow(d) THEN [version EXCEPT ![d] = task[t].ver] ELSE version
            /\ task' = [task EXCEPT ![t].pc = "enqueue", ![t].ver = 0]
        BY <2>4, <3>5 DEF Stage, redis
      <4>2. task'[t].pc = "enqueue"
        BY <1>0, <4>1 DEF ConnTypeOK, Slots, Task
      <4>3. HasRow(d)
        BY <2>4, <4>1 DEF Fetched, StagingPC
      <4>4. version'[d] <= File(d)'
        BY <2>f, <2>4, <3>2, <4>1, <4>3 DEF Staged, Staging, StagingPC, File
      <4>5. status'[d] # "indexed" /\ ~HasWork(d)'
        BY <1>w, <2>f, <2>s, <3>1, <4>1, <4>3 DEF UpdateStatus
      <4>6. Staged(t, d)'
        BY <4>2, <4>4, <4>5 DEF Staged, Pc
      <4> QED
        BY <3>g, <4>5, <4>6
    <3>6. CASE SyncPush(t)
      <4>1. Pc(t) = "push" /\ UNCHANGED <<status, version, s3>>
        BY <3>6 DEF SyncPush, rows
      <4>2. HasRow(d) /\ status[d] # "indexed" /\ version[d] <= File(d)
        BY <2>4, <3>2, <4>1 DEF Fetched, Staged, Staging, StagingPC
      <4>3. Staged(t, d)'
        BY <1>p, <2>1, <3>6 DEF StagingPC
      <4> QED
        BY <3>g, <4>1, <4>2, <4>3 DEF HasRow, File
    <3> QED
      BY <2>2, <3>3, <3>4, <3>5, <3>6
  <2> QED
    BY <2>3, <2>4
<1> QED
  BY <1>2, <1>3, <1>4, <1>i DEF SyncStep

\* A task that aborts active documents fails what nobody else has in hand, or marks it
\* overridden.
LEMMA AbortSynced ==
  ASSUME ConnShape, NEW t \in Slots, AbortStep(t), NEW d \in DocIds, Synced(d), ~Overridden(d)'
  PROVE  Synced(d)'
<1>0. TypeOK /\ ConnTypeOK /\ TaskShape(t)
  BY DEF ConnShape, TasksShape
<1>1. Writes(t, task'[t]) /\ task'[t].pc \in {"free", "docs", "collection"} \cup AbortPC
  BY AbortTask
<1>2. UNCHANGED <<s3, loop, job, crashes, version>>
  BY DEF AbortStep, AbortActive, AbortDequeue, AbortPurge, AbortMark, stores, rows, others, quiet, counters
<1>3. Staged(t, d)' /\ ~Retiring(t, d)
  <2>1. task'[t].pc \notin StagingPC
    BY <1>1 DEF StagingPC, AbortPC
  <2>2. Pc(t) # "retire"
    BY DEF AbortStep, AbortActive, AbortDequeue, AbortPurge, AbortMark
  <2> QED
    BY <2>1, <2>2 DEF Staged, Staging, Retiring, Pc
<1>4. HasWork(d)' => HasWork(d)
  BY AbortUnborn
<1>l. ASSUME status'[d] = status[d], chunks'[d] = chunks[d] PROVE Synced(d)'
  BY <1>1, <1>2, <1>3, <1>4, <1>l, TaskLeaves DEF File
<1>o. ASSUME ~Shared(t, d), status'[d] # "indexed" PROVE Synced(d)'
  <2>1. ~HasWork(d)' /\ Serving(d)'
    BY <1>4, <1>o DEF Shared, Serving
  <2> QED
    BY <1>1, <1>2, <1>3, <1>o, <2>1, TaskOwns
<1>5. CASE AbortActive(t) \/ AbortDequeue(t)
  <2>1. UNCHANGED <<status, chunks>>
    BY <1>5 DEF AbortActive, AbortDequeue, stores, rows
  <2> QED
    BY <1>l, <2>1
<1>6. CASE AbortPurge(t)
  <2>1. PICK e \in DocIds : PurgeChunks(e) /\ Override(e, Shared(t, e) \/ ~IsActive(e))
    BY <1>0, <1>6, TaskTyped DEF AbortPurge
  <2>2. status' = status
    BY <1>6 DEF AbortPurge, rows
  <2>3. CASE d # e
    <3>1. chunks'[d] = chunks[d]
      BY <1>0, <2>1, <2>3 DEF PurgeChunks, TypeOK
    <3> QED
      BY <1>l, <2>2, <3>1
  <2>4. CASE d = e
    <3>1. ~Shared(t, d) /\ IsActive(d)
      BY <2>1, <2>4 DEF Override, Overridden
    <3>2. status'[d] # "indexed"
      BY <2>2, <3>1 DEF IsActive, StableStatus
    <3> QED
      BY <1>o, <3>1, <3>2
  <2> QED
    BY <2>3, <2>4
<1>7. CASE AbortMark(t)
  <2>1. UpdateStatus(Page(t), "failed") /\ Disturb(t, Page(t)) /\ chunks' = chunks
    BY <1>7 DEF AbortMark
  <2>2. "failed" \in Status
    BY DEF Status, RowStatus, StableStatus
  <2>3. /\ d # Page(t) => status'[d] = status[d]
        /\ d = Page(t) => status'[d] \in {"failed", "none"}
    BY <1>0, <2>1, <2>2, OneStatus
  <2>4. CASE d # Page(t)
    BY <1>l, <2>1, <2>3, <2>4
  <2>5. CASE d = Page(t)
    <3>1. ~Shared(t, d)
      BY <2>1, <2>5 DEF Disturb, Override, Overridden
    <3> QED
      BY <1>o, <2>3, <2>5, <3>1
  <2> QED
    BY <2>4, <2>5
<1> QED
  BY <1>5, <1>6, <1>7 DEF AbortStep

\* A deletion takes what nobody else has in hand, or marks it overridden; between the
\* chunks and the row the thread knows the document.
LEMMA CascadeSynced ==
  ASSUME ConnShape, NEW t \in Threads, CascadeStep(t), NEW d \in DocIds, Synced(d), ~Overridden(d)'
  PROVE  Synced(d)'
<1>0. TypeOK /\ ConnTypeOK /\ TaskShape(t) /\ t \in Slots /\ NoDoc \notin DocIds /\ task \in [Slots -> Task]
  BY StoreAssumption DEF ConnShape, TasksShape, Slots, ConnTypeOK
<1>a. CASE AbortStep(t)
  BY <1>0, <1>a, AbortSynced
<1>b. CASE CascadeDocs(t) \/ CascadeChunks(t) \/ CascadeRetire(t) \/ CascadeForget(t)
  <2>1. Writes(t, task'[t]) /\ task'[t].pc \in ErrandPC
    BY <1>0, ErrandStepMoves DEF ErrandMoves
  <2>2. UNCHANGED <<s3, loop, job, crashes, version, queue, delayed>>
    BY <1>b DEF CascadeDocs, CascadeChunks, CascadeRetire, CascadeForget, stores, rows, redis, others, quiet,
       counters
  <2>3. Staged(t, d)'
    BY <2>1 DEF Staged, Staging, Pc, StagingPC, ErrandPC, CascadePC, ApiPC, AbortPC
  <2>4. HasWork(d)' <=> HasWork(d)
    BY <2>2, WorkSame
  <2>l. ASSUME status'[d] = status[d], chunks'[d] = chunks[d], ~Retiring(t, d) PROVE Synced(d)'
    BY <1>0, <2>1, <2>2, <2>3, <2>4, <2>l, TaskLeaves DEF File
  <2>o. ASSUME ~Shared(t, d), Serving(d)' PROVE Synced(d)'
    <3>1. ~HasWork(d)'
      BY <2>4, <2>o DEF Shared
    <3> QED
      BY <1>0, <2>1, <2>2, <2>3, <2>o, <3>1, TaskOwns
  <2>5. CASE CascadeDocs(t) \/ CascadeForget(t)
    <3>1. UNCHANGED <<status, chunks>> /\ Pc(t) # "retire"
      BY <2>5 DEF CascadeDocs, CascadeForget, stores, rows
    <3> QED
      BY <2>l, <3>1 DEF Retiring
  <2>6. CASE CascadeChunks(t)
    <3>1. status' = status /\ ~Retiring(t, d)
      BY <2>6 DEF CascadeChunks, rows, Retiring
    <3>2. CASE chunks' = chunks
      BY <2>l, <3>1, <3>2
    <3>3. CASE chunks' # chunks
      <4>1. PICK e \in task[t].todo :
              /\ chunks' = [chunks EXCEPT ![e] = {}]
              /\ Disturb(t, e)
              /\ task' = [task EXCEPT ![t].pc = "retire", ![t].doc = e, ![t].todo = @ \ {e}]
        BY <2>6, <3>3 DEF CascadeChunks
      <4>2. CASE d # e
        <5>1. chunks'[d] = chunks[d]
          BY <1>0, <4>1, <4>2 DEF TypeOK
        <5> QED
          BY <2>l, <3>1, <5>1
      <4>3. CASE d = e
        <5>1. ~Shared(t, d)
          BY <4>1, <4>3 DEF Disturb, Override, Overridden
        <5>2. chunks'[d] = {}
          BY <1>0, <4>1, <4>3 DEF TypeOK
        <5>3. task'[t].pc = "retire" /\ task'[t].doc = e
          BY <1>0, <4>1 DEF Task
        <5>4. Retiring(t, d)'
          BY <4>3, <5>3 DEF Retiring, Page, Pc
        <5>5. Serving(d)'
          BY <2>2, <3>1, <5>2, <5>4 DEF Synced, Serving, File
        <5> QED
          BY <2>o, <5>1, <5>5
      <4> QED
        BY <4>2, <4>3
    <3> QED
      BY <3>2, <3>3
  <2>7. CASE CascadeRetire(t)
    <3>1. UpdateStatus(Page(t), "deleted") /\ Disturb(t, Page(t)) /\ chunks' = chunks
      BY <2>7 DEF CascadeRetire
    <3>2. "deleted" \in Status
      BY DEF Status, RowStatus, StableStatus
    <3>3. /\ d # Page(t) => status'[d] = status[d]
          /\ d = Page(t) => status'[d] \in {"deleted", "none"}
      BY <1>0, <3>1, <3>2, OneStatus
    <3>4. CASE d # Page(t)
      BY <2>l, <3>1, <3>3, <3>4 DEF Retiring
    <3>5. CASE d = Page(t)
      <4>1. ~Shared(t, d)
        BY <3>1, <3>5 DEF Disturb, Override, Overridden
      <4>2. Serving(d)'
        BY <3>3, <3>5 DEF Serving
      <4> QED
        BY <2>o, <4>1, <4>2
    <3> QED
      BY <3>4, <3>5
  <2> QED
    BY <1>b, <2>5, <2>6, <2>7
<1> QED
  BY <1>a, <1>b DEF CascadeStep

\* What has to be shown of a step that leaves the tasks and the document alone.
LEMMA NothingSynced ==
  ASSUME NEW d \in DocIds, Synced(d), UNCHANGED <<task, loop, job, crashes>>,
         status'[d] = status[d], version'[d] = version[d], chunks'[d] = chunks[d], File(d)' = File(d),
         HasWork(d)' => HasWork(d)
  PROVE  Synced(d)'
<1>1. JobsOf(d)' = JobsOf(d)
  BY DEF JobsOf
<1>2. InWork(d)'
  BY <1>1 DEF Synced, InWork, HasRow, HasJob, JobServes, File
<1>3. Serving(d)'
  BY DEF Synced, Serving, Retiring, Page, Pc
<1>4. ASSUME NEW u \in Threads PROVE Staged(u, d)'
  <2>1. Staged(u, d)
    BY DEF Synced
  <2> QED
    BY <2>1 DEF Staged, Staging, Page, Pc
<1> QED
  BY <1>2, <1>3, <1>4 DEF Synced

\* The handlers of the API leave the documents alone, until the knowledge base goes.
LEMMA AdminSynced ==
  ASSUME ConnShape, Admin \/ Edit \/ UNCHANGED allVars, kb' = "active", NEW d \in DocIds, Synced(d)
  PROVE  Synced(d)'
<1>1. CASE Admin
  <2>1. UNCHANGED <<status, version, s3, chunks, queue, delayed, loop, job, crashes>>
    BY <1>1, AdminStepMoves DEF AdminMoves, rows, redis, quiet, counters
  <2>2. HasWork(d)' <=> HasWork(d)
    BY <2>1, WorkSame
  <2>3. CASE task' = task
    BY <2>1, <2>2, <2>3, NothingSynced DEF File
  <2>4. ASSUME NEW t \in Slots, Pc(t) = "free", Writes(t, task'[t]), task'[t].pc \in {"list", "cascade", "flag"}
        PROVE  Synced(d)'
    <3>1. Staged(t, d)' /\ ~Retiring(t, d)
      BY <2>4 DEF Staged, Staging, Retiring, StagingPC, Pc
    <3> QED
      BY <2>1, <2>2, <2>4, <3>1, TaskLeaves DEF File
  <2> QED
    BY <1>1, <2>3, <2>4, AdminTask
<1>2. CASE Edit \/ UNCHANGED allVars
  <2>1. UNCHANGED <<status, version, s3, chunks, queue, delayed, loop, job, crashes, task>>
    BY <1>2 DEF Edit, allVars, connVars, vars, rows, redis, counters
  <2>2. HasWork(d)' <=> HasWork(d)
    BY <2>1, WorkSame
  <2> QED
    BY <2>1, <2>2, NothingSynced DEF File
<1> QED
  BY <1>1, <1>2

\* What occupies the event loop: an abort of a sync, and the end of the knowledge base.
LEMMA AdminStepSynced ==
  ASSUME ConnShape, KbGoing, AdminStep, kb' = "active", NEW d \in DocIds, Synced(d), ~Overridden(d)'
  PROVE  Synced(d)'
<1>0. ConnTypeOK /\ Api \in Slots /\ Api \notin Threads
  BY ConnectorAssumption DEF ConnShape, Slots
<1>1. CASE AbortStep(Api)
  BY <1>0, <1>1, AbortSynced
<1>2. CASE RequestAbort
  <2>1. UNCHANGED <<status, version, s3, chunks, queue, delayed, loop, job, crashes>>
    BY <1>2 DEF RequestAbort, stores, rows, redis, others, quiet, counters
  <2>2. HasWork(d)' <=> HasWork(d)
    BY <2>1, WorkSame
  <2>3. Writes(Api, task'[Api])
    BY <1>0, ErrandStepMoves DEF ErrandMoves
  <2> QED
    BY <1>0, <2>1, <2>2, <2>3, TaskLeaves DEF File
<1>3. CASE DropCollection \/ DeletePrefix
  BY <1>3 DEF DropCollection, DeletePrefix, stores, tables, KbGoing, Tearing
<1>4. CASE DeleteMeta
  BY <1>4 DEF DeleteMeta
<1> QED
  BY <1>1, <1>2, <1>3, <1>4 DEF AdminStep

\* A crash stops every thread and every pipeline.
LEMMA RestartSynced ==
  ASSUME ConnShape, Restart, NEW d \in DocIds, Synced(d)
  PROVE  Synced(d)'
<1>0. TypeOK
  BY DEF ConnShape
<1>1. /\ UNCHANGED <<status, version, s3, chunks, queue, delayed>> /\ crashes' = crashes + 1
      /\ loop' = IdleLoop /\ job' = [j \in Jobs |-> FreeJob]
      /\ task' = [t \in Slots |-> FreeTask]
  BY DEF Restart, Crash, rows, redis, Slots
<1>2. JobsOf(d)' = {}
  BY <1>1 DEF JobsOf, FreeJob
<1>3. HasWork(d)' => HasWork(d)
  BY <1>1, <1>2 DEF HasWork, Queued, Delayed, Draining, InHand, HasJob, IdleLoop, InHandOp
<1>4. InWork(d)'
  BY <1>1, <1>2, <1>3 DEF Synced, InWork, HasRow, HasJob, IdleLoop, File
<1>5. crashes' > 0
  BY <1>0, <1>1 DEF TypeOK
<1>6. Serving(d)'
  BY <1>1, <1>5 DEF Synced, Serving, File
<1>7. \A t \in Threads : Staged(t, d)'
  BY <1>1 DEF Staged, Staging, Pc, StagingPC, FreeTask, Slots
<1> QED
  BY <1>4, <1>6, <1>7 DEF Synced

\* The worker takes an event into its hands only when the document is not running.
LEMMA WorkerTakes ==
  ASSUME TypeOK, Shape, Poll \/ SetPending \/ Push \/ \E j \in Jobs : StartTask(j),
         loop'.op \in {"setPending", "claim"}
  PROVE  (loop'.id = loop.id /\ loop'.op = loop.op) \/ status[loop'.id] # "running"
<1>r. \A kind : TakeReady(kind) => loop'.op = "drain"
  BY DEF TakeReady, IdleLoop
<1>i. loop' = IdleLoop => loop'.op = "idle"
  BY DEF IdleLoop
<1>1. CASE PollBegin \/ DrainDone
  <2>1. loop'.op \in {"drain", "take"}
    BY <1>1, <1>r DEF PollBegin, DrainDone, IdleLoop
  <2> QED
    BY <2>1
<1>n. CASE ListDone \/ TakeError
  <2>1. NextList /\ loop.op = "take"
    BY <1>n DEF ListDone, TakeError
  <2>2. CASE loop' = [loop EXCEPT !.kind = "delete", !.n = 0, !.more = (loop.n = MaxPerPoll)]
    <3>1. loop'.op = loop.op
      BY <2>2, LoopTyped
    <3> QED
      BY <2>1, <3>1
  <2> QED
    BY <1>i, <1>r, <2>1, <2>2 DEF NextList
<1>2. CASE DrainNext
  <2>1. PICK it \in loop.todo :
          loop' = [loop EXCEPT !.id = it.id, !.force = it.force, !.todo = @ \ {it},
                     !.op = IF status[it.id] \in {"running", "deleting"}
                            THEN "push" ELSE "setPending"]
    BY <1>2 DEF DrainNext
  <2>2. loop'.id = it.id /\ loop'.op = IF status[it.id] \in {"running", "deleting"} THEN "push" ELSE "setPending"
    BY <2>1, LoopTyped
  <2> QED
    BY <2>2
<1>3. CASE Take
  <2> DEFINE e == Head(queue[loop.kind])
             busy == status[e.id] = "running" \/ (loop.kind = "upload" /\ status[e.id] = "deleting")
  <2>1. loop' = IF busy THEN loop ELSE [loop EXCEPT !.op = "claim", !.id = e.id, !.force = e.force]
    BY <1>3 DEF Take
  <2>2. ~busy => loop'.id = e.id
    <3> HIDE DEF e, busy
    <3> QED
      BY <2>1, LoopTyped
  <2> QED
    BY <2>1, <2>2
<1>4. CASE Claim \/ (\E j \in Jobs : StartTask(j))
  BY <1>4, LoopTyped DEF Claim, StartTask
<1>5. CASE SetPending
  <2>1. loop'.op = "push"
    BY <1>5, LoopTyped DEF SetPending, Goto
  <2> QED
    BY <2>1
<1>6. CASE Push
  <2>1. loop.back \in {"idle", "reindex", "drain"} /\ Return
    BY <1>6 DEF Push, Shape, LoopShape
  <2>2. loop' = IdleLoop \/ loop'.op = loop.back
    BY <2>1, LoopTyped DEF Return
  <2> QED
    BY <2>1, <2>2 DEF IdleLoop
<1> QED
  BY <1>1, <1>n, <1>2, <1>3, <1>4, <1>5, <1>6 DEF Poll

\* The worker passes a document on to one pipeline.
LEMMA WorkerSynced ==
  ASSUME ConnShape, OnlyUploads, Poll \/ SetPending \/ Push \/ (\E j \in Jobs : StartTask(j)), task' = task,
         NEW d \in DocIds, Synced(d)
  PROVE  Synced(d)'
<1>0. TypeOK /\ Shape /\ job \in [Jobs -> Job]
  BY DEF ConnShape, TypeOK
<1>1. /\ UNCHANGED <<chunks, s3>>
      /\ status'[d] = status[d] \/ (HasRow(d) /\ HasWork(d) /\ status'[d] \in {"pending", "running"})
  BY <1>0, WorkerRows
<1>2. UNCHANGED <<version, crashes>>
  BY DEF Poll, PollBegin, DrainNext, DrainDone, Take, Claim, ListDone, TakeError, SetPending, Push, StartTask,
     rows, counters
<1>3. HasWork(d)' => HasWork(d)
  BY <1>0, WorkerUnborn
<1>4. InWork(d) /\ Serving(d)
  BY DEF Synced
<1>5. HasWork(d)' => HasRow(d)' /\ version'[d] <= File(d)'
  BY <1>1, <1>2, <1>3, <1>4 DEF InWork, HasRow, File
<1>6. Serving(d)'
  BY <1>1, <1>2, <1>4 DEF Serving, Retiring, Page, Pc, File
<1>7. ASSUME NEW u \in Threads PROVE Staged(u, d)'
  <2>1. Staged(u, d)
    BY DEF Synced
  <2> QED
    BY <1>1, <1>2, <1>3, <2>1 DEF Staged, Staging, Page, Pc, File
<1>s. InWork(d)' => Synced(d)'
  BY <1>6, <1>7 DEF Synced
\* Where no pipeline of the document comes or goes.
<1>l. ASSUME JobsOf(d)' = JobsOf(d), \A j \in JobsOf(d) : JobServes(j, d) => JobServes(j, d)',
             status'[d] = status[d] \/ ~HasJob(d)
      PROVE  Synced(d)'
  <2>1. HasJob(d)' <=> HasJob(d)
    BY <1>l DEF HasJob
  <2>2. loop'.id = d /\ loop'.op \in {"setPending", "claim"} => ~HasJob(d)
    BY <1>0, <1>4, WorkerTakes DEF InWork
  <2> QED
    BY <1>4, <1>5, <1>l, <1>s, <2>1, <2>2 DEF InWork
<1>k. job' = job => JobsOf(d)' = JobsOf(d) /\ \A j \in JobsOf(d) : JobServes(j, d) => JobServes(j, d)'
  BY <1>1 DEF JobsOf, JobServes
<1>8. CASE PollBegin \/ DrainNext \/ DrainDone \/ Take \/ ListDone \/ TakeError \/ Push
  <2>1. job' = job /\ status' = status
    BY <1>8 DEF PollBegin, DrainNext, DrainDone, Take, ListDone, TakeError, Push, rows
  <2> QED
    BY <1>k, <1>l, <2>1
<1>9. CASE SetPending
  <2>1. job' = job /\ loop.op = "setPending" /\ UpdateStatus(loop.id, "pending")
    BY <1>9 DEF SetPending
  <2>2. "pending" \in Status
    BY DEF Status, RowStatus, ActiveStatus
  <2>3. status'[d] = status[d] \/ ~HasJob(d)
    BY <1>0, <1>4, <2>1, <2>2, UpdateTyped DEF InWork
  <2> QED
    BY <1>k, <1>l, <2>1, <2>3
<1>10. ASSUME NEW j \in Jobs, StartTask(j) PROVE Synced(d)'
  <2>1. job[j].pc = "wait" /\ job' = [job EXCEPT ![j].pc = "load"] /\ status' = status
    BY <1>10 DEF StartTask, rows
  <2>2. /\ \A i \in Jobs \ {j} : job'[i] = job[i]
        /\ job'[j].pc = "load" /\ job'[j].id = job[j].id
    BY <1>0, <2>1 DEF Job
  <2>3. JobsOf(d)' = JobsOf(d)
    BY <2>1, <2>2 DEF JobsOf
  <2>4. \A i \in JobsOf(d) : JobServes(i, d) => JobServes(i, d)'
    BY <1>1, <2>2 DEF JobServes, ReadPC, JobsOf
  <2> QED
    BY <1>l, <2>1, <2>3, <2>4
<1>11. CASE Claim
  <2>1. PICK j \in Jobs : job[j].pc = "free" /\ job' = [job EXCEPT ![j] = NewJob(loop.kind, loop)]
    BY <1>11 DEF Claim
  <2>2. /\ loop.op = "claim" /\ loop'.op = "take"
        /\ IF loop.kind = "upload" THEN UpdateStatus(loop.id, "running") ELSE UNCHANGED status
    BY <1>11, LoopTyped, <1>0 DEF Claim
  <2>3. UpdateStatus(loop.id, "running") /\ "running" \in Status
    BY <1>0, <2>2, LoopTyped DEF OnlyUploads, Kind, Status, RowStatus, ActiveStatus
  <2>4. /\ \A i \in Jobs \ {j} : job'[i] = job[i]
        /\ job'[j].pc = "wait" /\ job'[j].id = loop.id
    BY <1>0, <2>1 DEF NewJob, FreeJob
  <2>5. CASE loop.id # d
    <3>1. JobsOf(d)' = JobsOf(d) /\ status'[d] = status[d]
      BY <1>0, <2>1, <2>3, <2>4, <2>5, UpdateTyped DEF JobsOf
    <3>2. \A i \in JobsOf(d) : JobServes(i, d) => JobServes(i, d)'
      BY <1>1, <2>1, <2>4 DEF JobServes, JobsOf
    <3> QED
      BY <1>l, <3>1, <3>2
  <2>6. CASE loop.id = d
    <3>1. ~HasJob(d) /\ HasRow(d)
      BY <1>4, <2>2, <2>6 DEF InWork, HasWork, InHand, InHandOp
    <3>2. JobsOf(d)' = {j}
      BY <2>4, <2>6, <3>1 DEF JobsOf, HasJob
    <3>3. status'[d] = "running"
      BY <1>0, <2>3, <2>6, <3>1, UpdateTyped
    <3>4. JobServes(j, d)'
      BY <2>4 DEF JobServes, ReadPC
    <3> QED
      BY <1>5, <1>s, <2>2, <3>2, <3>3, <3>4 DEF InWork
  <2> QED
    BY <2>5, <2>6
<1> QED
  BY <1>8, <1>9, <1>10, <1>11 DEF Poll

\* A pipeline that does not end leaves its document running.
LEMMA PipelineRunning ==
  ASSUME TypeOK, Shape, NEW j \in Jobs, JobStep(j), job[j].kind = "upload", job[j].pc \notin VerdictPC,
         status[job[j].id] = "running", job'[j].pc # "free"
  PROVE  status'[job[j].id] = "running"
<1>0. "running" \in Status
  BY DEF Status, RowStatus, ActiveStatus
<1>e. ~End(j)
  BY EndEffect
<1>1. CASE IngestBegin(j)
  BY <1>0, <1>1, UpdateTyped DEF IngestBegin, Doc, TypeOK, UpdateStatus
<1>2. CASE \/ IngestLoad(j) \/ Parse(j) \/ Detect(j) \/ MoveChunks(j) \/ PurgeOther(j)
           \/ Embed(j) \/ Clear(j) \/ Insert(j) \/ Fail(j) \/ DeleteLoad(j) \/ DeleteChunks(j) \/ DeleteFile(j)
  BY <1>2 DEF IngestLoad, Parse, Detect, MoveChunks, PurgeOther, Embed, Clear, Insert, Fail, DeleteLoad,
     DeleteChunks, DeleteFile
<1>3. CASE Identical(j) \/ Resolve(j) \/ RetireOther(j)
  BY <1>3 DEF Identical, Resolve, RetireOther, At, VerdictPC, DupPC
<1>4. CASE SetIndexed(j) \/ SetFailed(j) \/ DeleteRow(j)
  BY <1>4, <1>e DEF SetIndexed, SetFailed, DeleteRow
<1>5. CASE SetDeleting(j)
  BY <1>5 DEF SetDeleting, At, Shape, JobShape, DeletePC
<1> QED
  BY <1>1, <1>2, <1>3, <1>4, <1>5 DEF JobStep, IngestStep, DeleteStep

\* A pipeline that indexes its document does so with what its file holds.
LEMMA PipelineSynced ==
  ASSUME ConnShape, OnlyUploads, NoVerdict, ~DedupOn, NEW j \in Jobs, JobStep(j), task' = task,
         NEW d \in DocIds, Synced(d), ~Overridden(d)'
  PROVE  Synced(d)'
<1>0. TypeOK /\ Shape /\ job[j].pc \notin VerdictPC
  BY DEF ConnShape, NoVerdict
<1>1. JobMoves(j) /\ JobWrites(j) /\ job[j].kind = "upload"
  BY <1>0, PipelineMoves, PipelineWrites DEF JobMoves, OnlyUploads
<1>2. /\ s3' = s3 /\ (HasWork(d)' => HasWork(d))
      /\ \/ status'[d] = status[d]
         \/ HasRow(d) /\ status'[d] \in {"running", "indexed", "failed", "outdated"}
  BY <1>0, PipelineRows
<1>3. UNCHANGED <<version, crashes>>
  BY DEF JobStep, IngestStep, DeleteStep, IngestLoad, IngestBegin, Parse, Detect, Identical,
     Resolve, MoveChunks, PurgeOther, RetireOther, Embed, Clear, Insert, SetIndexed,
     DeleteLoad, SetDeleting, DeleteChunks, DeleteFile, DeleteRow, Fail, SetFailed, apiVars, counters
<1>4. InWork(d) /\ Serving(d) /\ loop' = loop
  BY <1>1 DEF Synced, JobMoves
<1>5. HasWork(d)' => HasRow(d)' /\ version'[d] <= File(d)'
  BY <1>2, <1>3, <1>4 DEF InWork, HasRow, File
<1>6. CASE d # job[j].id
  <2>1. chunks'[d] = chunks[d]
    BY <1>0, <1>6, PipelineTouches
  <2>2. status'[d] = status[d] \/ (status[d] = "indexed" /\ status'[d] = "outdated")
    BY <1>0, <1>1, <1>6, OthersStatus
  <2>3. JobsOf(d)' = JobsOf(d) /\ \A i \in JobsOf(d) : job'[i] = job[i]
    BY <1>1, <1>6 DEF JobMoves, JobsOf
  <2>4. HasJob(d)' <=> HasJob(d)
    BY <2>3 DEF HasJob
  <2>5. \A i \in JobsOf(d) : JobServes(i, d) => JobServes(i, d)'
    BY <1>2, <2>1, <2>3 DEF JobServes
  <2>6. InWork(d)'
    BY <1>4, <1>5, <2>2, <2>3, <2>4, <2>5 DEF InWork
  <2>7. Serving(d)'
    BY <1>2, <1>3, <1>4, <2>1, <2>2 DEF Serving, Retiring, Page, Pc, File
  <2>8. ASSUME NEW u \in Threads PROVE Staged(u, d)'
    <3>1. Staged(u, d)
      BY DEF Synced
    <3> QED
      BY <1>2, <1>3, <2>2, <3>1 DEF Staged, Staging, Page, Pc, File
  <2> QED
    BY <2>6, <2>7, <2>8 DEF Synced
<1>7. CASE d = job[j].id
  <2>1. j \in JobsOf(d) /\ HasJob(d) /\ HasWork(d)
    BY <1>1, <1>7 DEF JobMoves, JobsOf, HasJob, HasWork
  <2>2. status[d] = "running" /\ HasRow(d) /\ version[d] <= File(d) /\ JobServes(j, d)
        /\ \A i \in JobsOf(d) : i = j
    BY <1>4, <2>1 DEF InWork, HasRow
  <2>3. /\ status'[d] = "indexed" => chunks'[d] = {s3'[SourceOf[d]]}
        /\ job'[j].pc = "free" \/ JobServes(j, d)'
    BY <1>0, <1>7, <2>2, OwnStepServes
  <2>4. job'[j].pc = "free" \/ status'[d] = "running"
    BY <1>0, <1>1, <1>7, <2>2, PipelineRunning
  <2>5. \A i \in JobsOf(d)' : i = j /\ job'[j].pc # "free"
    BY <1>1, <2>2 DEF JobMoves, JobsOf
  <2>6. InWork(d)'
    BY <1>4, <1>5, <2>1, <2>3, <2>4, <2>5 DEF InWork, HasJob
  <2>7. Serving(d)'
    BY <1>2, <1>3, <2>2, <2>3 DEF Serving, File
  <2>8. \A u \in Threads : ~Staging(u, d)
    BY <2>1 DEF Synced, Staged
  <2>9. \A u \in Threads : Staged(u, d)'
    BY <2>8 DEF Staged, Staging, Page, Pc
  <2> QED
    BY <2>6, <2>7, <2>9 DEF Synced
<1> QED
  BY <1>6, <1>7

\* Every step keeps the synced documents in step with their files.
LEMMA SyncInvKept ==
  ASSUME ~DedupOn, ConnShape, DelInv, SyncInv, [SysNext]_allVars
  PROVE  SyncInv'
<1>0. /\ TypeOK /\ Shape /\ OnlyUploads /\ KbGoing /\ NoVerdict
      /\ \A t \in Threads : Fetched(t)
      /\ kb = "active" => \A d \in DocIds : ~Overridden(d) => Synced(d)
  BY DEF ConnShape, DelInv, SyncInv
<1>1. NoVerdict'
  <2>1. CASE WorkerStep \/ (\E j \in Jobs : PipelineStep(j)) \/ Restart
    <3>1. Next
      BY <2>1 DEF WorkerStep, PipelineStep, Restart, Next, Handle
    <3> QED
      BY <1>0, <3>1, NoVerdictKept
  <2>2. CASE job' = job
    BY <1>0, <2>2 DEF NoVerdict
  <2>3. ASSUME NEW t \in Threads, SyncStep(t) \/ CascadeStep(t) PROVE job' = job
    BY <2>3, SyncWrites, ErrandWrites DEF SyncTables, ErrandTables, Slots
  <2>4. CASE Admin \/ AdminStep \/ Edit \/ UNCHANGED allVars
    <3>1. job' = job
      BY <2>4, AdminStepMoves, ErrandWrites DEF AdminMoves, ErrandTables, quiet, Slots, Edit, allVars, vars
    <3> QED
      BY <2>2, <3>1
  <2> QED
    BY <2>1, <2>2, <2>3, <2>4 DEF SysNext
<1>2. \A t \in Threads : Fetched(t)'
  BY <1>0, FetchedKept
<1>3. ASSUME kb' = "active", NEW d \in DocIds, ~Overridden(d)' PROVE Synced(d)'
  <2>0. kb = "active"
    BY <1>0, <1>3, RowsKept
  <2>1. CASE Edit \/ Admin \/ UNCHANGED allVars
    <3>1. overridden' = overridden
      BY <2>1, AdminStepMoves DEF AdminMoves, Edit, allVars, vars, history
    <3>2. Synced(d)
      BY <1>0, <1>3, <2>0, <3>1 DEF Overridden
    <3> QED
      BY <1>3, <2>1, <3>2, AdminSynced
  <2>2. CASE Restart
    <3>1. overridden' = overridden
      BY <2>2 DEF Restart, Crash, history
    <3>2. Synced(d)
      BY <1>0, <1>3, <2>0, <3>1 DEF Overridden
    <3> QED
      BY <2>2, <3>2, RestartSynced
  <2>3. CASE WorkerStep
    <3>1. task' = task /\ (Poll \/ SetPending \/ Push \/ \E j \in Jobs : StartTask(j))
      BY <2>3 DEF WorkerStep
    <3>2. overridden' = overridden
      BY <1>0, <1>3, <3>1, WorkerRows
    <3>3. Synced(d)
      BY <1>0, <1>3, <2>0, <3>2 DEF Overridden
    <3> QED
      BY <1>0, <3>1, <3>3, WorkerSynced
  <2>4. ASSUME NEW j \in Jobs, PipelineStep(j) PROVE Synced(d)'
    <3>1. task' = task /\ JobStep(j)
      BY <2>4 DEF PipelineStep
    <3>2. overridden \subseteq overridden'
      BY <1>0, <3>1, PipelineMoves DEF JobMoves
    <3>3. Synced(d)
      BY <1>0, <1>3, <2>0, <3>2 DEF Overridden
    <3> QED
      BY <1>0, <1>3, <3>1, <3>3, PipelineSynced
  <2>5. CASE (\E t \in Threads : SyncStep(t) \/ CascadeStep(t)) \/ AdminStep
    <3>1. overridden \subseteq overridden'
      BY <2>5, TasksOverride
    <3>2. Synced(d)
      BY <1>0, <1>3, <2>0, <3>1 DEF Overridden
    <3> QED
      BY <1>0, <1>3, <2>0, <2>5, <3>2, SyncSynced, CascadeSynced, AdminStepSynced
  <2> QED
    BY <2>1, <2>2, <2>3, <2>4, <2>5 DEF SysNext
<1> QED
  BY <1>1, <1>2, <1>3 DEF SyncInv

\* What search serves of a synced document is what its staged file holds, and the
\* recorded version is no newer, for any number of connectors, sync threads, pipelines
\* and documents, through failed fetches, aborts, deletions and crashes; the documents
\* that a step of the system wrote while another one had them in hand are the exception
\* that the property names.  Without detection, which may move the chunks of one
\* document to another, and with one document per source.
THEOREM SyncedServesOriginHolds ==
  ASSUME ~DedupOn
  PROVE  SysSpec => []SyncedServesOrigin
<1>1. SysInit => SyncInv
  <2> SUFFICES ASSUME SysInit PROVE SyncInv
    OBVIOUS
  <2>1. /\ status = [d \in DocIds |-> "none"] /\ queue = [k \in Kind |-> <<>>]
        /\ delayed = [k \in Kind |-> {}] /\ loop = IdleLoop /\ job = [j \in Jobs |-> FreeJob]
        /\ task = [t \in Slots |-> FreeTask]
    BY DEF SysInit, Init, ConnInit, Slots
  <2>2. NoVerdict
    BY <2>1 DEF NoVerdict, FreeJob, VerdictPC, DupPC
  <2>3. \A t \in Threads : task[t] = FreeTask
    BY <2>1 DEF Slots
  <2>4. ASSUME NEW t \in Threads PROVE Fetched(t)
    <3>1. task[t] = FreeTask
      BY <2>3
    <3>2. Pc(t) = "free"
      BY <3>1 DEF Pc, FreeTask
    <3> QED
      BY <3>1, <3>2 DEF Fetched, SyncPC, StagingPC
  <2>5. ASSUME NEW d \in DocIds PROVE Synced(d)
    <3>1. status[d] = "none" /\ JobsOf(d) = {}
      BY <2>1 DEF JobsOf, FreeJob
    <3>2. ~HasWork(d)
      BY <2>1, <3>1 DEF HasWork, Queued, Delayed, Draining, InHand, HasJob, IdleLoop, InHandOp, Kind, Positions
    <3>3. InWork(d) /\ Serving(d)
      BY <2>1, <3>1, <3>2 DEF InWork, Serving, HasJob, IdleLoop
    <3>4. \A t \in Threads : Staged(t, d)
      BY <2>3 DEF Staged, Staging, Pc, StagingPC, FreeTask
    <3> QED
      BY <3>3, <3>4 DEF Synced
  <2> QED
    BY <2>2, <2>4, <2>5 DEF SyncInv
<1>2. SyncInv => SyncedServesOrigin
  BY DEF SyncInv, Synced, Serving, SyncedServesOrigin, File, Retiring, InTask
<1>3. SysInit => ConnShape /\ DelInv
  BY SysInitShaped, SysInitGone
<1>4. /\ ConnShape /\ DelInv /\ SyncInv /\ [SysNext]_allVars
      => (ConnShape /\ DelInv /\ SyncInv)'
  BY ConnShapeKept, DelKept, SyncInvKept
<1> QED
  BY <1>1, <1>2, <1>3, <1>4, PTL DEF SysSpec
=============================================================================
