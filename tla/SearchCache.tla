------------------------------ MODULE SearchCache ------------------------------
(***************************************************************************)
(* The cache of search responses: infra/search_cache.py (its keys in Redis) *)
(* and query/search_cache.py, as used by the search handler, by the         *)
(* pipelines that finish a document and by the clear endpoint.              *)
(*                                                                         *)
(* Lookup, store and clear run on the event loop and exclude one another;   *)
(* retrieval is awaited between lookup and store, and the invalidations of  *)
(* pipeline threads run at any time.  A Redis call is a step wherever       *)
(* another actor can see the difference.  A response is abstracted to the   *)
(* version of each knowledge base it was computed from.  The bucket sets    *)
(* only shorten the semantic scan, which may miss anyhow, and are left out; *)
(* the cache is enabled and its gate open.                                  *)
(***************************************************************************)
EXTENDS Naturals, Sequences, FiniteSets

CONSTANTS
  Kbs,          \* knowledge bases
  Keys,         \* cache keys: a bucket (kb_ids and options) with a query
  KbsOf,        \* the kb_ids of a key
  NoKey, NoKb,
  Searches,     \* concurrent search requests
  Writers,      \* pipeline threads that change a knowledge base
  Api,          \* the API's own invalidations: the clear endpoint and delete_kb
  MaxEntries,   \* cache.max_entries
  Semantic,     \* cache.match_mode = "semantic"
  RedisFails,   \* may a Redis call fail?
  KbFails,      \* may the retrieval of a knowledge base fail?
  MaxChanges    \* bound: changes of each knowledge base

ASSUME CacheAssumption ==
  /\ IsFiniteSet(Keys)
  /\ KbsOf \in [Keys -> (SUBSET Kbs) \ {{}}]
  /\ NoKey \notin Keys /\ NoKb \notin Kbs
  /\ Api \notin Writers
  /\ MaxEntries \in Nat \ {0}
  /\ {Semantic, RedisFails, KbFails} \subseteq BOOLEAN
  /\ MaxChanges \in Nat

VARIABLES
  content,   \* the version of a knowledge base that retrieval would see
  entry,     \* rag:cache:entry: the response under a key, Missing when none
  index,     \* rag:cache:kb: the keys whose entries cover a knowledge base
  timed,     \* the knowledge bases whose index exists and has a TTL
  order,     \* rag:cache:order: the keys, oldest first
  search,    \* the search requests
  loop,      \* what the event loop is in the middle of
  inval,     \* the invalidations in progress
  done,      \* history: the version up to which a knowledge base was invalidated
  tainted    \* history: keys whose entry's search met an invalidation or an error

redis == <<entry, index, timed, order>>
vars  == <<content, redis, search, loop, inval, done, tainted>>

-----------------------------------------------------------------------------
Versions == [Kbs -> Nat]
Zero     == [kb \in Kbs |-> 0]
Missing  == [live |-> FALSE, seen |-> Zero]
Response == [live : BOOLEAN, seen : Versions]
Live(k)  == entry[k].live
Covers(k, kb) == kb \in KbsOf[k]

Search == [pc : {"idle", "retrieve", "store", "answered"}, key : Keys \cup {NoKey},
           todo : SUBSET Kbs, seen : Versions, since : Versions, clean : BOOLEAN]
NoSearch == [pc |-> "idle", key |-> NoKey, todo |-> {}, seen |-> Zero, since |-> Zero,
             clean |-> TRUE]

Loop == [op : {"idle", "add", "refresh", "order", "evict", "oldest", "clear"},
         key : Keys \cup {NoKey}, kb : Kbs \cup {NoKb}, todo : SUBSET Kbs]
IdleLoop == [op |-> "idle", key |-> NoKey, kb |-> NoKb, todo |-> {}]

Invalidators == Writers \cup {Api}
Inval == [pc : {"idle", "read", "entry", "order"}, kb : Kbs \cup {NoKb},
          todo : SUBSET Keys, key : Keys \cup {NoKey}, ver : Nat]
NoInval == [pc |-> "idle", kb |-> NoKb, todo |-> {}, key |-> NoKey, ver |-> 0]

\* The cache's keys in Redis and the requests' variables hold what the code puts
\* there.
TypeOK ==
  /\ content \in Versions
  /\ entry \in [Keys -> Response]
  /\ index \in [Kbs -> SUBSET Keys]
  /\ timed \subseteq Kbs
  /\ order \in Seq(Keys)
  /\ search \in [Searches -> Search]
  /\ loop \in Loop
  /\ inval \in [Invalidators -> Inval]
  /\ done \in Versions
  /\ tainted \subseteq Keys

Init ==
  /\ content = Zero
  /\ entry = [k \in Keys |-> Missing]
  /\ index = [kb \in Kbs |-> {}]
  /\ timed = {}
  /\ order = <<>>
  /\ search = [s \in Searches |-> NoSearch]
  /\ loop = IdleLoop
  /\ inval = [i \in Invalidators |-> NoInval]
  /\ done = Zero
  /\ tainted = {}

-----------------------------------------------------------------------------
(* A search request: lookup, retrieval, store. *)

Idle == loop.op = "idle"
Invalidating(kb) == \E i \in Invalidators : inval[i].kb = kb /\ inval[i].pc \in {"entry", "order"}

\* An exact hit, or in semantic mode an entry of another query of the bucket,
\* which has the same kb_ids.
Hit(s, k) ==
  /\ Idle /\ search[s].pc = "idle"
  /\ \E h \in Keys :
       /\ Live(h)
       /\ h = k \/ (Semantic /\ ~Live(k) /\ KbsOf[h] = KbsOf[k])
       /\ search' = [search EXCEPT ![s] =
            [NoSearch EXCEPT !.pc = "answered", !.key = k, !.seen = entry[h].seen,
                             !.since = done, !.clean = h \notin tainted]]
  /\ UNCHANGED <<content, redis, loop, inval, done, tainted>>

\* A miss, also when Redis fails (fail-open).
Miss(s, k) ==
  /\ Idle /\ search[s].pc = "idle"
  /\ ~Live(k) \/ RedisFails
  /\ search' = [search EXCEPT ![s] =
       [NoSearch EXCEPT !.pc = "retrieve", !.key = k, !.todo = KbsOf[k], !.since = done,
                        !.clean = \A kb \in KbsOf[k] : ~Invalidating(kb)]]
  /\ UNCHANGED <<content, redis, loop, inval, done, tainted>>

\* The knowledge bases are read in executor threads; one that fails contributes
\* no results and the response is used all the same.
Retrieve(s, kb) ==
  /\ search[s].pc = "retrieve" /\ kb \in search[s].todo
  /\ \/ search' = [search EXCEPT ![s].todo = @ \ {kb}, ![s].seen[kb] = content[kb]]
     \/ KbFails /\ search' = [search EXCEPT ![s].todo = @ \ {kb}, ![s].clean = FALSE]
  /\ UNCHANGED <<content, redis, loop, inval, done, tainted>>

\* store: SET of the entry.  A Redis error here or later is swallowed.
StoreEntry(s) ==
  /\ Idle /\ search[s].pc = "retrieve" /\ search[s].todo = {}
  /\ LET k == search[s].key IN
     \/ /\ entry' = [entry EXCEPT ![k] = [live |-> TRUE, seen |-> search[s].seen]]
        /\ tainted' = IF search[s].clean THEN tainted \ {k} ELSE tainted \cup {k}
        /\ loop' = [IdleLoop EXCEPT !.op = "add", !.key = k, !.todo = KbsOf[k]]
        /\ search' = [search EXCEPT ![s].pc = "store"]
     \/ /\ RedisFails
        /\ search' = [search EXCEPT ![s].pc = "answered"]
        /\ UNCHANGED <<entry, tainted, loop>>
  /\ UNCHANGED <<content, index, timed, order, inval, done>>

\* The request whose response is being stored.
Storing(s) == search[s].pc = "store"
Answered == [s \in Searches |-> IF Storing(s) THEN [search[s] EXCEPT !.pc = "answered"]
                                ELSE search[s]]

\* Mutant: only one of the kb_ids is indexed.
IndexFirst ==
  /\ loop.op = "add"
  /\ \E kb \in loop.todo :
       /\ index' = [index EXCEPT ![kb] = @ \cup {loop.key}]
       /\ loop' = [loop EXCEPT !.op = "refresh", !.kb = kb, !.todo = {kb}]
  /\ UNCHANGED <<content, entry, timed, order, search, inval, done, tainted>>

\* SADD to the index of each knowledge base, then EXPIRE of that index, which
\* does nothing if the index is gone again.
AddToIndex ==
  /\ loop.op = "add"
  /\ \E kb \in loop.todo :
       /\ index' = [index EXCEPT ![kb] = @ \cup {loop.key}]
       /\ loop' = [loop EXCEPT !.op = "refresh", !.kb = kb]
  /\ UNCHANGED <<content, entry, timed, order, search, inval, done, tainted>>

RefreshIndex ==
  /\ loop.op = "refresh"
  /\ LET rest == loop.todo \ {loop.kb} IN
     loop' = [loop EXCEPT !.todo = rest, !.kb = NoKb,
                          !.op = IF rest = {} THEN "order" ELSE "add"]
  /\ timed' = timed \cup {kb \in Kbs : kb = loop.kb /\ index[kb] # {}}
  /\ UNCHANGED <<content, entry, index, order, search, inval, done, tainted>>

\* ZREM: the members of a sorted set are distinct, so at most one place closes up.
Member(q, k) == \E i \in DOMAIN q : q[i] = k
Minus(q, k) ==
  IF Member(q, k)
  THEN LET p == CHOOSE i \in DOMAIN q : q[i] = k
       IN  [n \in 1 .. Len(q) - 1 |-> q[IF n < p THEN n ELSE n + 1]]
  ELSE q

AddToOrder ==
  /\ loop.op = "order"
  /\ order' = Append(Minus(order, loop.key), loop.key)
  /\ loop' = [loop EXCEPT !.op = "evict"]
  /\ UNCHANGED <<content, entry, index, timed, search, inval, done, tainted>>

\* Mutant: one entry too many is kept.
FullLate == Len(order) > MaxEntries + 1

Full == Len(order) > MaxEntries

\* evict_if_needed: while the order is too long (ZCARD) ...
Overfull ==
  /\ loop.op = "evict" /\ Full
  /\ loop' = [loop EXCEPT !.op = "oldest"]
  /\ UNCHANGED <<content, redis, search, inval, done, tainted>>

\* ... the key that is by then the oldest leaves it, then its entry, unless it
\* has expired, and its places in the indexes.
Evict ==
  /\ loop.op = "oldest" /\ order # <<>>
  /\ order' = Tail(order)
  /\ entry' = [entry EXCEPT ![Head(order)] = Missing]
  /\ index' = IF Live(Head(order))
              THEN [kb \in Kbs |-> index[kb] \ {Head(order)}]
              ELSE index
  /\ timed' = {kb \in timed : index'[kb] # {}}
  /\ loop' = [loop EXCEPT !.op = "evict"]
  /\ UNCHANGED <<content, search, inval, done, tainted>>

StoreDone ==
  /\ \/ loop.op = "evict" /\ ~Full
     \/ loop.op = "oldest" /\ order = <<>>
  /\ loop' = IdleLoop
  /\ search' = Answered
  /\ UNCHANGED <<content, redis, inval, done, tainted>>

StoreOp == {"add", "refresh", "order", "evict", "oldest"}

\* A Redis error ends the store where it is; an eviction may have got as far as
\* the order, or the entry.
StoreError ==
  /\ RedisFails /\ loop.op \in StoreOp
  /\ \/ UNCHANGED <<entry, order>> /\ tainted' = tainted \cup {loop.key}
     \/ /\ loop.op = "oldest" /\ order # <<>>
        /\ order' = Tail(order)
        /\ entry' \in {entry, [entry EXCEPT ![Head(order)] = Missing]}
        /\ tainted' = tainted \cup {loop.key, Head(order)}
  /\ loop' = IdleLoop
  /\ search' = Answered
  /\ UNCHANGED <<content, index, timed, inval, done>>

Respond(s) ==
  /\ search[s].pc = "answered"
  /\ search' = [search EXCEPT ![s] = NoSearch]
  /\ UNCHANGED <<content, redis, loop, inval, done, tainted>>

SearchStep ==
  \/ \E s \in Searches, k \in Keys : Hit(s, k) \/ Miss(s, k)
  \/ \E s \in Searches, kb \in Kbs : Retrieve(s, kb)
  \/ \E s \in Searches : StoreEntry(s) \/ Respond(s)
  \/ AddToIndex \/ RefreshIndex \/ AddToOrder \/ Overfull \/ Evict \/ StoreDone \/ StoreError

-----------------------------------------------------------------------------
(* Invalidation: by a pipeline after it changed a knowledge base, or by the  *)
(* clear endpoint and delete_kb, which hold the event loop.                  *)

Begin(i, kb, ver) ==
  inval' = [inval EXCEPT ![i] = [NoInval EXCEPT !.pc = "read", !.kb = kb, !.ver = ver]]

\* set_indexed and delete_doc: the change becomes visible, then the knowledge
\* base is invalidated.
Change(w, kb) ==
  /\ inval[w].pc = "idle" /\ content[kb] < MaxChanges
  /\ content' = [content EXCEPT ![kb] = @ + 1]
  /\ Begin(w, kb, content[kb] + 1)
  /\ UNCHANGED <<redis, search, loop, done, tainted>>

\* set_failed and the dedup verdicts change chunks and invalidate nothing.
ChangeSilently(kb) ==
  /\ content[kb] < MaxChanges
  /\ content' = [content EXCEPT ![kb] = @ + 1]
  /\ UNCHANGED <<redis, search, loop, inval, done, tainted>>

ClearKb(kb) ==
  /\ Idle
  /\ loop' = [IdleLoop EXCEPT !.op = "clear"]
  /\ Begin(Api, kb, content[kb])
  /\ UNCHANGED <<content, redis, search, done, tainted>>

\* delete_kb does both on the event loop.
DeleteKb(kb) ==
  /\ Idle /\ content[kb] < MaxChanges
  /\ content' = [content EXCEPT ![kb] = @ + 1]
  /\ loop' = [IdleLoop EXCEPT !.op = "clear"]
  /\ Begin(Api, kb, content[kb] + 1)
  /\ UNCHANGED <<redis, search, done, tainted>>

\* What the searches under way have read, or are about to store, may be older
\* than an invalidation that starts now.
Meet(kbs) ==
  /\ search' = [s \in Searches |->
       IF search[s].pc \in {"retrieve", "store"} /\ KbsOf[search[s].key] \cap kbs # {}
       THEN [search[s] EXCEPT !.clean = FALSE] ELSE search[s]]
  /\ tainted' = tainted \cup {k \in Keys : k = loop.key /\ KbsOf[k] \cap kbs # {}}

\* SMEMBERS of the index.
ReadIndex(i) ==
  /\ inval[i].pc = "read"
  /\ inval' = [inval EXCEPT ![i].pc = "entry", ![i].todo = index[inval[i].kb]]
  /\ Meet({inval[i].kb})
  /\ UNCHANGED <<content, redis, loop, done>>

DropEntry(i) ==
  /\ inval[i].pc = "entry"
  /\ \E k \in inval[i].todo :
       /\ entry' = [entry EXCEPT ![k] = Missing]
       /\ inval' = [inval EXCEPT ![i].pc = "order", ![i].key = k, ![i].todo = @ \ {k}]
  /\ UNCHANGED <<content, index, timed, order, search, loop, done, tainted>>

DropOrder(i) ==
  /\ inval[i].pc = "order"
  /\ order' = Minus(order, inval[i].key)
  /\ inval' = [inval EXCEPT ![i].pc = "entry", ![i].key = NoKey]
  /\ UNCHANGED <<content, entry, index, timed, search, loop, done, tainted>>

Finish(i) ==
  /\ inval' = [inval EXCEPT ![i] = NoInval]
  /\ loop' = IF i = Api THEN IdleLoop ELSE loop

\* Mutant: the index goes first.
DropIndexFirst(i) ==
  /\ inval[i].pc = "entry"
  /\ index' = [index EXCEPT ![inval[i].kb] = {}]
  /\ timed' = timed \ {inval[i].kb}
  /\ done' = [done EXCEPT ![inval[i].kb] = IF inval[i].ver > @ THEN inval[i].ver ELSE @]
  /\ Finish(i)
  /\ UNCHANGED <<content, entry, order, search, tainted>>

\* DEL of the whole index, with whatever was added to it in the meantime.
DropIndex(i) ==
  /\ inval[i].pc = "entry" /\ inval[i].todo = {}
  /\ index' = [index EXCEPT ![inval[i].kb] = {}]
  /\ timed' = timed \ {inval[i].kb}
  /\ done' = [done EXCEPT ![inval[i].kb] = IF inval[i].ver > @ THEN inval[i].ver ELSE @]
  /\ Finish(i)
  /\ UNCHANGED <<content, entry, order, search, tainted>>

\* A Redis error: swallowed by the pipelines and delete_kb, a 503 of the endpoint.
InvalError(i) ==
  /\ RedisFails /\ inval[i].pc # "idle"
  /\ Finish(i)
  /\ UNCHANGED <<content, redis, search, done, tainted>>

\* invalidate_all: every key is scanned and deleted; only removals can happen at
\* the same time, so one step.  An error leaves any part undeleted.
ClearAll ==
  /\ Idle
  /\ \/ /\ entry' = [k \in Keys |-> Missing]
        /\ index' = [kb \in Kbs |-> {}]
        /\ timed' = {}
        /\ order' = <<>>
        /\ done' = content
        /\ Meet(Kbs)
     \/ /\ RedisFails
        /\ \E ks \in SUBSET Keys, kbs \in SUBSET Kbs :
             /\ entry' = [k \in Keys |-> IF k \in ks THEN Missing ELSE entry[k]]
             /\ index' = [kb \in Kbs |-> IF kb \in kbs THEN {} ELSE index[kb]]
             /\ timed' = timed \ kbs
        /\ order' \in {order, <<>>}
        /\ tainted' = Keys
        /\ UNCHANGED <<done, search>>
  /\ UNCHANGED <<content, loop, inval>>

InvalStep ==
  \/ \E w \in Writers, kb \in Kbs : Change(w, kb)
  \/ \E kb \in Kbs : ChangeSilently(kb) \/ ClearKb(kb) \/ DeleteKb(kb)
  \/ \E i \in Invalidators : ReadIndex(i) \/ DropEntry(i) \/ DropOrder(i) \/ DropIndex(i)
                               \/ InvalError(i)
  \/ ClearAll

-----------------------------------------------------------------------------
(* Redis expires keys after ttl_seconds.  An index with a TTL was last        *)
(* refreshed after each entry it lists was set, except the one whose store is *)
(* not that far or was ended by an error.  An index that SADD creates has no  *)
(* TTL before EXPIRE.                                                         *)

ExpireEntry(k) ==
  /\ Live(k)
  /\ entry' = [entry EXCEPT ![k] = Missing]
  /\ UNCHANGED <<content, index, timed, order, search, loop, inval, done, tainted>>

Unrefreshed(k, kb) == k = loop.key /\ kb \in loop.todo

ExpireIndex(kb) ==
  /\ kb \in timed
  /\ \A k \in index[kb] : ~Live(k) \/ Unrefreshed(k, kb) \/ (RedisFails /\ k \in tainted)
  /\ index' = [index EXCEPT ![kb] = {}]
  /\ timed' = timed \ {kb}
  /\ tainted' = tainted \cup {k \in index[kb] : Unrefreshed(k, kb)}
  /\ UNCHANGED <<content, entry, order, search, loop, inval, done>>

Expire == (\E k \in Keys : ExpireEntry(k)) \/ (\E kb \in Kbs : ExpireIndex(kb))

Next == SearchStep \/ InvalStep \/ Expire
Spec == Init /\ [][Next]_vars

-----------------------------------------------------------------------------
\* No response is older than an invalidation that was complete when the request
\* came in, unless the search that computed it met an invalidation of one of its
\* knowledge bases, a failing knowledge base or a Redis error: the indexes written
\* by set_entry lead invalidate_kb to every other entry.
AnswersAreFresh ==
  \A s \in Searches : search[s].pc = "answered" /\ search[s].clean =>
    \A kb \in KbsOf[search[s].key] : search[s].seen[kb] >= search[s].since[kb]

\* After a store the cache holds no more than max_entries entries, not counting
\* those that an invalidation or an error cut off from rag:cache:order.
EntriesBounded ==
  Idle => Cardinality({k \in Keys \ tainted : Live(k)}) <= MaxEntries

-----------------------------------------------------------------------------
(* The inductive invariant behind the two. *)

LoopShape ==
  /\ loop.op \in StoreOp => loop.key \in Keys /\ loop.todo \subseteq KbsOf[loop.key]
  /\ loop.op \in {"idle", "clear"} => loop.key = NoKey
  /\ loop.op = "refresh" => loop.kb \in loop.todo
  /\ loop.op \in {"order", "evict", "oldest"} => loop.todo = {}

InvalShape(i) ==
  /\ inval[i].pc # "idle" => inval[i].kb \in Kbs
  /\ inval[i].pc = "order" => inval[i].key \in Keys \ inval[i].todo
                              /\ Covers(inval[i].key, inval[i].kb)

CacheShape ==
  /\ LoopShape
  /\ inval[Api].pc # "idle" => loop.op = "clear"
  /\ \A s \in Searches : /\ search[s].pc # "idle" => search[s].key \in Keys
                         /\ search[s].pc \in {"store", "answered"} => search[s].todo = {}
  /\ \A i \in Invalidators : InvalShape(i) /\ \A k \in inval[i].todo : Covers(k, inval[i].kb)
  /\ \A kb \in Kbs : \A k \in index[kb] : Covers(k, kb)

\* An invalidation announces no more than has happened.
Announced ==
  /\ \A kb \in Kbs : done[kb] <= content[kb]
  /\ \A i \in Invalidators : inval[i].pc # "idle" => inval[i].ver <= content[inval[i].kb]

\* A clean search has met no invalidation, so what it has read is still new.
Clean(r) ==
  \A kb \in KbsOf[r.key] :
    /\ r.since[kb] <= done[kb]
    /\ kb \notin r.todo => r.seen[kb] >= r.since[kb]
    /\ r.pc = "retrieve" =>
         /\ ~Invalidating(kb)
         /\ kb \notin r.todo => r.seen[kb] >= done[kb]

CleanSearches ==
  \A s \in Searches : search[s].pc # "idle" /\ search[s].clean => Clean(search[s])

\* A live entry is in the indexes and in the order as far as its store has got,
\* and an invalidation in progress has it on its list.
Listed(k) ==
  /\ \A kb \in KbsOf[k] :
       /\ entry[k].seen[kb] >= done[kb]
       /\ k \in index[kb] \/ (Unrefreshed(k, kb) /\ kb # loop.kb)
       /\ \A i \in Invalidators :
            inval[i].kb = kb /\ inval[i].pc \in {"entry", "order"} => k \in inval[i].todo
  /\ Member(order, k) \/ (k = loop.key /\ loop.op \in {"add", "refresh", "order"})

Reachable == \A k \in Keys \ tainted : Live(k) => Listed(k)

\* Entries that no error or invalidation touched, but for the one being stored.
Counted == {k \in Keys \ tainted : Live(k) /\ k # loop.key}
Bounded == Cardinality(Counted) <= MaxEntries

\* Why AnswersAreFresh and EntriesBounded hold: an entry whose search met neither
\* an invalidation nor an error is as new as every complete invalidation of its
\* knowledge bases, and can be found by the next one and by eviction.
CacheInv ==
  /\ TypeOK /\ CacheShape /\ Announced
  /\ CleanSearches /\ Reachable /\ Bounded
=============================================================================
