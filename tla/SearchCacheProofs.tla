--------------------------- MODULE SearchCacheProofs ---------------------------
(***************************************************************************)
(* What holds of SearchCache for any knowledge bases, keys, searches and    *)
(* threads, with and without errors.                                        *)
(***************************************************************************)
EXTENDS SearchCache, TLAPS, FiniteSetTheorems

-----------------------------------------------------------------------------
(* rag:cache:order. *)

LEMMA MinusKeeps ==
  ASSUME NEW q \in Seq(Keys), NEW k \in Keys
  PROVE  /\ Minus(q, k) \in Seq(Keys)
         /\ \A x \in Keys : x # k /\ Member(q, x) => Member(Minus(q, k), x)
<1>1. CASE ~Member(q, k)
  BY <1>1 DEF Minus
<1>2. CASE Member(q, k)
  <2> DEFINE p == CHOOSE i \in DOMAIN q : q[i] = k
             r == [n \in 1 .. Len(q) - 1 |-> q[IF n < p THEN n ELSE n + 1]]
  <2>1. p \in 1 .. Len(q) /\ q[p] = k
    BY <1>2 DEF Member
  <2>2. Minus(q, k) = r
    BY <1>2 DEF Minus
  <2> HIDE DEF p
  <2>3. r \in Seq(Keys) /\ Len(r) = Len(q) - 1
    BY <2>1
  <2>4. ASSUME NEW x \in Keys, x # k, Member(q, x) PROVE Member(r, x)
    <3>1. PICK i \in 1 .. Len(q) : q[i] = x
      BY <2>4 DEF Member
    <3>2. i # p
      BY <2>1, <2>4, <3>1
    <3>3. CASE i < p
      <4>1. i \in DOMAIN r /\ r[i] = x
        BY <2>1, <3>1, <3>3
      <4> QED
        BY <4>1 DEF Member
    <3>4. CASE i > p
      <4>1. i - 1 \in DOMAIN r /\ r[i - 1] = x
        BY <2>1, <3>1, <3>4
      <4> QED
        BY <4>1 DEF Member
    <3> QED
      BY <2>1, <3>1, <3>2, <3>3, <3>4
  <2> QED
    BY <2>2, <2>3, <2>4
<1> QED
  BY <1>1, <1>2

\* A key added at the end of the order joins the others.
LEMMA AppendKeeps ==
  ASSUME NEW q \in Seq(Keys), NEW k \in Keys
  PROVE  /\ Append(q, k) \in Seq(Keys)
         /\ Member(Append(q, k), k)
         /\ \A x \in Keys : Member(q, x) => Member(Append(q, k), x)
<1>1. Append(q, k)[Len(q) + 1] = k /\ Len(q) + 1 \in DOMAIN Append(q, k)
  OBVIOUS
<1>2. \A i \in DOMAIN q : i \in DOMAIN Append(q, k) /\ Append(q, k)[i] = q[i]
  OBVIOUS
<1> QED
  BY <1>1, <1>2 DEF Member

\* Taking off the oldest key keeps the others.
LEMMA TailKeeps ==
  ASSUME NEW q \in Seq(Keys), q # <<>>
  PROVE  /\ Tail(q) \in Seq(Keys) /\ Head(q) \in Keys
         /\ \A x \in Keys : x # Head(q) /\ Member(q, x) => Member(Tail(q), x)
<1>1. Tail(q) \in Seq(Keys) /\ Head(q) \in Keys /\ Head(q) = q[1]
  OBVIOUS
<1>2. ASSUME NEW x \in Keys, x # Head(q), Member(q, x) PROVE Member(Tail(q), x)
  <2>1. PICK i \in 1 .. Len(q) : q[i] = x
    BY <1>2 DEF Member
  <2>2. i # 1
    BY <1>1, <1>2, <2>1
  <2>3. i - 1 \in DOMAIN Tail(q) /\ Tail(q)[i - 1] = x
    BY <2>1, <2>2
  <2> QED
    BY <2>3 DEF Member
<1> QED
  BY <1>1, <1>2

\* There are no more keys in the order than places.
LEMMA MembersBounded ==
  ASSUME NEW q \in Seq(Keys), NEW S \in SUBSET Keys, \A k \in S : Member(q, k)
  PROVE  Cardinality(S) <= Len(q)
<1> DEFINE place == [k \in S |-> CHOOSE i \in DOMAIN q : q[i] = k]
<1>1. \A k \in S : place[k] \in 1 .. Len(q) /\ q[place[k]] = k
  BY DEF Member
<1> HIDE DEF place
<1>2. place \in Injection(S, 1 .. Len(q))
  <2>1. place \in [S -> 1 .. Len(q)]
    BY <1>1 DEF place
  <2> QED
    BY <1>1, <2>1 DEF Injection, IsInjective
<1>3. IsFiniteSet(1 .. Len(q)) /\ Cardinality(1 .. Len(q)) = Len(q)
  <2>1. Len(q) \in Nat /\ 1 \in Int /\ Len(q) \in Int
    OBVIOUS
  <2> QED
    BY <2>1, FS_Interval, SMTT(60)
<1> QED
  BY <1>2, <1>3, FS_Injection

-----------------------------------------------------------------------------
(* Frames. *)

LEMMA BoundedShrinks ==
  ASSUME Bounded, Counted' \subseteq Counted
  PROVE  Bounded'
<1>1. IsFiniteSet(Counted)
  BY CacheAssumption, FS_Subset DEF Counted
<1>2. Cardinality(Counted') <= Cardinality(Counted) /\ Cardinality(Counted) \in Nat
  BY <1>1, FS_Subset, FS_CardinalityType
<1>3. IsFiniteSet(Counted') /\ Cardinality(Counted') \in Nat
  BY <1>1, FS_Subset, FS_CardinalityType
<1> QED
  BY <1>2, <1>3, CacheAssumption DEF Bounded

\* A step of one request that leaves Redis and the event loop alone.
LEMMA RequestFrame ==
  ASSUME Reachable, Bounded,
         UNCHANGED <<entry, index, order, loop, inval, done, tainted>>
  PROVE  Reachable' /\ Bounded'
<1>1. Reachable'
  BY DEF Reachable, Listed, Live, Unrefreshed, Member, Invalidators
<1>2. Counted' = Counted
  BY DEF Counted, Live
<1> QED
  BY <1>1, <1>2, BoundedShrinks

-----------------------------------------------------------------------------
(* The search requests. *)

\* A step of a request that only changes its own variables.
LEMMA RequestStep ==
  ASSUME CacheInv, NEW s \in Searches, NEW r \in Search,
         search' = [search EXCEPT ![s] = r],
         r.pc # "idle" => r.key \in Keys,
         r.pc \in {"store", "answered"} => r.todo = {},
         r.pc # "idle" /\ r.clean => Clean(r),
         UNCHANGED <<content, redis, loop, inval, done, tainted>>
  PROVE  CacheInv'
<1> USE DEF CacheInv, redis
<1>1. TypeOK'
  BY DEF TypeOK, Versions, Response
<1>2. CacheShape' /\ Announced'
  BY DEF CacheShape, LoopShape, InvalShape, StoreOp, TypeOK, Announced, Covers
<1>3. CleanSearches'
  <2>1. \A t \in Searches : search'[t] = IF t = s THEN r ELSE search[t]
    BY DEF TypeOK
  <2>2. \A x \in Search : Clean(x) => Clean(x)'
    BY DEF Clean, Invalidating
  <2> QED
    BY <2>1, <2>2 DEF CleanSearches, TypeOK
<1>4. Reachable' /\ Bounded'
  BY RequestFrame
<1> QED
  BY <1>1, <1>2, <1>3, <1>4

\* An idle search slot is a record of the type Search.
LEMMA NoSearchType == NoSearch \in Search /\ NoSearch.pc = "idle"
BY DEF NoSearch, Search, Zero, Versions

\* A lookup that finds an entry copies what the entry has seen.
LEMMA HitStep ==
  ASSUME CacheInv, NEW s \in Searches, NEW k \in Keys, Hit(s, k)
  PROVE  CacheInv'
<1>1. PICK h \in Keys :
        /\ Live(h) /\ KbsOf[h] = KbsOf[k]
        /\ search' = [search EXCEPT ![s] =
             [NoSearch EXCEPT !.pc = "answered", !.key = k, !.seen = entry[h].seen,
                              !.since = done, !.clean = h \notin tainted]]
  BY DEF Hit
<1> DEFINE r == [NoSearch EXCEPT !.pc = "answered", !.key = k, !.seen = entry[h].seen,
                                 !.since = done, !.clean = h \notin tainted]
<1>2. entry[h].seen \in Versions /\ done \in Versions
  BY DEF CacheInv, TypeOK, Response
<1>3. r \in Search /\ r.pc = "answered" /\ r.key = k /\ r.seen = entry[h].seen /\ r.since = done
      /\ r.todo = {}
      /\ (r.clean <=> h \notin tainted)
  BY <1>2 DEF NoSearch, Search, Zero, Versions
<1>4. r.clean => Clean(r)
  <2> SUFFICES ASSUME r.clean, NEW kb \in KbsOf[k]
               PROVE  done[kb] <= done[kb] /\ entry[h].seen[kb] >= done[kb]
    BY <1>3 DEF Clean
  <2>1. Listed(h) /\ kb \in KbsOf[h]
    BY <1>1, <1>3 DEF CacheInv, Reachable
  <2>2. kb \in Kbs
    BY CacheAssumption
  <2> QED
    BY <1>2, <2>1, <2>2 DEF Listed, Versions
<1>5. UNCHANGED <<content, redis, loop, inval, done, tainted>>
  BY DEF Hit
<1> HIDE DEF r
<1> QED
  BY <1>1, <1>3, <1>4, <1>5, RequestStep DEF r

\* A lookup that finds none goes on to retrieve.
LEMMA MissStep ==
  ASSUME CacheInv, NEW s \in Searches, NEW k \in Keys, Miss(s, k)
  PROVE  CacheInv'
<1> DEFINE c == \A kb \in KbsOf[k] : ~Invalidating(kb)
           r == [NoSearch EXCEPT !.pc = "retrieve", !.key = k, !.todo = KbsOf[k],
                                 !.since = done, !.clean = c]
<1>1. search' = [search EXCEPT ![s] = r] /\ UNCHANGED <<content, redis, loop, inval, done, tainted>>
  BY DEF Miss
<1>2. done \in Versions /\ KbsOf[k] \in SUBSET Kbs
  BY CacheAssumption DEF CacheInv, TypeOK
<1>3. c \in BOOLEAN
  OBVIOUS
<1>4. (r.clean <=> c) /\ r.key = k /\ r.todo = KbsOf[k] /\ r.since = done /\ r.pc = "retrieve"
  BY DEF NoSearch
<1>5. r \in Search
  BY <1>2, <1>3 DEF NoSearch, Search, Zero, Versions
<1>6. r.clean => Clean(r)
  <2> SUFFICES ASSUME c PROVE \A kb \in KbsOf[k] : done[kb] <= done[kb] /\ ~Invalidating(kb)
    BY <1>4 DEF Clean
  <2> QED
    BY <1>2 DEF Versions
<1> HIDE DEF r, c
<1> QED
  BY <1>1, <1>4, <1>5, <1>6, RequestStep

\* A retrieval reads the version a knowledge base has now.
LEMMA RetrieveStep ==
  ASSUME CacheInv, NEW s \in Searches, NEW kb \in Kbs, Retrieve(s, kb)
  PROVE  CacheInv'
<1> DEFINE q == search[s]
<1>1. q \in Search /\ q.pc = "retrieve" /\ kb \in q.todo /\ q.key \in Keys
  BY DEF Retrieve, CacheInv, TypeOK, CacheShape
<1>2. UNCHANGED <<content, redis, loop, inval, done, tainted>>
  BY DEF Retrieve
<1>3. CASE search' = [search EXCEPT ![s].todo = @ \ {kb}, ![s].seen[kb] = content[kb]]
  <2> DEFINE r == [q EXCEPT !.todo = @ \ {kb}, !.seen = [@ EXCEPT ![kb] = content[kb]]]
  <2>1. search' = [search EXCEPT ![s] = r]
    BY <1>3 DEF CacheInv, TypeOK
  <2>2. content \in Versions /\ content[kb] \in Nat
    BY DEF CacheInv, TypeOK, Versions
  <2>3. r \in Search
    BY <1>1, <2>2 DEF Search, Versions
  <2>4. /\ r.pc = "retrieve" /\ r.key = q.key /\ r.todo = q.todo \ {kb} /\ r.since = q.since
        /\ r.clean = q.clean /\ r.seen = [q.seen EXCEPT ![kb] = content[kb]]
    BY <1>1 DEF Search
  <2>5. q.clean => Clean(q)
    BY <1>1 DEF CacheInv, CleanSearches
  <2>6. r.clean => Clean(r)
    <3> SUFFICES ASSUME q.clean, NEW x \in KbsOf[q.key]
                 PROVE  /\ q.since[x] <= done[x] /\ ~Invalidating(x)
                        /\ x \notin r.todo => r.seen[x] >= q.since[x] /\ r.seen[x] >= done[x]
      BY <2>4 DEF Clean
    <3>1. /\ x \in Kbs
          /\ q.since[x] <= done[x] /\ ~Invalidating(x)
          /\ x \notin q.todo => q.seen[x] >= q.since[x] /\ q.seen[x] >= done[x]
      BY <1>1, <2>5, CacheAssumption DEF Clean
    <3>2. done[x] \in Nat /\ q.since[x] \in Nat /\ content[x] \in Nat /\ done[x] <= content[x]
      BY <1>1, <3>1 DEF CacheInv, TypeOK, Versions, Search, Announced
    <3>3. r.seen[x] = IF x = kb THEN content[x] ELSE q.seen[x]
      BY <1>1, <2>4, <3>1 DEF Search, Versions
    <3> QED
      BY <2>4, <3>1, <3>2, <3>3
  <2> HIDE DEF r
  <2> QED
    BY <1>1, <1>2, <2>1, <2>3, <2>4, <2>6, RequestStep
<1>4. CASE search' = [search EXCEPT ![s].todo = @ \ {kb}, ![s].clean = FALSE]
  <2> DEFINE r == [q EXCEPT !.todo = @ \ {kb}, !.clean = FALSE]
  <2>1. search' = [search EXCEPT ![s] = r]
    BY <1>4 DEF CacheInv, TypeOK
  <2>2. r \in Search /\ r.pc = "retrieve" /\ r.key = q.key /\ ~r.clean
    BY <1>1 DEF Search
  <2> HIDE DEF r
  <2> QED
    BY <1>1, <1>2, <2>1, <2>2, RequestStep
<1> QED
  BY <1>3, <1>4 DEF Retrieve

\* An answer ends the request.
LEMMA RespondStep ==
  ASSUME CacheInv, NEW s \in Searches, Respond(s)
  PROVE  CacheInv'
BY NoSearchType, RequestStep DEF Respond

-----------------------------------------------------------------------------
(* Storing. *)

\* r is a later state of the request q, which has read nothing in between.
Follows(r, q) ==
  /\ q.pc # "idle" /\ q.clean
  /\ r.key = q.key /\ r.todo = q.todo /\ r.since = q.since /\ r.seen = q.seen
  /\ r.pc = "retrieve" => q.pc = "retrieve"

\* A request that was clean and goes on undisturbed stays so.
LEMMA CleanStays ==
  ASSUME TypeOK, TypeOK', CacheShape, CleanSearches,
         \A kb \in Kbs : done[kb] <= done'[kb],
         \A s \in Searches : search'[s].pc # "idle" /\ search'[s].clean =>
           /\ Follows(search'[s], search[s])
           /\ search'[s].pc = "retrieve" =>
                \A kb \in KbsOf[search[s].key] :
                  done'[kb] = done[kb] /\ (Invalidating(kb)' => Invalidating(kb))
  PROVE  CleanSearches'
<1> SUFFICES ASSUME NEW s \in Searches, search'[s].pc # "idle", search'[s].clean,
                    NEW kb \in KbsOf[search'[s].key]
             PROVE  /\ search'[s].since[kb] <= done'[kb]
                    /\ kb \notin search'[s].todo => search'[s].seen[kb] >= search'[s].since[kb]
                    /\ search'[s].pc = "retrieve" =>
                         /\ ~Invalidating(kb)'
                         /\ kb \notin search'[s].todo => search'[s].seen[kb] >= done'[kb]
  BY DEF CleanSearches, Clean
<1>1. Follows(search'[s], search[s])
  OBVIOUS
<1>2. Clean(search[s]) /\ search[s].key \in Keys /\ kb \in KbsOf[search[s].key]
  BY <1>1 DEF Follows, CleanSearches, CacheShape
<1>3. kb \in Kbs
  BY <1>2, CacheAssumption
<1>4. search[s].since[kb] \in Nat /\ done[kb] \in Nat /\ done'[kb] \in Nat
  BY <1>3 DEF TypeOK, Search, Versions
<1> QED
  BY <1>1, <1>2, <1>3, <1>4 DEF Follows, Clean

\* The request whose response is stored is answered, and the loop is idle again.
LEMMA AnsweredType ==
  ASSUME TypeOK, CacheShape, CleanSearches, search' = Answered
  PROVE  /\ search' \in [Searches -> Search]
         /\ \A s \in Searches :
              /\ search'[s].pc # "idle" => search'[s].key \in Keys
              /\ search'[s].pc \in {"store", "answered"} => search'[s].todo = {}
         /\ \A s \in Searches : search'[s].pc # "idle" /\ search'[s].clean =>
              Follows(search'[s], search[s])
<1> SUFFICES ASSUME NEW s \in Searches
             PROVE  /\ Answered[s] \in Search
                    /\ Answered[s].pc # "idle" => Answered[s].key \in Keys
                    /\ Answered[s].pc \in {"store", "answered"} => Answered[s].todo = {}
                    /\ Answered[s].pc # "idle" /\ Answered[s].clean => Follows(Answered[s], search[s])
  BY DEF Answered
<1>1. search[s] \in Search
  BY DEF TypeOK
<1>2. CASE Storing(s)
  <2> DEFINE r == [search[s] EXCEPT !.pc = "answered"]
  <2>1. r \in Search /\ r.pc = "answered" /\ r.key = search[s].key /\ r.todo = search[s].todo
        /\ r.since = search[s].since /\ r.seen = search[s].seen /\ r.clean = search[s].clean
    BY <1>1 DEF Search
  <2>2. Answered[s] = r
    BY <1>2 DEF Answered
  <2> HIDE DEF r
  <2> QED
    BY <1>2, <2>1, <2>2 DEF Follows, Storing, CacheShape
<1>3. CASE ~Storing(s)
  BY <1>1, <1>3 DEF Answered, Follows, CacheShape
<1> QED
  BY <1>2, <1>3

\* The first write of a store: an entry that no index knows yet.
LEMMA StoreEntryStep ==
  ASSUME CacheInv, NEW s \in Searches, StoreEntry(s)
  PROVE  CacheInv'
<1> USE DEF CacheInv
<1> DEFINE k == search[s].key
           q == search[s]
<1>0. q \in Search /\ q.pc = "retrieve" /\ q.todo = {} /\ k \in Keys /\ Idle
  BY DEF StoreEntry, TypeOK, CacheShape
<1>1. CASE /\ entry' = [entry EXCEPT ![k] = [live |-> TRUE, seen |-> search[s].seen]]
           /\ tainted' = IF search[s].clean THEN tainted \ {k} ELSE tainted \cup {k}
           /\ loop' = [IdleLoop EXCEPT !.op = "add", !.key = k, !.todo = KbsOf[k]]
           /\ search' = [search EXCEPT ![s].pc = "store"]
  <2> DEFINE r == [q EXCEPT !.pc = "store"]
  <2>1. UNCHANGED <<content, index, timed, order, inval, done>>
    BY DEF StoreEntry
  <2>2. /\ r \in Search /\ r.pc = "store" /\ r.key = k /\ r.todo = q.todo
        /\ r.since = q.since /\ r.seen = q.seen /\ r.clean = q.clean
    BY <1>0 DEF Search
  <2>3. \A t \in Searches : search'[t] = IF t = s THEN r ELSE search[t]
    BY <1>1 DEF TypeOK
  <2>4. search' \in [Searches -> Search]
    BY <1>1, <2>2 DEF TypeOK
  <2>5. /\ loop' \in Loop /\ loop'.op = "add" /\ loop'.key = k /\ loop'.todo = KbsOf[k]
        /\ loop'.kb = NoKb /\ KbsOf[k] \in SUBSET Kbs
    BY <1>0, <1>1, CacheAssumption DEF IdleLoop, Loop
  <2>6. TypeOK'
    BY <1>0, <1>1, <2>1, <2>4, <2>5 DEF TypeOK, Response, Search
  <2>7. CacheShape'
    <3>1. inval[Api].pc = "idle"
      BY <1>0 DEF CacheShape, Idle
    <3> QED
      BY <1>0, <2>1, <2>2, <2>3, <2>5, <3>1, ZenonT(60) DEF CacheShape, LoopShape, InvalShape, StoreOp, Covers
  <2>8. Announced'
    BY <2>1 DEF Announced
  <2>9. CleanSearches'
    <3>1. \A t \in Searches : search'[t].pc # "idle" /\ search'[t].clean =>
            Follows(search'[t], search[t])
      BY <1>0, <2>2, <2>3 DEF Follows
    <3>2. \A kb \in Kbs : done[kb] <= done'[kb]
      BY <2>1 DEF TypeOK, Versions
    <3>3. \A kb : done'[kb] = done[kb] /\ (Invalidating(kb)' => Invalidating(kb))
      BY <2>1 DEF Invalidating
    <3> QED
      BY <2>6, <3>1, <3>2, <3>3, CleanStays
  <2>10. Reachable'
    <3> SUFFICES ASSUME NEW x \in Keys \ tainted', Live(x)' PROVE Listed(x)'
      BY DEF Reachable
    <3>1. CASE x = k
      <4>1. q.clean
        BY <1>1, <3>1
      <4>2. Clean(q)
        BY <1>0, <4>1 DEF CleanSearches
      <4>3. entry'[x].seen = q.seen
        BY <1>1, <3>1 DEF TypeOK
      <4>4. \A kb \in KbsOf[k] : entry'[x].seen[kb] >= done'[kb] /\ ~Invalidating(kb)
        BY <1>0, <2>1, <4>2, <4>3 DEF Clean
      <4>5. \A kb \in KbsOf[k] : \A i \in Invalidators :
              ~(inval[i].kb = kb /\ inval[i].pc \in {"entry", "order"})
        BY <4>4 DEF Invalidating
      <4>6. NoKb \notin KbsOf[k]
        BY <2>5, CacheAssumption
      <4> QED
        BY <2>1, <2>5, <3>1, <4>4, <4>5, <4>6 DEF Listed, Unrefreshed
    <3>2. CASE x # k
      <4>1. x \notin tainted /\ Live(x) /\ entry'[x] = entry[x]
        BY <1>1, <3>2 DEF Live, TypeOK
      <4>2. loop.key = NoKey /\ x # NoKey
        BY <1>0, CacheAssumption DEF CacheShape, LoopShape, Idle
      <4>3. Listed(x)
        BY <4>1 DEF Reachable
      <4> QED
        BY <1>0, <2>1, <2>5, <3>2, <4>1, <4>2, <4>3 DEF Listed, Unrefreshed, Member
    <3> QED
      BY <3>1, <3>2
  <2>11. Bounded'
    <3>1. Counted' \subseteq Counted
      <4>1. loop.key = NoKey
        BY <1>0 DEF CacheShape, LoopShape, Idle
      <4> QED
        BY <1>1, <2>5, <4>1, CacheAssumption DEF Counted, Live, TypeOK
    <3> QED
      BY <3>1, BoundedShrinks
  <2> QED
    BY <2>6, <2>7, <2>8, <2>9, <2>10, <2>11
<1>2. CASE /\ search' = [search EXCEPT ![s].pc = "answered"]
           /\ UNCHANGED <<entry, tainted, loop>>
  <2> DEFINE r == [q EXCEPT !.pc = "answered"]
  <2>1. search' = [search EXCEPT ![s] = r]
    BY <1>2 DEF TypeOK
  <2>2. /\ r \in Search /\ r.pc = "answered" /\ r.key = k /\ r.todo = q.todo
        /\ r.since = q.since /\ r.seen = q.seen /\ r.clean = q.clean
    BY <1>0 DEF Search
  <2>3. r.clean => Clean(r)
    BY <1>0, <2>2 DEF CleanSearches, Clean
  <2>4. UNCHANGED <<content, redis, loop, inval, done, tainted>>
    BY <1>2 DEF StoreEntry, redis
  <2> HIDE DEF r
  <2> QED
    BY <1>0, <2>1, <2>2, <2>3, <2>4, RequestStep
<1> QED
  BY <1>1, <1>2 DEF StoreEntry

\* SADD of the entry to the index of one of its knowledge bases.
LEMMA AddToIndexStep ==
  ASSUME CacheInv, AddToIndex
  PROVE  CacheInv'
<1> USE DEF CacheInv
<1> DEFINE k == loop.key
<1>1. PICK kb \in loop.todo :
        /\ index' = [index EXCEPT ![kb] = @ \cup {k}]
        /\ loop' = [loop EXCEPT !.op = "refresh", !.kb = kb]
  BY DEF AddToIndex
<1>2. loop.op = "add" /\ UNCHANGED <<content, entry, timed, order, search, inval, done, tainted>>
  BY DEF AddToIndex
<1>3. k \in Keys /\ loop.todo \subseteq KbsOf[k] /\ kb \in KbsOf[k] /\ kb \in Kbs
  BY <1>2, CacheAssumption DEF CacheShape, LoopShape, StoreOp
<1>4. /\ loop' \in Loop /\ loop'.op = "refresh" /\ loop'.key = k /\ loop'.kb = kb
      /\ loop'.todo = loop.todo
  BY <1>1, <1>3 DEF TypeOK, Loop
<1>5. TypeOK'
  BY <1>1, <1>2, <1>3, <1>4 DEF TypeOK
<1>6. \A x \in Kbs : index'[x] = IF x = kb THEN index[x] \cup {k} ELSE index[x]
  BY <1>1 DEF TypeOK
<1>7. CacheShape' /\ Announced'
  <2>1. LoopShape'
    BY <1>2, <1>3, <1>4 DEF CacheShape, LoopShape, StoreOp
  <2>2. inval[Api].pc = "idle"
    BY <1>2 DEF CacheShape
  <2>3. \A x \in Kbs : \A y \in index'[x] : Covers(y, x)
    <3> SUFFICES ASSUME NEW x \in Kbs, NEW y \in index'[x] PROVE Covers(y, x)
      OBVIOUS
    <3>1. y \in index[x] \/ (x = kb /\ y = k)
      BY <1>6
    <3>2. \A z \in index[x] : Covers(z, x)
      BY DEF CacheShape
    <3>3. Covers(k, kb)
      BY <1>3 DEF Covers
    <3> QED
      BY <3>1, <3>2, <3>3
  <2> QED
    BY <1>2, <2>1, <2>2, <2>3 DEF CacheShape, InvalShape, Covers, Announced
<1>8. CleanSearches'
  BY <1>2 DEF CleanSearches, Clean, Invalidating
<1>9. Reachable'
  <2> SUFFICES ASSUME NEW x \in Keys \ tainted, Live(x), NEW y \in KbsOf[x]
               PROVE  /\ entry[x].seen[y] >= done[y]
                      /\ x \in index'[y] \/ (x = k /\ y \in loop.todo /\ y # kb)
                      /\ \A i \in Invalidators :
                           inval[i].kb = y /\ inval[i].pc \in {"entry", "order"} => x \in inval[i].todo
                      /\ Member(order, x) \/ x = k
    BY <1>2, <1>4 DEF Reachable, Listed, Live, Unrefreshed, Member
  <2>1. Listed(x) /\ y \in Kbs
    BY CacheAssumption DEF Reachable
  <2> QED
    BY <1>3, <1>6, <2>1 DEF Listed, Unrefreshed
<1>10. Bounded'
  BY <1>2, <1>4, BoundedShrinks DEF Counted, Live
<1> QED
  BY <1>5, <1>7, <1>8, <1>9, <1>10

\* EXPIRE of that index, after which the next knowledge base follows.
LEMMA RefreshIndexStep ==
  ASSUME CacheInv, RefreshIndex
  PROVE  CacheInv'
<1> USE DEF CacheInv
<1> DEFINE rest == loop.todo \ {loop.kb}
<1>1. /\ loop.op = "refresh"
      /\ loop' = [loop EXCEPT !.todo = rest, !.kb = NoKb, !.op = IF rest = {} THEN "order" ELSE "add"]
      /\ timed' = timed \cup {kb \in Kbs : kb = loop.kb /\ index[kb] # {}}
      /\ UNCHANGED <<content, entry, index, order, search, inval, done, tainted>>
  BY DEF RefreshIndex
<1>2. loop.key \in Keys /\ loop.todo \subseteq KbsOf[loop.key] /\ NoKb \notin KbsOf[loop.key]
  BY <1>1, CacheAssumption DEF CacheShape, LoopShape, StoreOp
<1>3. /\ loop' \in Loop /\ loop'.op = (IF rest = {} THEN "order" ELSE "add")
      /\ loop'.key = loop.key /\ loop'.kb = NoKb /\ loop'.todo = rest
  BY <1>1 DEF TypeOK, Loop
<1>4. TypeOK'
  BY <1>1, <1>3 DEF TypeOK
<1>5. CacheShape' /\ Announced'
  BY <1>1, <1>2, <1>3 DEF CacheShape, LoopShape, InvalShape, StoreOp, Covers, Announced
<1>6. CleanSearches'
  BY <1>1 DEF CleanSearches, Clean, Invalidating
<1>7. Reachable'
  <2> SUFFICES ASSUME NEW x \in Keys \ tainted, Live(x)
               PROVE  /\ \A y \in KbsOf[x] :
                           /\ entry[x].seen[y] >= done[y]
                           /\ x \in index[y] \/ (x = loop.key /\ y \in rest /\ y # NoKb)
                           /\ \A i \in Invalidators :
                                inval[i].kb = y /\ inval[i].pc \in {"entry", "order"}
                                  => x \in inval[i].todo
                      /\ Member(order, x) \/ x = loop.key
    BY <1>1, <1>3 DEF Reachable, Listed, Live, Unrefreshed, Member
  <2>1. Listed(x)
    BY DEF Reachable
  <2> QED
    BY <1>1, <1>2, <2>1 DEF Listed, Unrefreshed
<1>8. Bounded'
  BY <1>1, <1>3, BoundedShrinks DEF Counted, Live
<1> QED
  BY <1>4, <1>5, <1>6, <1>7, <1>8

\* The key becomes the newest of the order, the last write of a store before the eviction.
LEMMA AddToOrderStep ==
  ASSUME CacheInv, AddToOrder
  PROVE  CacheInv'
<1> USE DEF CacheInv
<1> DEFINE k == loop.key
<1>1. /\ loop.op = "order" /\ order' = Append(Minus(order, k), k)
      /\ loop' = [loop EXCEPT !.op = "evict"]
      /\ UNCHANGED <<content, entry, index, timed, search, inval, done, tainted>>
  BY DEF AddToOrder
<1>2. k \in Keys /\ loop.todo = {}
  BY <1>1 DEF CacheShape, LoopShape, StoreOp
<1>3. /\ loop' \in Loop /\ loop'.op = "evict" /\ loop'.key = k /\ loop'.kb = loop.kb
      /\ loop'.todo = loop.todo
  BY <1>1 DEF TypeOK, Loop
<1>4. /\ order' \in Seq(Keys) /\ Member(order', k)
      /\ \A x \in Keys : Member(order, x) => Member(order', x)
  <2>1. order \in Seq(Keys)
    BY DEF TypeOK
  <2>2. /\ Minus(order, k) \in Seq(Keys)
        /\ \A x \in Keys : x # k /\ Member(order, x) => Member(Minus(order, k), x)
    BY <1>2, <2>1, MinusKeeps
  <2> QED
    BY <1>1, <1>2, <2>2, AppendKeeps
<1>5. TypeOK'
  BY <1>1, <1>3, <1>4 DEF TypeOK
<1>6. CacheShape' /\ Announced'
  BY <1>1, <1>2, <1>3 DEF CacheShape, LoopShape, InvalShape, StoreOp, Covers, Announced
<1>7. CleanSearches'
  BY <1>1 DEF CleanSearches, Clean, Invalidating
<1>8. Reachable'
  <2> SUFFICES ASSUME NEW x \in Keys \ tainted, Live(x) PROVE Listed(x)'
    BY <1>1 DEF Reachable, Live
  <2>1. Listed(x)
    BY DEF Reachable
  <2>2. Member(order', x)
    BY <1>1, <1>4, <2>1 DEF Listed
  <2> QED
    BY <1>1, <1>3, <2>1, <2>2 DEF Listed, Unrefreshed, Member
<1>9. Bounded'
  BY <1>1, <1>3, BoundedShrinks DEF Counted, Live
<1> QED
  BY <1>5, <1>6, <1>7, <1>8, <1>9

\* The order is too long: an eviction follows.
LEMMA OverfullStep ==
  ASSUME CacheInv, Overfull
  PROVE  CacheInv'
<1> USE DEF CacheInv, redis
<1>1. /\ loop.op = "evict" /\ loop' = [loop EXCEPT !.op = "oldest"]
      /\ UNCHANGED <<content, redis, search, inval, done, tainted>>
  BY DEF Overfull
<1>2. /\ loop' \in Loop /\ loop'.op = "oldest" /\ loop'.key = loop.key /\ loop'.kb = loop.kb
      /\ loop'.todo = loop.todo
  BY <1>1 DEF TypeOK, Loop
<1>3. TypeOK'
  BY <1>1, <1>2 DEF TypeOK
<1>4. CacheShape' /\ Announced'
  BY <1>1, <1>2 DEF CacheShape, LoopShape, InvalShape, StoreOp, Covers, Announced
<1>5. CleanSearches'
  BY <1>1 DEF CleanSearches, Clean, Invalidating
<1>6. Reachable'
  BY <1>1, <1>2 DEF Reachable, Listed, Live, Unrefreshed, Member
<1>7. Bounded'
  BY <1>1, <1>2, BoundedShrinks DEF Counted, Live
<1> QED
  BY <1>3, <1>4, <1>5, <1>6, <1>7

\* The oldest key of the order is evicted.
LEMMA EvictStep ==
  ASSUME CacheInv, Evict
  PROVE  CacheInv'
<1> USE DEF CacheInv
<1> DEFINE h == Head(order)
<1>1. /\ loop.op = "oldest" /\ order # <<>> /\ order' = Tail(order)
      /\ entry' = [entry EXCEPT ![h] = Missing]
      /\ index' = IF Live(h) THEN [kb \in Kbs |-> index[kb] \ {h}] ELSE index
      /\ timed' = {kb \in timed : index'[kb] # {}}
      /\ loop' = [loop EXCEPT !.op = "evict"]
      /\ UNCHANGED <<content, search, inval, done, tainted>>
  BY DEF Evict
<1>2. /\ loop' \in Loop /\ loop'.op = "evict" /\ loop'.key = loop.key /\ loop'.kb = loop.kb
      /\ loop'.todo = loop.todo
  BY <1>1 DEF TypeOK, Loop
<1>3. /\ Tail(order) \in Seq(Keys) /\ h \in Keys
      /\ \A x \in Keys : x # h /\ Member(order, x) => Member(Tail(order), x)
  BY <1>1, TailKeeps DEF TypeOK
<1>4. \A kb \in Kbs : index'[kb] \subseteq index[kb] /\ \A x \in index[kb] : x # h => x \in index'[kb]
  BY <1>1
<1>5. \A x \in Keys : entry'[x] = IF x = h THEN Missing ELSE entry[x]
  BY <1>1 DEF TypeOK
<1>6. TypeOK'
  <2>1. Missing \in Response
    BY DEF Missing, Response, Zero, Versions
  <2>2. index' \in [Kbs -> SUBSET Keys]
    BY <1>1 DEF TypeOK
  <2> QED
    BY <1>1, <1>2, <1>3, <2>1, <2>2 DEF TypeOK
<1>7. CacheShape' /\ Announced'
  BY <1>1, <1>2, <1>4 DEF CacheShape, LoopShape, InvalShape, StoreOp, Covers, Announced
<1>8. CleanSearches'
  BY <1>1 DEF CleanSearches, Clean, Invalidating
<1>9. \A x \in Keys : Live(x)' => x # h /\ Live(x)
  BY <1>5 DEF Live, Missing
<1>10. Reachable'
  <2> SUFFICES ASSUME NEW x \in Keys \ tainted, Live(x), x # h PROVE Listed(x)'
    BY <1>1, <1>9 DEF Reachable
  <2>1. Listed(x) /\ entry'[x] = entry[x] /\ KbsOf[x] \subseteq Kbs
    BY <1>5, CacheAssumption DEF Reachable
  <2>2. Member(order', x)
    BY <1>1, <1>3, <2>1 DEF Listed
  <2> QED
    BY <1>1, <1>2, <1>4, <2>1, <2>2 DEF Listed, Unrefreshed, Member
<1>11. Bounded'
  BY <1>1, <1>2, <1>9, BoundedShrinks DEF Counted
<1> QED
  BY <1>6, <1>7, <1>8, <1>10, <1>11

\* The store ends: the order is short enough to count the entries by it.
LEMMA StoreDoneStep ==
  ASSUME CacheInv, StoreDone
  PROVE  CacheInv'
<1> USE DEF CacheInv, redis
<1>1. /\ loop.op \in {"evict", "oldest"} /\ Len(order) <= MaxEntries
      /\ loop' = IdleLoop /\ search' = Answered
      /\ UNCHANGED <<content, redis, inval, done, tainted>>
  BY CacheAssumption DEF StoreDone, Full, TypeOK
<1>2. loop' \in Loop /\ loop'.op = "idle" /\ loop'.key = NoKey /\ loop'.todo = {}
  BY <1>1 DEF IdleLoop, Loop
<1>3. TypeOK'
  BY <1>1, <1>2, AnsweredType DEF TypeOK
<1>4. CacheShape' /\ Announced'
  BY <1>1, <1>2, AnsweredType DEF CacheShape, LoopShape, InvalShape, StoreOp, Covers, Announced
<1>5. CleanSearches'
  <2>1. \A kb \in Kbs : done[kb] <= done'[kb]
    BY <1>1 DEF TypeOK, Versions
  <2>2. \A kb : done'[kb] = done[kb] /\ (Invalidating(kb)' => Invalidating(kb))
    BY <1>1 DEF Invalidating
  <2> QED
    BY <1>1, <1>3, <2>1, <2>2, AnsweredType, CleanStays
<1>6. \A x \in Keys \ tainted : Live(x) =>
        Member(order, x) /\ \A kb \in KbsOf[x] : x \in index[kb]
  BY <1>1 DEF Reachable, Listed, Unrefreshed, CacheShape, LoopShape
<1>7. Reachable'
  BY <1>1, <1>6 DEF Reachable, Listed, Live, Unrefreshed, Member
<1>8. Bounded'
  <2>1. Counted' \in SUBSET Keys /\ \A x \in Counted' : Member(order, x)
    BY <1>1, <1>6 DEF Counted, Live
  <2>2. Cardinality(Counted') <= Len(order)
    BY <2>1, MembersBounded DEF TypeOK
  <2>3. IsFiniteSet(Counted') /\ Cardinality(Counted') \in Nat /\ Len(order) \in Nat
    BY <2>1, CacheAssumption, FS_Subset, FS_CardinalityType DEF TypeOK
  <2> QED
    BY <1>1, <2>2, <2>3, CacheAssumption DEF Bounded
<1> QED
  BY <1>3, <1>4, <1>5, <1>7, <1>8

\* An error in the middle of a store: the entry it leaves is tainted.
LEMMA StoreErrorStep ==
  ASSUME CacheInv, StoreError
  PROVE  CacheInv'
<1> USE DEF CacheInv
<1> DEFINE h == Head(order)
<1>1. /\ loop.op \in StoreOp /\ loop' = IdleLoop /\ search' = Answered
      /\ loop.key \in tainted' /\ tainted \subseteq tainted'
      /\ UNCHANGED <<content, index, timed, inval, done>>
  BY DEF StoreError
<1>2. \/ UNCHANGED <<entry, order>> /\ tainted' = tainted \cup {loop.key}
      \/ /\ loop.op = "oldest" /\ order # <<>> /\ order' = Tail(order)
         /\ entry' \in {entry, [entry EXCEPT ![h] = Missing]}
         /\ tainted' = tainted \cup {loop.key, h}
  BY DEF StoreError
<1>3. loop' \in Loop /\ loop'.op = "idle" /\ loop'.key = NoKey /\ loop'.todo = {}
  BY <1>1 DEF IdleLoop, Loop
<1>4. order # <<>> => /\ Tail(order) \in Seq(Keys) /\ h \in Keys
                      /\ \A x \in Keys : x # h /\ Member(order, x) => Member(Tail(order), x)
  BY TailKeeps DEF TypeOK
<1>5. loop.key \in Keys
  BY <1>1 DEF CacheShape, LoopShape
<1>6. TypeOK'
  <2>1. Missing \in Response
    BY DEF Missing, Response, Zero, Versions
  <2> QED
    BY <1>1, <1>2, <1>3, <1>4, <1>5, <2>1, AnsweredType DEF TypeOK
<1>7. CacheShape' /\ Announced'
  BY <1>1, <1>3, AnsweredType DEF CacheShape, LoopShape, InvalShape, StoreOp, Covers, Announced
<1>8. CleanSearches'
  <2>1. \A kb \in Kbs : done[kb] <= done'[kb]
    BY <1>1 DEF TypeOK, Versions
  <2>2. \A kb : done'[kb] = done[kb] /\ (Invalidating(kb)' => Invalidating(kb))
    BY <1>1 DEF Invalidating
  <2> QED
    BY <1>1, <1>6, <2>1, <2>2, AnsweredType, CleanStays
<1>9. ASSUME NEW x \in Keys \ tainted', Live(x)'
      PROVE  /\ x \notin tainted /\ x # loop.key /\ Live(x) /\ entry'[x] = entry[x]
             /\ Member(order, x) => Member(order', x)
  BY <1>1, <1>2, <1>4, <1>9 DEF Live, TypeOK
<1>10. Reachable'
  <2> SUFFICES ASSUME NEW x \in Keys \ tainted', Live(x)' PROVE Listed(x)'
    BY DEF Reachable
  <2>1. Listed(x) /\ x # loop.key
    BY <1>9 DEF Reachable
  <2>2. Member(order', x)
    BY <1>9, <2>1 DEF Listed
  <2> QED
    BY <1>1, <1>9, <2>1, <2>2 DEF Listed, Unrefreshed, Member
<1>11. Bounded'
  BY <1>9, BoundedShrinks DEF Counted
<1> QED
  BY <1>6, <1>7, <1>8, <1>10, <1>11

-----------------------------------------------------------------------------
(* Invalidation. *)

\* Only one invalidator moves, and by a record of its own.
LEMMA ChangeStep ==
  ASSUME CacheInv, NEW w \in Writers, NEW kb \in Kbs, Change(w, kb)
  PROVE  CacheInv'
<1> USE DEF CacheInv, redis
<1> DEFINE v == content[kb] + 1
           r == [NoInval EXCEPT !.pc = "read", !.kb = kb, !.ver = v]
<1>1. /\ inval[w].pc = "idle" /\ content' = [content EXCEPT ![kb] = @ + 1]
      /\ inval' = [inval EXCEPT ![w] = r]
      /\ UNCHANGED <<redis, search, loop, done, tainted>>
  BY DEF Change, Begin
<1>2. w \in Invalidators /\ w # Api
  BY CacheAssumption DEF Invalidators
<1>3. /\ content \in Versions /\ content[kb] \in Nat /\ content' \in Versions
      /\ content'[kb] = content[kb] + 1
      /\ \A x \in Kbs : content[x] <= content'[x]
  BY <1>1 DEF TypeOK, Versions
<1>4. r \in Inval /\ r.pc = "read" /\ r.kb = kb /\ r.ver = content'[kb] /\ r.todo = {}
  <2>1. v = content'[kb] /\ v \in Nat
    BY <1>3
  <2> HIDE DEF v
  <2>2. r \in Inval /\ r.pc = "read" /\ r.kb = kb /\ r.ver = v /\ r.todo = {}
    BY <2>1 DEF NoInval, Inval
  <2> QED
    BY <2>1, <2>2
<1>5. \A i \in Invalidators : inval'[i] = IF i = w THEN r ELSE inval[i]
  BY <1>1 DEF TypeOK
<1> HIDE DEF r
<1>6. TypeOK'
  BY <1>1, <1>3, <1>4 DEF TypeOK
<1>7. CacheShape'
  BY <1>1, <1>2, <1>4, <1>5 DEF CacheShape, LoopShape, InvalShape, StoreOp, Covers, Invalidators
<1>8. Announced'
  <2>1. \A x \in Kbs : done[x] \in Nat /\ content[x] \in Nat /\ content'[x] \in Nat
    BY <1>3 DEF TypeOK, Versions
  <2>2. \A i \in Invalidators : inval[i] \in Inval
    BY DEF TypeOK
  <2> QED
    BY <1>1, <1>3, <1>4, <1>5, <2>1, <2>2 DEF Announced, Inval, CacheShape, InvalShape
<1>9. \A x : Invalidating(x)' <=> Invalidating(x)
  BY <1>1, <1>4, <1>5 DEF Invalidating
<1>10. CleanSearches'
  BY <1>1, <1>9 DEF CleanSearches, Clean
<1>11. Reachable'
  <2> SUFFICES ASSUME NEW x \in Keys \ tainted, Live(x) PROVE Listed(x)'
    BY <1>1 DEF Reachable, Live
  <2>1. Listed(x)
    BY DEF Reachable
  <2> QED
    BY <1>1, <1>4, <1>5, <2>1 DEF Listed, Unrefreshed, Member
<1>12. Bounded'
  BY <1>1, BoundedShrinks DEF Counted, Live
<1> QED
  BY <1>6, <1>7, <1>8, <1>10, <1>11, <1>12

\* A change that nothing invalidates: set_failed, a dedup verdict.
LEMMA ChangeSilentlyStep ==
  ASSUME CacheInv, NEW kb \in Kbs, ChangeSilently(kb)
  PROVE  CacheInv'
<1> USE DEF CacheInv, redis
<1>1. /\ content' = [content EXCEPT ![kb] = @ + 1]
      /\ UNCHANGED <<redis, search, loop, inval, done, tainted>>
  BY DEF ChangeSilently
<1>2. /\ content \in Versions /\ content' \in Versions
      /\ \A x \in Kbs : content[x] <= content'[x]
  BY <1>1 DEF TypeOK, Versions
<1>3. TypeOK' /\ CacheShape'
  BY <1>1, <1>2 DEF TypeOK, CacheShape, LoopShape, InvalShape, StoreOp, Covers
<1>4. Announced'
  <2>1. \A x \in Kbs : done[x] \in Nat /\ content[x] \in Nat /\ content'[x] \in Nat
    BY <1>2 DEF TypeOK, Versions
  <2>2. \A i \in Invalidators : inval[i] \in Inval
    BY DEF TypeOK
  <2> QED
    BY <1>1, <1>2, <2>1, <2>2 DEF Announced, Inval, CacheShape, InvalShape
<1>5. CleanSearches'
  BY <1>1 DEF CleanSearches, Clean, Invalidating
<1>6. Reachable' /\ Bounded'
  BY <1>1, RequestFrame
<1> QED
  BY <1>3, <1>4, <1>5, <1>6

\* The API's own invalidations, with or without a change before.
LEMMA ApiBegins ==
  ASSUME CacheInv, NEW kb \in Kbs, Idle, content' \in Versions,
         \A x \in Kbs : content[x] <= content'[x],
         loop' = [IdleLoop EXCEPT !.op = "clear"], Begin(Api, kb, content'[kb]),
         UNCHANGED <<redis, search, done, tainted>>
  PROVE  CacheInv'
<1> USE DEF CacheInv, redis
<1> DEFINE r == [NoInval EXCEPT !.pc = "read", !.kb = kb, !.ver = content'[kb]]
<1>1. Api \in Invalidators /\ inval' = [inval EXCEPT ![Api] = r]
  BY DEF Begin, Invalidators
<1>2. content'[kb] \in Nat
  BY DEF Versions
<1>3. r \in Inval /\ r.pc = "read" /\ r.kb = kb /\ r.ver = content'[kb] /\ r.todo = {}
  BY <1>2 DEF NoInval, Inval
<1>4. \A i \in Invalidators : inval'[i] = IF i = Api THEN r ELSE inval[i]
  BY <1>1 DEF TypeOK
<1> HIDE DEF r
<1>5. loop' \in Loop /\ loop'.op = "clear" /\ loop'.key = NoKey /\ loop'.todo = {}
  BY DEF IdleLoop, Loop
<1>6. loop.key = NoKey /\ loop.op = "idle" /\ inval[Api].pc = "idle" /\ NoKey \notin Keys
  BY CacheAssumption DEF CacheShape, LoopShape, Idle
<1>7. TypeOK'
  BY <1>1, <1>3, <1>5 DEF TypeOK
<1>8. CacheShape'
  BY <1>3, <1>4, <1>5 DEF CacheShape, LoopShape, InvalShape, StoreOp, Covers
<1>9. Announced'
  <2>1. \A x \in Kbs : done[x] \in Nat /\ content[x] \in Nat /\ content'[x] \in Nat
    BY DEF TypeOK, Versions
  <2>2. \A i \in Invalidators : inval[i] \in Inval
    BY DEF TypeOK
  <2> QED
    BY <1>3, <1>4, <2>1, <2>2 DEF Announced, Inval, CacheShape, InvalShape
<1>10. \A x : Invalidating(x)' <=> Invalidating(x)
  BY <1>3, <1>4, <1>6 DEF Invalidating
<1>11. CleanSearches'
  BY <1>10 DEF CleanSearches, Clean
<1>12. Reachable'
  <2> SUFFICES ASSUME NEW x \in Keys \ tainted, Live(x) PROVE Listed(x)'
    BY DEF Reachable, Live
  <2>1. Listed(x)
    BY DEF Reachable
  <2> QED
    BY <1>3, <1>4, <1>5, <1>6, <2>1 DEF Listed, Unrefreshed, Member
<1>13. Bounded'
  BY <1>5, <1>6, BoundedShrinks DEF Counted, Live
<1> QED
  BY <1>7, <1>8, <1>9, <1>11, <1>12, <1>13

\* The clear endpoint begins an invalidation.
LEMMA ClearKbStep ==
  ASSUME CacheInv, NEW kb \in Kbs, ClearKb(kb)
  PROVE  CacheInv'
<1>1. content \in Versions /\ \A x \in Kbs : content[x] <= content[x]
  BY DEF CacheInv, TypeOK, Versions
<1> QED
  BY <1>1, ApiBegins DEF ClearKb

\* The end of delete_kb begins an invalidation.
LEMMA DeleteKbStep ==
  ASSUME CacheInv, NEW kb \in Kbs, DeleteKb(kb)
  PROVE  CacheInv'
<1>1. /\ content' \in Versions /\ content'[kb] = content[kb] + 1
      /\ \A x \in Kbs : content[x] <= content'[x]
  BY DEF CacheInv, TypeOK, Versions, DeleteKb
<1> QED
  BY <1>1, ApiBegins DEF DeleteKb

\* Every entry that the new list could miss has become tainted.
LEMMA ReadIndexStep ==
  ASSUME CacheInv, NEW i \in Invalidators, ReadIndex(i)
  PROVE  CacheInv'
<1> USE DEF CacheInv, redis
<1> DEFINE kb == inval[i].kb
           r == [inval[i] EXCEPT !.pc = "entry", !.todo = index[kb]]
<1>1. /\ inval[i].pc = "read" /\ inval' = [inval EXCEPT ![i] = r]
      /\ UNCHANGED <<content, redis, loop, done>>
  BY DEF ReadIndex, TypeOK
<1>2. kb \in Kbs /\ inval[i] \in Inval
  BY <1>1 DEF CacheShape, InvalShape, TypeOK
<1>3. /\ r \in Inval /\ r.pc = "entry" /\ r.kb = kb /\ r.todo = index[kb]
      /\ r.ver = inval[i].ver
  BY <1>2 DEF Inval, TypeOK
<1>4. \A j \in Invalidators : inval'[j] = IF j = i THEN r ELSE inval[j]
  BY <1>1 DEF TypeOK
<1>5. /\ tainted' = tainted \cup {k \in Keys : k = loop.key /\ KbsOf[k] \cap {kb} # {}}
      /\ search' = [s \in Searches |->
           IF search[s].pc \in {"retrieve", "store"} /\ KbsOf[search[s].key] \cap {kb} # {}
           THEN [search[s] EXCEPT !.clean = FALSE] ELSE search[s]]
  BY DEF ReadIndex, Meet
<1> HIDE DEF r
<1>6. ASSUME NEW s \in Searches
      PROVE  /\ search'[s] \in Search /\ search'[s].pc = search[s].pc /\ search'[s].key = search[s].key
             /\ search'[s].todo = search[s].todo
             /\ search'[s].clean => search'[s] = search[s]
             /\ search'[s].clean /\ search[s].pc = "retrieve" => kb \notin KbsOf[search[s].key]
  <2>1. search[s] \in Search
    BY DEF TypeOK
  <2>2. [search[s] EXCEPT !.clean = FALSE] \in Search
    BY <2>1 DEF Search
  <2> QED
    BY <1>5, <2>1, <2>2 DEF Search
<1>7. TypeOK'
  <2>1. search' \in [Searches -> Search]
    BY <1>5, <1>6
  <2> QED
    BY <1>1, <1>3, <1>5, <2>1 DEF TypeOK
<1>8. CacheShape'
  BY <1>1, <1>2, <1>3, <1>4, <1>6 DEF CacheShape, LoopShape, InvalShape, StoreOp, Covers
<1>9. Announced'
  BY <1>1, <1>3, <1>4 DEF Announced
<1>10. \A x : x # kb => (Invalidating(x)' <=> Invalidating(x))
  BY <1>1, <1>3, <1>4 DEF Invalidating
<1>11. CleanSearches'
  <2>1. \A x \in Kbs : done[x] <= done'[x]
    BY <1>1 DEF TypeOK, Versions
  <2> QED
    BY <1>1, <1>6, <1>7, <1>10, <2>1, CleanStays DEF Follows
<1>12. Reachable'
  <2> SUFFICES ASSUME NEW x \in Keys \ tainted', Live(x) PROVE Listed(x)'
    BY <1>1 DEF Reachable, Live
  <2>1. Listed(x) /\ (x = loop.key => kb \notin KbsOf[x])
    BY <1>5 DEF Reachable
  <2>2. kb \in KbsOf[x] => x \in index[kb]
    BY <2>1 DEF Listed, Unrefreshed
  <2> QED
    BY <1>1, <1>3, <1>4, <2>1, <2>2 DEF Listed, Unrefreshed, Member
<1>13. Bounded'
  BY <1>1, <1>5, BoundedShrinks DEF Counted, Live
<1> QED
  BY <1>7, <1>8, <1>9, <1>11, <1>12, <1>13

\* An invalidation deletes one of the entries it has read.
LEMMA DropEntryStep ==
  ASSUME CacheInv, NEW i \in Invalidators, DropEntry(i)
  PROVE  CacheInv'
<1> USE DEF CacheInv
<1>1. PICK k \in inval[i].todo :
        /\ entry' = [entry EXCEPT ![k] = Missing]
        /\ inval' = [inval EXCEPT ![i] = [inval[i] EXCEPT !.pc = "order", !.key = k,
                                                         !.todo = @ \ {k}]]
  BY DEF DropEntry, TypeOK
<1> DEFINE r == [inval[i] EXCEPT !.pc = "order", !.key = k, !.todo = @ \ {k}]
<1>2. /\ inval[i].pc = "entry"
      /\ UNCHANGED <<content, index, timed, order, search, loop, done, tainted>>
  BY DEF DropEntry
<1>3. inval[i] \in Inval /\ k \in Keys /\ Covers(k, inval[i].kb)
  <2>1. inval[i] \in Inval
    BY DEF TypeOK
  <2> QED
    BY <1>1, <2>1 DEF Inval, CacheShape
<1>4. /\ r \in Inval /\ r.pc = "order" /\ r.kb = inval[i].kb /\ r.key = k
      /\ r.todo = inval[i].todo \ {k} /\ r.ver = inval[i].ver
  BY <1>3 DEF Inval
<1>5. \A j \in Invalidators : inval'[j] = IF j = i THEN r ELSE inval[j]
  BY <1>1 DEF TypeOK
<1>6. Missing \in Response /\ ~Missing.live
  BY DEF Missing, Response, Zero, Versions
<1>7. \A x \in Keys : entry'[x] = IF x = k THEN Missing ELSE entry[x]
  BY <1>1 DEF TypeOK
<1>8. TypeOK'
  BY <1>1, <1>2, <1>4, <1>6 DEF TypeOK
<1> HIDE DEF r
<1>9. CacheShape'
  <2>1. LoopShape' /\ (inval'[Api].pc # "idle" => loop'.op = "clear")
    BY <1>2, <1>4, <1>5 DEF CacheShape, LoopShape, StoreOp, Invalidators
  <2>2. \A j \in Invalidators :
          InvalShape(j)' /\ \A x \in inval'[j].todo : Covers(x, inval'[j].kb)
    BY <1>2, <1>3, <1>4, <1>5 DEF CacheShape, InvalShape, Covers
  <2> QED
    BY <1>2, <2>1, <2>2 DEF CacheShape, Covers
<1>10. Announced'
  BY <1>2, <1>4, <1>5 DEF Announced
<1>11. \A x : Invalidating(x)' <=> Invalidating(x)
  BY <1>2, <1>4, <1>5 DEF Invalidating
<1>12. CleanSearches'
  BY <1>2, <1>11 DEF CleanSearches, Clean
<1>13. Reachable'
  <2> SUFFICES ASSUME NEW x \in Keys \ tainted, Live(x), x # k PROVE Listed(x)'
    BY <1>2, <1>6, <1>7 DEF Reachable, Live
  <2>1. Listed(x) /\ entry'[x] = entry[x]
    BY <1>7 DEF Reachable
  <2> QED
    BY <1>2, <1>4, <1>5, <2>1 DEF Listed, Unrefreshed, Member
<1>14. Bounded'
  BY <1>2, <1>6, <1>7, BoundedShrinks DEF Counted, Live
<1> QED
  BY <1>8, <1>9, <1>10, <1>12, <1>13, <1>14

\* The key that leaves the order has no entry that counts: it was dropped, and one
\* stored since is tainted.
LEMMA DropOrderStep ==
  ASSUME CacheInv, NEW i \in Invalidators, DropOrder(i)
  PROVE  CacheInv'
<1> USE DEF CacheInv
<1> DEFINE k == inval[i].key
           r == [inval[i] EXCEPT !.pc = "entry", !.key = NoKey]
<1>1. /\ inval[i].pc = "order" /\ order' = Minus(order, k)
      /\ inval' = [inval EXCEPT ![i] = r]
      /\ UNCHANGED <<content, entry, index, timed, search, loop, done, tainted>>
  BY DEF DropOrder, TypeOK
<1>2. inval[i] \in Inval /\ k \in Keys /\ k \notin inval[i].todo /\ Covers(k, inval[i].kb)
  BY <1>1 DEF TypeOK, CacheShape, InvalShape
<1>3. /\ r \in Inval /\ r.pc = "entry" /\ r.kb = inval[i].kb /\ r.todo = inval[i].todo
      /\ r.ver = inval[i].ver
  BY <1>2 DEF Inval
<1>4. \A j \in Invalidators : inval'[j] = IF j = i THEN r ELSE inval[j]
  BY <1>1 DEF TypeOK
<1>5. /\ order' \in Seq(Keys)
      /\ \A x \in Keys : x # k /\ Member(order, x) => Member(order', x)
  BY <1>1, <1>2, MinusKeeps DEF TypeOK
<1>6. TypeOK'
  BY <1>1, <1>3, <1>5 DEF TypeOK
<1> HIDE DEF r
<1>7. CacheShape'
  BY <1>1, <1>3, <1>4 DEF CacheShape, LoopShape, InvalShape, StoreOp, Covers
<1>8. Announced'
  BY <1>1, <1>3, <1>4 DEF Announced
<1>9. \A x : Invalidating(x)' <=> Invalidating(x)
  BY <1>1, <1>3, <1>4 DEF Invalidating
<1>10. CleanSearches'
  BY <1>1, <1>9 DEF CleanSearches, Clean
<1>11. Reachable'
  <2> SUFFICES ASSUME NEW x \in Keys \ tainted, Live(x) PROVE Listed(x)'
    BY <1>1 DEF Reachable, Live
  <2>1. Listed(x)
    BY DEF Reachable
  <2>2. x # k
    BY <1>1, <1>2, <2>1 DEF Listed, Covers
  <2>3. Member(order, x) => Member(order', x)
    BY <1>5, <2>2
  <2> QED
    BY <1>1, <1>3, <1>4, <2>1, <2>3 DEF Listed, Unrefreshed
<1>12. Bounded'
  BY <1>1, BoundedShrinks DEF Counted, Live
<1> QED
  BY <1>6, <1>7, <1>8, <1>10, <1>11, <1>12

\* An invalidator stops, done or not.
LEMMA FinishShape ==
  ASSUME CacheInv, NEW i \in Invalidators, inval[i].pc # "idle", Finish(i)
  PROVE  /\ inval' \in [Invalidators -> Inval] /\ loop' \in Loop
         /\ \A j \in Invalidators : inval'[j] = IF j = i THEN NoInval ELSE inval[j]
         /\ NoInval.pc = "idle" /\ NoInval.todo = {}
         /\ loop'.key = loop.key
         /\ \/ loop'.op = loop.op /\ loop'.kb = loop.kb /\ loop'.todo = loop.todo
            \/ loop.key = NoKey /\ loop'.op = "idle" /\ i = Api
         /\ LoopShape' /\ (inval'[Api].pc # "idle" => loop'.op = "clear")
         /\ \A x : Invalidating(x)' => Invalidating(x)
<1> USE DEF CacheInv
<1>1. /\ inval' = [inval EXCEPT ![i] = NoInval] /\ loop' = IF i = Api THEN IdleLoop ELSE loop
      /\ inval \in [Invalidators -> Inval]
  BY DEF Finish, TypeOK
<1>2. NoInval \in Inval /\ NoInval.pc = "idle" /\ NoInval.todo = {}
  BY DEF NoInval, Inval
<1>3. /\ inval' \in [Invalidators -> Inval]
      /\ \A j \in Invalidators : inval'[j] = IF j = i THEN NoInval ELSE inval[j]
  BY <1>1, <1>2
<1>4. IdleLoop \in Loop /\ IdleLoop.op = "idle" /\ IdleLoop.key = NoKey
  BY DEF IdleLoop, Loop
<1>5. i = Api => loop.op = "clear" /\ loop.key = NoKey
  BY DEF CacheShape, LoopShape
<1>6. loop' \in Loop /\ LoopShape' /\ loop'.key = loop.key
  BY <1>1, <1>4, <1>5 DEF TypeOK, CacheShape, LoopShape, StoreOp
<1>7. inval'[Api].pc # "idle" => loop'.op = "clear"
  BY <1>1, <1>2, <1>3 DEF CacheShape, Invalidators
<1>8. \A x : Invalidating(x)' => Invalidating(x)
  BY <1>2, <1>3 DEF Invalidating
<1>9. \/ loop'.op = loop.op /\ loop'.kb = loop.kb /\ loop'.todo = loop.todo
      \/ loop.key = NoKey /\ loop'.op = "idle" /\ i = Api
  BY <1>1, <1>4, <1>5
<1> QED
  BY <1>2, <1>3, <1>6, <1>7, <1>8, <1>9

\* What the index listed is gone, so no entry that counts covers the knowledge base.
LEMMA DropIndexStep ==
  ASSUME CacheInv, NEW i \in Invalidators, DropIndex(i)
  PROVE  CacheInv'
<1> USE DEF CacheInv
<1> DEFINE kb == inval[i].kb
           v == IF inval[i].ver > done[kb] THEN inval[i].ver ELSE done[kb]
<1>1. /\ inval[i].pc = "entry" /\ inval[i].todo = {}
      /\ index' = [index EXCEPT ![kb] = {}] /\ timed' = timed \ {kb}
      /\ done' = [done EXCEPT ![kb] = v]
      /\ Finish(i)
      /\ UNCHANGED <<content, entry, order, search, tainted>>
  BY DEF DropIndex
<1>2. kb \in Kbs /\ inval[i].ver \in Nat /\ done \in Versions /\ done[kb] \in Nat
  BY <1>1 DEF CacheShape, InvalShape, TypeOK, Inval, Versions
<1>3. /\ done' \in Versions
      /\ \A x \in Kbs : done[x] <= done'[x] /\ (x # kb => done'[x] = done[x])
      /\ done'[kb] <= content[kb]
  <2>1. v \in Nat /\ done[kb] <= v /\ v <= content[kb]
    BY <1>1, <1>2 DEF Announced
  <2> QED
    BY <1>1, <1>2, <2>1 DEF Versions
<1>4. /\ inval' \in [Invalidators -> Inval] /\ loop' \in Loop
      /\ \A j \in Invalidators : inval'[j] = IF j = i THEN NoInval ELSE inval[j]
      /\ NoInval.pc = "idle" /\ NoInval.todo = {}
      /\ loop'.key = loop.key
      /\ \/ loop'.op = loop.op /\ loop'.kb = loop.kb /\ loop'.todo = loop.todo
         \/ loop.key = NoKey /\ loop'.op = "idle" /\ i = Api
      /\ LoopShape' /\ (inval'[Api].pc # "idle" => loop'.op = "clear")
      /\ \A x : Invalidating(x)' => Invalidating(x)
  BY <1>1, FinishShape
<1>5. \A x \in Kbs : index'[x] = IF x = kb THEN {} ELSE index[x]
  BY <1>1 DEF TypeOK
<1>6. TypeOK'
  BY <1>1, <1>3, <1>4 DEF TypeOK
<1>7. CacheShape'
  BY <1>1, <1>4, <1>5 DEF CacheShape, InvalShape, Covers
<1>8. Announced'
  BY <1>1, <1>2, <1>3, <1>4 DEF Announced
<1>9. CleanSearches'
  <2>1. Invalidating(kb)
    BY <1>1 DEF Invalidating
  <2>2. \A s \in Searches : search[s].pc = "retrieve" /\ search[s].clean =>
          \A x \in KbsOf[search[s].key] : x # kb /\ x \in Kbs
    BY <2>1, CacheAssumption DEF CleanSearches, Clean, CacheShape
  <2> QED
    BY <1>1, <1>3, <1>4, <1>6, <2>2, CleanStays DEF Follows
<1>10. Reachable'
  <2> SUFFICES ASSUME NEW x \in Keys \ tainted, Live(x) PROVE Listed(x)'
    BY <1>1 DEF Reachable, Live
  <2>1. Listed(x)
    BY DEF Reachable
  <2>2. kb \notin KbsOf[x] /\ KbsOf[x] \subseteq Kbs
    BY <1>1, <2>1, CacheAssumption DEF Listed
  <2>3. x # NoKey
    BY CacheAssumption
  <2>4. \A y \in KbsOf[x] : done'[y] = done[y] /\ index'[y] = index[y]
    BY <1>3, <1>5, <2>2
  <2> QED
    BY <1>1, <1>4, <2>1, <2>3, <2>4 DEF Listed, Unrefreshed, Member
<1>11. Bounded'
  BY <1>1, <1>4, BoundedShrinks DEF Counted, Live
<1> QED
  BY <1>6, <1>7, <1>8, <1>9, <1>10, <1>11

\* An invalidation that fails promises nothing.
LEMMA InvalErrorStep ==
  ASSUME CacheInv, NEW i \in Invalidators, InvalError(i)
  PROVE  CacheInv'
<1> USE DEF CacheInv, redis
<1>1. /\ inval[i].pc # "idle" /\ Finish(i)
      /\ UNCHANGED <<content, redis, search, done, tainted>>
  BY DEF InvalError
<1>2. /\ inval' \in [Invalidators -> Inval] /\ loop' \in Loop
      /\ \A j \in Invalidators : inval'[j] = IF j = i THEN NoInval ELSE inval[j]
      /\ NoInval.pc = "idle" /\ NoInval.todo = {}
      /\ loop'.key = loop.key
      /\ \/ loop'.op = loop.op /\ loop'.kb = loop.kb /\ loop'.todo = loop.todo
         \/ loop.key = NoKey /\ loop'.op = "idle" /\ i = Api
      /\ LoopShape' /\ (inval'[Api].pc # "idle" => loop'.op = "clear")
      /\ \A x : Invalidating(x)' => Invalidating(x)
  BY <1>1, FinishShape
<1>3. TypeOK'
  BY <1>1, <1>2 DEF TypeOK
<1>4. CacheShape' /\ Announced'
  BY <1>1, <1>2 DEF CacheShape, InvalShape, Covers, Announced
<1>5. CleanSearches'
  BY <1>1, <1>2 DEF CleanSearches, Clean
<1>6. Reachable'
  <2> SUFFICES ASSUME NEW x \in Keys \ tainted, Live(x) PROVE Listed(x)'
    BY <1>1 DEF Reachable, Live
  <2>1. Listed(x) /\ x # NoKey
    BY CacheAssumption DEF Reachable
  <2> QED
    BY <1>1, <1>2, <2>1 DEF Listed, Unrefreshed, Member
<1>7. Bounded'
  BY <1>1, <1>2, BoundedShrinks DEF Counted, Live
<1> QED
  BY <1>3, <1>4, <1>5, <1>6, <1>7

\* invalidate_all removes everything.
LEMMA ClearAllStep ==
  ASSUME CacheInv, ClearAll
  PROVE  CacheInv'
<1> USE DEF CacheInv
<1>0. Missing \in Response /\ ~Missing.live
  BY DEF Missing, Response, Zero, Versions
<1>1. UNCHANGED <<content, loop, inval>> /\ Idle
  BY DEF ClearAll
<1>2. CASE /\ entry' = [k \in Keys |-> Missing]
           /\ index' = [kb \in Kbs |-> {}]
           /\ timed' = {}
           /\ order' = <<>>
           /\ done' = content
           /\ Meet(Kbs)
  <2>1. ASSUME NEW s \in Searches
        PROVE  /\ search'[s] \in Search /\ search'[s].pc = search[s].pc
               /\ search'[s].key = search[s].key /\ search'[s].todo = search[s].todo
               /\ search'[s].clean => search'[s] = search[s]
               /\ search'[s].pc = "retrieve" => ~search'[s].clean
    <3>1. search[s] \in Search /\ (search[s].pc # "idle" => search[s].key \in Keys)
      BY DEF TypeOK, CacheShape
    <3>2. [search[s] EXCEPT !.clean = FALSE] \in Search
      BY <3>1 DEF Search
    <3>3. search[s].pc # "idle" => KbsOf[search[s].key] \cap Kbs # {}
      BY <3>1, CacheAssumption
    <3>4. search'[s] = IF search[s].pc \in {"retrieve", "store"} /\ KbsOf[search[s].key] \cap Kbs # {}
                       THEN [search[s] EXCEPT !.clean = FALSE] ELSE search[s]
      BY <1>2 DEF Meet
    <3> QED
      BY <3>1, <3>2, <3>3, <3>4 DEF Search
  <2>2. search' \in [Searches -> Search] /\ tainted' \subseteq Keys
    <3>1. tainted \subseteq Keys
      BY DEF TypeOK
    <3> QED
      BY <1>2, <2>1, <3>1 DEF Meet
  <2>3. TypeOK'
    BY <1>0, <1>1, <1>2, <2>2 DEF TypeOK
  <2>4. CacheShape' /\ Announced'
    <3>1. CacheShape'
      BY <1>1, <1>2, <2>1 DEF CacheShape, LoopShape, InvalShape, StoreOp, Covers
    <3>2. \A kb \in Kbs : done'[kb] <= content'[kb]
      BY <1>1, <1>2 DEF TypeOK, Versions
    <3> QED
      BY <1>1, <3>1, <3>2 DEF Announced
  <2>5. CleanSearches'
    BY <1>2, <2>1, <2>3, CleanStays DEF Follows, Announced
  <2>6. Reachable' /\ Counted' \subseteq Counted
    BY <1>0, <1>2 DEF Reachable, Counted, Live
  <2> QED
    BY <2>3, <2>4, <2>5, <2>6, BoundedShrinks
<1>3. CASE /\ \E ks \in SUBSET Keys, kbs \in SUBSET Kbs :
                /\ entry' = [k \in Keys |-> IF k \in ks THEN Missing ELSE entry[k]]
                /\ index' = [kb \in Kbs |-> IF kb \in kbs THEN {} ELSE index[kb]]
                /\ timed' = timed \ kbs
           /\ order' \in {order, <<>>}
           /\ tainted' = Keys
           /\ UNCHANGED <<done, search>>
  <2>1. PICK ks \in SUBSET Keys, kbs \in SUBSET Kbs :
          /\ entry' = [k \in Keys |-> IF k \in ks THEN Missing ELSE entry[k]]
          /\ index' = [kb \in Kbs |-> IF kb \in kbs THEN {} ELSE index[kb]]
          /\ timed' = timed \ kbs
    BY <1>3
  <2>2. TypeOK'
    <3>1. entry' \in [Keys -> Response]
      BY <1>0, <2>1 DEF TypeOK
    <3>2. index' \in [Kbs -> SUBSET Keys] /\ timed' \subseteq Kbs
      BY <2>1 DEF TypeOK
    <3>3. order' \in Seq(Keys)
      <4>1. order \in Seq(Keys) /\ <<>> \in Seq(Keys)
        BY DEF TypeOK
      <4> QED
        BY <1>3, <4>1
    <3> QED
      BY <1>1, <1>3, <3>1, <3>2, <3>3 DEF TypeOK
  <2>3. CacheShape' /\ Announced'
    BY <1>1, <1>3, <2>1 DEF CacheShape, LoopShape, InvalShape, StoreOp, Covers, Announced
  <2>4. CleanSearches'
    BY <1>1, <1>3 DEF CleanSearches, Clean, Invalidating
  <2>5. Reachable' /\ Counted' \subseteq Counted
    BY <1>3 DEF Reachable, Counted
  <2> QED
    BY <2>2, <2>3, <2>4, <2>5, BoundedShrinks
<1> QED
  BY <1>2, <1>3 DEF ClearAll

-----------------------------------------------------------------------------
(* Expiry. *)

LEMMA ExpireEntryStep ==
  ASSUME CacheInv, NEW k \in Keys, ExpireEntry(k)
  PROVE  CacheInv'
<1> USE DEF CacheInv
<1>0. Missing \in Response /\ ~Missing.live
  BY DEF Missing, Response, Zero, Versions
<1>1. /\ entry' = [entry EXCEPT ![k] = Missing]
      /\ UNCHANGED <<content, index, timed, order, search, loop, inval, done, tainted>>
  BY DEF ExpireEntry
<1>2. \A x \in Keys : entry'[x] = IF x = k THEN Missing ELSE entry[x]
  BY <1>1 DEF TypeOK
<1>3. TypeOK'
  BY <1>0, <1>1 DEF TypeOK
<1>4. CacheShape' /\ Announced'
  BY <1>1 DEF CacheShape, LoopShape, InvalShape, StoreOp, Covers, Announced
<1>5. CleanSearches'
  BY <1>1 DEF CleanSearches, Clean, Invalidating
<1>6. Reachable'
  <2> SUFFICES ASSUME NEW x \in Keys \ tainted, Live(x), x # k PROVE Listed(x)'
    BY <1>0, <1>1, <1>2 DEF Reachable, Live
  <2>1. Listed(x) /\ entry'[x] = entry[x]
    BY <1>2 DEF Reachable
  <2> QED
    BY <1>1, <2>1 DEF Listed, Unrefreshed, Member
<1>7. Bounded'
  BY <1>0, <1>1, <1>2, BoundedShrinks DEF Counted, Live
<1> QED
  BY <1>3, <1>4, <1>5, <1>6, <1>7

\* Redis expires an index; its entries have expired, or are not refreshed yet.
LEMMA ExpireIndexStep ==
  ASSUME CacheInv, NEW kb \in Kbs, ExpireIndex(kb)
  PROVE  CacheInv'
<1> USE DEF CacheInv
<1>1. /\ \A k \in index[kb] : ~Live(k) \/ Unrefreshed(k, kb) \/ (RedisFails /\ k \in tainted)
      /\ index' = [index EXCEPT ![kb] = {}] /\ timed' = timed \ {kb}
      /\ tainted' = tainted \cup {k \in index[kb] : Unrefreshed(k, kb)}
      /\ UNCHANGED <<content, entry, order, search, loop, inval, done>>
  BY DEF ExpireIndex
<1>2. \A x \in Kbs : index'[x] = IF x = kb THEN {} ELSE index[x]
  BY <1>1 DEF TypeOK
<1>3. TypeOK'
  BY <1>1 DEF TypeOK
<1>4. CacheShape' /\ Announced'
  BY <1>1, <1>2 DEF CacheShape, LoopShape, InvalShape, StoreOp, Covers, Announced
<1>5. CleanSearches'
  BY <1>1 DEF CleanSearches, Clean, Invalidating
<1>6. Reachable'
  <2> SUFFICES ASSUME NEW x \in Keys \ tainted', Live(x) PROVE Listed(x)'
    BY <1>1 DEF Reachable, Live
  <2>1. Listed(x) /\ x \notin tainted /\ x \notin index[kb] /\ KbsOf[x] \subseteq Kbs
    BY <1>1, CacheAssumption DEF Reachable
  <2> QED
    BY <1>1, <1>2, <2>1 DEF Listed, Unrefreshed, Member
<1>7. Bounded'
  BY <1>1, BoundedShrinks DEF Counted, Live
<1> QED
  BY <1>3, <1>4, <1>5, <1>6, <1>7

-----------------------------------------------------------------------------
(* The theorems. *)

LEMMA CacheInvInit == Init => CacheInv
<1> SUFFICES ASSUME Init PROVE CacheInv
  OBVIOUS
<1>1. /\ Missing \in Response /\ ~Missing.live /\ NoSearch \in Search /\ NoSearch.pc = "idle"
      /\ NoInval \in Inval /\ NoInval.pc = "idle" /\ NoInval.todo = {} /\ NoInval.ver = 0
      /\ IdleLoop \in Loop /\ IdleLoop.op = "idle" /\ IdleLoop.key = NoKey
      /\ Zero \in Versions /\ \A kb \in Kbs : Zero[kb] = 0
  BY NoSearchType DEF Missing, Response, Zero, Versions, NoInval, Inval, IdleLoop, Loop
<1>2. TypeOK
  BY <1>1 DEF Init, TypeOK
<1>3. CacheShape /\ Announced
  BY <1>1 DEF Init, CacheShape, LoopShape, InvalShape, StoreOp, Covers, Announced, Invalidators
<1>4. CleanSearches /\ Reachable
  BY <1>1 DEF Init, CleanSearches, Reachable, Live
<1>5. Counted = {}
  BY <1>1 DEF Init, Counted, Live
<1>6. Bounded
  BY <1>5, FS_EmptySet, CacheAssumption DEF Bounded
<1> QED
  BY <1>2, <1>3, <1>4, <1>6 DEF CacheInv

\* The invariant of the cache is inductive.
LEMMA CacheInvStep == CacheInv /\ [Next]_vars => CacheInv'
<1> SUFFICES ASSUME CacheInv, [Next]_vars PROVE CacheInv'
  OBVIOUS
<1>1. CASE SearchStep
  BY <1>1, HitStep, MissStep, RetrieveStep, StoreEntryStep, RespondStep, AddToIndexStep,
     RefreshIndexStep, AddToOrderStep, OverfullStep, EvictStep, StoreDoneStep, StoreErrorStep
  DEF SearchStep
<1>2. CASE InvalStep
  BY <1>2, ChangeStep, ChangeSilentlyStep, ClearKbStep, DeleteKbStep, ReadIndexStep,
     DropEntryStep, DropOrderStep, DropIndexStep, InvalErrorStep, ClearAllStep
  DEF InvalStep
<1>3. CASE Expire
  BY <1>3, ExpireEntryStep, ExpireIndexStep DEF Expire
<1>4. CASE UNCHANGED vars
  <2>1. UNCHANGED <<content, entry, index, timed, order, search, loop, inval, done, tainted>>
    BY <1>4 DEF vars, redis
  <2>2. Reachable' /\ Bounded'
    BY <2>1, RequestFrame DEF CacheInv
  <2>3. TypeOK' /\ CacheShape' /\ Announced'
    BY <2>1 DEF CacheInv, TypeOK, CacheShape, LoopShape, InvalShape, StoreOp, Covers, Announced
  <2>4. CleanSearches'
    BY <2>1 DEF CacheInv, CleanSearches, Clean, Invalidating
  <2> QED
    BY <2>2, <2>3, <2>4 DEF CacheInv
<1> QED
  BY <1>1, <1>2, <1>3, <1>4 DEF Next

\* The inductive invariant: an entry that met neither an invalidation nor an error
\* can be found by the next invalidation of its knowledge bases and by eviction
\* (set_entry, invalidate_kb, evict_if_needed).
THEOREM CacheInvHolds == Spec => []CacheInv
<1>1. Init => CacheInv
  BY CacheInvInit
<1>2. CacheInv /\ [Next]_vars => CacheInv'
  BY CacheInvStep
<1> QED
  BY <1>1, <1>2, PTL DEF Spec

\* A search answers with nothing older than an invalidation that was complete when
\* the request came in, the documented exceptions apart (lookup, store,
\* invalidate_kb).
THEOREM AnswersAreFreshHolds == Spec => []AnswersAreFresh
<1>1. CacheInv => AnswersAreFresh
  <2> SUFFICES ASSUME CacheInv, NEW s \in Searches, search[s].pc = "answered", search[s].clean,
                      NEW kb \in KbsOf[search[s].key]
               PROVE  search[s].seen[kb] >= search[s].since[kb]
    BY DEF AnswersAreFresh
  <2> QED
    BY DEF CacheInv, CleanSearches, Clean, CacheShape
<1> QED
  BY <1>1, CacheInvHolds, PTL

\* Between two stores no more than max_entries entries are cached, those cut off by
\* an invalidation or an error apart (evict_if_needed).
THEOREM EntriesBoundedHolds == Spec => []EntriesBounded
<1>1. CacheInv => EntriesBounded
  <2> SUFFICES ASSUME CacheInv, Idle
               PROVE  Cardinality({k \in Keys \ tainted : Live(k)}) <= MaxEntries
    BY DEF EntriesBounded
  <2>1. loop.key \notin Keys
    BY CacheAssumption DEF CacheInv, CacheShape, LoopShape, Idle
  <2>2. {k \in Keys \ tainted : Live(k)} = Counted
    BY <2>1 DEF Counted
  <2> QED
    BY <2>2 DEF CacheInv, Bounded
<1> QED
  BY <1>1, CacheInvHolds, PTL
=============================================================================
