------------------------------- MODULE Retrieval -------------------------------
(***************************************************************************)
(* One search after its cache lookup: query/retriever.query, the rank fusion  *)
(* of query/merger and the fallback of query/reranker.  A knowledge base is    *)
(* searched in a thread of its own.  Merging children into parents is module   *)
(* Hierarchy; what is done with the response, module SearchCache.              *)
(***************************************************************************)
EXTENDS Sorting, Sequences, SequencesExt

CONSTANTS
  Chunks,    \* records [kb, doc, no]
  KbLists,   \* bound: kb_ids of a request, sequences in which one may occur twice
  Scores,    \* bound: what the vector store may answer
  TopK, TopN, RrfK,
  Unit       \* scores of rank fusion are integers: parts of 1/Unit

\* A knowledge base does not number two chunks alike, and Unit is fine enough to
\* tell the places of a list apart, as 1 / (k + rank) does.
ASSUME RetrievalBounds ==
  /\ IsFiniteSet(Chunks) /\ \A c \in Chunks : c.no \in Int
  /\ \A c, d \in Chunks : c.kb = d.kb /\ c.no = d.no => c = d
  /\ \A l \in KbLists : l \in Seq(ToSet(l))
  /\ Scores \subseteq Int /\ TopK \in Nat /\ TopN \in Nat /\ RrfK \in Nat /\ Unit \in Nat
  /\ \A r, s \in 1 .. TopK : r < s => Unit \div (RrfK + r) > Unit \div (RrfK + s)

VARIABLES
  score,      \* the similarity of each chunk to the query
  rowed,      \* documents with a row
  vectors,    \* chunks in the vector store
  request,    \* [kbs, mode]
  lists,      \* by place in kb_ids: the results of that search; not in the domain before
  merged, kept, answer,  \* results, as sequences of [id, score]
  purging,    \* orphaned documents still to be purged
  asking      \* "new", "query", "filter", "rerank", "done", "fallback", "error"
results == <<lists, merged, kept, answer>>
retrievalVars == <<score, rowed, vectors, request, results, purging, asking>>

ChunkDocs == {c.doc : c \in Chunks}
Scored(c, s) == [id |-> c, score |-> s]

-----------------------------------------------------------------------------
(* Orders: that of Qdrant, and that of sorted(), which is stable. *)

Cut(s, n) == SubSeq(s, 1, IF Len(s) < n THEN Len(s) ELSE n)

Above(c, d) == score[c] > score[d] \/ (score[c] = score[d] /\ c.no < d.no)
\* min_score is left out: it only shortens a list.
Ranked(kb) ==
  LET here == {c \in vectors : c.kb = kb}
      all  == Arranged(here, {p \in here \X here : Above(p[1], p[2])})
  IN Cut([i \in DOMAIN all |-> Scored(all[i], score[all[i]])], TopK)

\* A result of some lists has a place, <<list, rank>>; in a list no id is repeated.
Places(ls) == UNION {{i} \X (DOMAIN ls[i]) : i \in DOMAIN ls}
At(ls, p) == ls[p[1]][p[2]]
Earlier(p, q) == p[1] < q[1] \/ (p[1] = q[1] /\ p[2] < q[2])

\* The results at some places by the scores s they are given, best first, equals in
\* their order.
Order(s) ==
  LET places == DOMAIN s
  IN Arranged(places, {p \in places \X places :
                         s[p[1]] > s[p[2]] \/ (s[p[1]] = s[p[2]] /\ Earlier(p[1], p[2]))})
Sorted(ls, s) == LET order == Order(s) IN [i \in DOMAIN order |-> Scored(At(ls, order[i]).id, s[order[i]])]
ByScore(ls) == Sorted(ls, [p \in Places(ls) |-> At(ls, p).score])

-----------------------------------------------------------------------------
(* rrf_merge *)

Share(l, c) == IF \E r \in DOMAIN l : l[r].id = c
               THEN Unit \div (RrfK + (CHOOSE r \in DOMAIN l : l[r].id = c)) ELSE 0
Fused(ls, c) == LET sum[i \in 0 .. Len(ls)] == IF i = 0 THEN 0 ELSE sum[i - 1] + Share(ls[i], c)
                IN sum[Len(ls)]
Firsts(ls) == {p \in Places(ls) : \A q \in Places(ls) : Earlier(q, p) => At(ls, q).id # At(ls, p).id}
FusedScores(ls) == [p \in Firsts(ls) |-> Fused(ls, At(ls, p).id)]

\* Mutant: the results keep the scores of their own search.
FusedUnscored(ls) == LET order == Order(FusedScores(ls)) IN [i \in DOMAIN order |-> At(ls, order[i])]
\* Mutant: ranks go on counting from one list to the next.
FusedInSequence(ls) ==
  Sorted(ls, [p \in Places(ls) |-> Unit \div (RrfK + 1 + Cardinality({q \in Places(ls) : Earlier(q, p)}))])

RrfMerge(ls) == Sorted(ls, FusedScores(ls))

-----------------------------------------------------------------------------
Ask ==
  /\ asking = "new"
  /\ \E kbs \in KbLists, mode \in {"hybrid", "similarity"} : request' = [kbs |-> kbs, mode |-> mode]
  /\ asking' = "query"
  /\ UNCHANGED <<score, rowed, vectors, results, purging>>

Unanswered == IF asking = "query" THEN DOMAIN request.kbs \ DOMAIN lists ELSE {}
Record(i, l) == lists' = [j \in DOMAIN lists \cup {i} |-> IF j = i THEN l ELSE lists[j]]

QueryKb(i) ==
  /\ Record(i, Ranked(request.kbs[i]))
  /\ UNCHANGED <<score, rowed, vectors, request, merged, kept, answer, purging, asking>>
\* gather(return_exceptions): the knowledge base contributes nothing.
QueryKbFails(i) ==
  /\ Record(i, <<>>)
  /\ UNCHANGED <<score, rowed, vectors, request, merged, kept, answer, purging, asking>>

\* Mutant: each knowledge base gets its share of the places.
MergeShares ==
  /\ asking = "query" /\ Unanswered = {}
  /\ LET ls == [i \in DOMAIN lists |-> Cut(lists[i], TopK \div Len(lists))]
     IN merged' = Cut(IF request.mode = "similarity" THEN ByScore(ls) ELSE RrfMerge(ls), TopK)
  /\ asking' = "filter"
  /\ UNCHANGED <<score, rowed, vectors, request, lists, kept, answer, purging>>

Merge ==
  /\ asking = "query" /\ Unanswered = {}
  /\ merged' = Cut(IF request.mode = "similarity" THEN ByScore(lists) ELSE RrfMerge(lists), TopK)
  /\ asking' = "filter"
  /\ UNCHANGED <<score, rowed, vectors, request, lists, kept, answer, purging>>

\* _filter_orphaned_chunks reads the rows once and then purges what has none.
Filter ==
  /\ asking = "filter"
  /\ LET good   == {i \in DOMAIN merged : merged[i].id.doc \in rowed}
         places == Arranged(good, {p \in good \X good : p[1] < p[2]})
     IN kept' = [i \in DOMAIN places |-> merged[places[i]]]
  /\ purging' = {<<r.id.kb, r.id.doc>> : r \in {s \in ToSet(merged) : s.id.doc \notin rowed}}
  /\ asking' = "rerank"
  /\ UNCHANGED <<score, rowed, vectors, request, lists, merged, answer>>

Purge(kb, doc) ==
  /\ \/ vectors' = {c \in vectors : c.kb # kb \/ c.doc # doc}
     \/ UNCHANGED vectors  \* ignored
  /\ purging' = purging \ {<<kb, doc>>}
  /\ UNCHANGED <<score, rowed, request, results, asking>>

\* The reranker answers with indices into the list.
Rerank ==
  /\ asking = "rerank" /\ purging = {}
  /\ \E n \in 0 .. TopN : \E pick \in [1 .. n -> DOMAIN kept] :
       IsInjective(pick) /\ answer' = [i \in 1 .. n |-> kept[pick[i]]]
  /\ asking' = "done"
  /\ UNCHANGED <<score, rowed, vectors, request, lists, merged, kept, purging>>
NoRerank ==
  /\ asking = "rerank" /\ purging = {}
  /\ answer' = kept /\ asking' = "done"
  /\ UNCHANGED <<score, rowed, vectors, request, lists, merged, kept, purging>>
RerankFails ==
  /\ asking = "rerank" /\ purging = {} /\ kept # <<>>
  /\ \/ answer' = Cut(ByScore(<<kept>>), TopN) /\ asking' = "fallback"
     \/ UNCHANGED answer /\ asking' = "error"  \* fallback_on_error is off
  /\ UNCHANGED <<score, rowed, vectors, request, lists, merged, kept, purging>>

\* A delete removes the row while, or after, its chunks could not be removed.
LoseRow(d) ==
  /\ asking \in {"query", "filter"}
  /\ rowed' = rowed \ {d}
  /\ UNCHANGED <<score, vectors, request, results, purging, asking>>

RetrievalNext ==
  \/ Ask \/ Merge \/ Filter \/ Rerank \/ NoRerank \/ RerankFails
  \/ \E i \in Unanswered : QueryKb(i) \/ QueryKbFails(i)
  \/ \E p \in purging : Purge(p[1], p[2])
  \/ \E d \in rowed : LoseRow(d)

RetrievalInit ==
  /\ score \in [Chunks -> Scores] /\ rowed = ChunkDocs /\ vectors = Chunks
  /\ request = [kbs |-> <<>>, mode |-> "hybrid"]
  /\ lists = <<>> /\ merged = <<>> /\ kept = <<>> /\ answer = <<>>
  /\ purging = {} /\ asking = "new"

-----------------------------------------------------------------------------
Found == UNION {ToSet(lists[i]) : i \in DOMAIN lists}
Once == IsInjective(request.kbs)
Place(c) == CHOOSE p \in (1 .. TopK) \X DOMAIN lists :
              p[1] \in DOMAIN lists[p[2]] /\ lists[p[2]][p[1]].id = c

\* Fusing the lists of different knowledge bases, which share no chunk, takes them
\* in turn: all first places in the order of kb_ids, then all second ones (merger.py:17).
FusionTakesTurns ==
  merged # <<>> /\ request.mode = "hybrid" /\ Once =>
    \A i \in 1 .. Len(merged) - 1 :
      LET p == Place(merged[i].id) q == Place(merged[i + 1].id)
      IN p[1] < q[1] \/ (p[1] = q[1] /\ p[2] < q[2])

\* What a search has found and not merged is no better than top_k other results,
\* and in hybrid mode, or with no knowledge base named twice, nothing is merged twice.
LeftOutIsOutranked ==
  LET ids == {r.id : r \in ToSet(merged)} IN
  asking \notin {"new", "query"} =>
    /\ \A r \in Found : r.id \notin ids =>
         /\ Len(merged) = TopK
         /\ request.mode = "similarity" => \A m \in ToSet(merged) : m.score >= r.score
    /\ request.mode = "hybrid" \/ Once => Cardinality(ids) = Len(merged)

\* Without its reranker a search answers with the first results it would have
\* answered without reranking (reranker.py:64: in the order of the fused scores).
FallbackIsPrefix == asking = "fallback" => answer = Cut(kept, TopN)
=============================================================================
