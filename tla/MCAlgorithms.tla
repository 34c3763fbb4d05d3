------------------------------ MODULE MCAlgorithms ------------------------------
(***************************************************************************)
(* The five small modules of search and indexing side by side: a behaviour   *)
(* runs one of them, part, and leaves the variables of the others alone.      *)
(***************************************************************************)
EXTENDS Hierarchy, WebCrawl, NearDup, Retrieval, Overrides, TLC

CONSTANTS
  Parts,  \* the modules of this run
  u1, u2, u3, u4, s1, s2

VARIABLE part

-----------------------------------------------------------------------------
(* Hierarchy: one to four levels above the leaves, one tree with two roots; the *)
(* settings allow fewer rounds than the tree has levels, as many, and more.     *)

Tree(c) == {<<1>>} \cup {<<1, i>> : i \in DOMAIN c}
                   \cup UNION {{<<1, i, k>> : k \in 1 .. c[i]} : i \in DOMAIN c}
Flat == {<<1>>, <<1, 1>>, <<1, 2>>, <<1, 3>>}
SmallTrees == {Tree(c) : c \in {<<2>>, <<1, 2>>, <<2, 2>>, <<3, 1>>}}
              \cup {Flat,
                    {<<1>>, <<2>>, <<1, 1>>, <<2, 1>>, <<2, 2>>},
                    {<<1>>, <<1, 1>>, <<1, 1, 1>>, <<1, 1, 1, 1>>, <<1, 1, 1, 1, 1>>, <<1, 1, 1, 1, 2>>}}
SomeDepths == {0, 1, 2, 5}
SomeVersions == {<<Tree(<<1, 2>>), LeavesOf(Tree(<<1, 2>>))>>,
                 <<{<<1>>, <<2>>, <<1, 1>>, <<2, 1>>, <<2, 2>>}, {<<2, 1>>, <<2, 2>>}>>}
OtherDocument == <<0>>
SomeThresholds == {<<0, 1>>, <<1, 2>>, <<2, 3>>, <<1, 1>>}

(* WebCrawl: four pages, the first two seeds, one of them configured twice. *)

SomeSeeds == <<u1, u2, u1>>
SomeSites ==
  {[links |-> (u1 :> a @@ u2 :> b @@ u3 :> c @@ u4 :> {u1, u3}), scope |-> Urls \ o, broken |-> x,
    depth |-> d, maxPages |-> m, maxQueue |-> q] :
     a \in SUBSET {u3, u4}, b \in {{u3}, {u1, u4}}, c \in {{}, {u4}, {u2}}, o \in {{}, {u2}, {u3}},
     x \in {{}, {u3}}, d \in 1 .. 2, m \in {2, 4}, q \in {1, 4}}

(* NearDup: two texts of one body and different titles, a third close to them. *)

File(h, s, t, p) == [hash |-> h, sig |-> s, title |-> t, parts |-> p]
SomeTexts ==
  {File({}, [p \in 0 .. 3 |-> 0], <<1, 1>>, {1, 2, 3}),
   File({1}, [p \in 0 .. 3 |-> 0], <<1, 2>>, {1, 2, 3}),
   File({1, 3, 4}, [p \in 0 .. 3 |-> IF p = 0 THEN 1 ELSE 0], <<2, 1>>, {1, 2, 3, 4})}
Dates == [d \in Docs |-> d - 1]
\* Bound: not both kinds of exemption in one behaviour.
FewExemptions == ~(raced /\ lost)
\* The text of a document at rest without an index is replaced before it is read,
\* and duplicate_of is read of outdated documents only.
\* The variables of modules that do not run keep their values and are left out.
Read ==
  IF part = "dedup"
  THEN <<part, status, bands, sigs, chunks, raced, lost,
         [d \in Docs |-> IF status[d] \in {"running", "new", "indexed"} THEN text[d] ELSE 0],
         [d \in Docs |-> IF status[d] = "outdated" THEN twinOf[d] ELSE 0]>>
  ELSE <<part, hierVars, crawlVars, retrievalVars, overrideVars>>

(* Retrieval: one knowledge base with more chunks than top_k leaves, two lists. *)

Piece(k, d, n) == [kb |-> k, doc |-> d, no |-> n]
SomeChunks == {Piece("a", "d1", 1), Piece("a", "d1", 2), Piece("a", "d2", 3),
               Piece("b", "d3", 4), Piece("b", "d4", 5)}
SomeKbLists == {<<"a">>, <<"a", "b">>, <<"b", "a">>, <<"a", "a">>}

(* Overrides: chunk_overlap is at most 15 % of chunk_size. *)

Both(size, overlap) == [k \in Keys |-> IF k = "size" THEN size ELSE overlap]
SomeGlobals == {Both(1000, 100), Both(500, 50)}
SomeBodies == [{"size"} -> {Null, 500, 1000, 2000}] \cup [{"overlap"} -> {Null, 75, 150, 300}]
              \cup [Keys -> {Null, 75, 150, 500, 1000, 2000}]

-----------------------------------------------------------------------------
\* A module that does not run is in one of its initial states.
Init ==
  /\ part \in Parts
  /\ HierInit
  /\ part = "hierarchy" \/ <<tree, live, ratio>> = <<Flat, LeavesOf(Flat), <<1, 2>>>>
  /\ CrawlInit
  /\ part = "crawl" \/ site = CHOOSE s \in SomeSites : TRUE
  /\ DedupInit
  /\ part = "dedup" \/ \A d \in Docs : text[d] = CHOOSE t \in SomeTexts : TRUE
  /\ RetrievalInit
  /\ part = "retrieval" \/ \A c \in Chunks : score[c] = 1
  /\ OverridesInit
  /\ part = "overrides" \/ base = Both(500, 50)

Next ==
  /\ UNCHANGED part
  /\ \/ part = "hierarchy" /\ HierNext /\ UNCHANGED <<crawlVars, dedupVars, retrievalVars, overrideVars>>
     \/ part = "crawl" /\ CrawlNext /\ UNCHANGED <<hierVars, dedupVars, retrievalVars, overrideVars>>
     \/ part = "dedup" /\ DedupNext /\ UNCHANGED <<hierVars, crawlVars, retrievalVars, overrideVars>>
     \/ part = "retrieval" /\ RetrievalNext /\ UNCHANGED <<hierVars, crawlVars, dedupVars, overrideVars>>
     \/ part = "overrides" /\ OverridesNext /\ UNCHANGED <<hierVars, crawlVars, dedupVars, retrievalVars>>

Spec == Init /\ [][Next]_<<part, hierVars, crawlVars, dedupVars, retrievalVars, overrideVars>>
=============================================================================
