------------------------------- MODULE Hierarchy -------------------------------
(***************************************************************************)
(* Hierarchical chunking and what search makes of it.  pipeline/steps/chunk  *)
(* builds a tree of chunks, embeds its leaves and stores the ancestors as    *)
(* parent_chunks rows; query/retriever._auto_merge_parents replaces groups   *)
(* of hits by their ancestor, one level and one read of the rows per round.  *)
(* A node is the path of child numbers that leads to it, as every level of   *)
(* HierarchicalNodeParser splits every node of the level above.  How many    *)
(* rounds there are is a setting of the moment, and the rows are those of     *)
(* the last ingest, which both may have changed since the leaves were stored. *)
(***************************************************************************)
EXTENDS Sorting, Sequences, SequencesExt

CONSTANTS
  Trees,       \* bound: the trees that documents are split into
  Versions,    \* bound: what a re-ingest makes of a document, as <<tree, surviving leaves>>
  Depths,      \* bound: len(chunk_size) - 1 of the current settings, or 0 without merging
  Plain,       \* a hit of a document without hierarchy; the parent_id of a root
  Thresholds   \* bound: merge_threshold, as <<numerator, denominator>>

VARIABLES
  tree,     \* the nodes of the document
  live,     \* its leaves that passed min_chunk_chars
  ratio,    \* merge_threshold
  hits,     \* the leaves that the vector store returned
  depth,    \* max_depth of the query
  active, settled,  \* the results, as sets: their order is left out
  left,     \* rounds that max_depth still allows; -1 before the query
  replaced  \* history: has a round read other rows than those of the leaves?

merge    == <<hits, depth, active, settled, left, replaced>>
hierVars == <<tree, live, ratio, merge>>

-----------------------------------------------------------------------------
(* chunk.py *)

Parent(n) == Front(n)
IsRoot(n) == Len(n) = 1
Ancestors(t) == t \cap {Parent(c) : c \in t}
LeavesOf(t) == t \ Ancestors(t)

\* A tree has the parents of its nodes, and every node above the last level is
\* split.  It has as many levels as chunk_size has sizes: two or more.
ASSUME TreesAreLevel == \A t \in Trees :
  /\ IsFiniteSet(t) /\ Plain \notin t
  /\ \A n \in t : n \in Seq(Nat) /\ n # <<>> /\ (IsRoot(n) \/ Parent(n) \in t)
  /\ \E k \in 1 .. Cardinality(t) :
       \A n \in t : Len(n) <= k + 1 /\ (Len(n) = k + 1 <=> n \in LeavesOf(t))

ASSUME HierBounds ==
  /\ Thresholds \subseteq Nat \X (Nat \ {0})
  /\ Depths \subseteq Nat
  /\ \A v \in Versions : v[1] \in Trees /\ v[2] \in (SUBSET LeavesOf(v[1])) \ {{}}

\* The order in which _id_func hands out "{doc_id}:{idx}": level by level.
\* Bound: the document was parsed into one text.
MadeBefore(m, n) ==
  \/ Len(m) < Len(n)
  \/ Len(m) = Len(n) /\ \E i \in DOMAIN m : m[i] < n[i] /\ \A k \in 1 .. i - 1 : m[k] = n[k]
Number(t, n) == Cardinality({m \in t : MadeBefore(m, n)})
Numbered(t, k) == CHOOSE n \in t : Number(t, n) = k

\* Direct children that survived: an ancestor always counts.
ChildCount(t, l, n) == Cardinality({c \in l \cup Ancestors(t) : Parent(c) = n})

\* The ancestors that did not lose every child.
Kept(t, l) == {n \in Ancestors(t) : ChildCount(t, l, n) > 0}

\* Mutant: the rows are stored leaf level first.
RowsUnsorted(t, l) ==
  Arranged(Kept(t, l), {p \in Kept(t, l) \X Kept(t, l) : MadeBefore(p[2], p[1])})

\* _build_parent_chunks: sorted by level, root first, which keeps the order in
\* which the ancestors of a level were made.
Rows(t, l) ==
  Arranged(Kept(t, l), {p \in Kept(t, l) \X Kept(t, l) : MadeBefore(p[1], p[2])})

\* The table after the batch was saved: child_count and parent_id by chunk_id.
Table(t, l) ==
  [n \in ToSet(Rows(t, l)) |->
     [kids |-> ChildCount(t, l, n), up |-> IF IsRoot(n) THEN Plain ELSE Parent(n)]]
Own == Table(tree, live)

-----------------------------------------------------------------------------
(* _auto_merge_parents *)

\* A result: the leaves it stands for, and the parent_chunk_id it is grouped by.
Hit(n) == [id |-> n, from |-> {n}, up |-> IF n = Plain THEN Plain ELSE Parent(n)]
Group(p) == {r \in active : r.up = p}
Merged(p, row) == [id |-> p, from |-> UNION {r.from : r \in Group(p)}, up |-> row.up]

Reaches(n, kids) == n * ratio[2] >= ratio[1] * kids
\* Mutant: an ancestor is compared with the leaves it stands for.
MergesLeaves(p, row) == Reaches(Cardinality(UNION {r.from : r \in Group(p)}), row.kids)

Merges(p, row) == Reaches(Cardinality(Group(p)), row.kids)

\* Mutant: a group below the threshold is dropped.
ReplaceOnly(p, row) == IF Merges(p, row) THEN {Merged(p, row)} ELSE {}

Replace(p, row) == IF Merges(p, row) THEN {Merged(p, row)} ELSE Group(p)

\* A query returns some of the leaves, and perhaps a hit of another document.
\* max_depth comes from the settings of the moment, not from the document.
Retrieve ==
  /\ left = -1
  /\ \E found \in (SUBSET live) \ {{}}, other \in SUBSET {Plain} :
       hits' = found \cup other
  /\ active' = {Hit(n) : n \in hits'}
  /\ depth' \in Depths
  /\ left' = depth'
  /\ UNCHANGED <<tree, live, ratio, settled, replaced>>

\* The rows of another version of the document under the ids of this one: the
\* same number is another node there.
Seen(v) ==
  LET there   == v[1]
      table   == Table(there, v[2])
      Then(n) == Numbered(there, Number(tree, n))
      Here(m) == IF m = Plain THEN Plain ELSE Numbered(tree, Number(there, m))
      ids     == {n \in tree : Number(tree, n) < Cardinality(there) /\ Then(n) \in DOMAIN table}
  IN [n \in ids |-> [table[Then(n)] EXCEPT !.up = Here(@)]]

Deleted == [n \in {} |-> n]

\* One round.  Before it reads the rows a re-ingest may have deleted them, and may
\* have saved its own.
Round ==
  /\ left > 0
  /\ \E rows \in {Own, Deleted} \cup {Seen(v) : v \in Versions} :
       LET asked   == {r.up : r \in active}
           found   == asked \cap DOMAIN rows
           Part(f) == [p \in asked \cap DOMAIN f |-> f[p]]
       IN /\ settled' = settled \cup {r \in active : r.up \notin found}
          /\ active' = UNION {Replace(p, rows[p]) : p \in found}
          /\ left' = IF \E p \in found : Merges(p, rows[p]) THEN left - 1 ELSE 0
          /\ replaced' = (replaced \/ Part(rows) # Part(Own))
  /\ UNCHANGED <<tree, live, ratio, hits, depth>>

HierNext == Retrieve \/ Round

HierInit ==
  /\ tree \in Trees
  /\ live \in (SUBSET LeavesOf(tree)) \ {{}}
  /\ ratio \in Thresholds
  /\ hits = {} /\ active = {} /\ settled = {}
  /\ depth = 0 /\ left = -1 /\ replaced = FALSE

Results == settled \cup active

-----------------------------------------------------------------------------
\* Every row follows the row its parent_id refers to, in the batch that
\* save_parent_chunks inserts: chunk.py drops rows without surviving children,
\* and the foreign key refuses a row whose parent is missing.
RowsClosed ==
  LET rows == Rows(tree, live)
  IN \A i \in DOMAIN rows : IsRoot(rows[i]) \/ \E k \in 1 .. i - 1 : rows[k] = Parent(rows[i])

\* Merging neither loses a hit nor answers it twice, however many rounds there
\* are and whatever rows they read: the document's own, none, or those of
\* another version, whose ids are the same and whose tree is not.
HitsKept ==
  /\ left >= 0 => hits = UNION {r.from : r \in Results}
  /\ \A r, q \in Results : r # q => r.from \cap q.from = {}

\* What the rounds compute, bottom up: a leaf is whole when it was hit, an
\* ancestor of at most max_depth levels above when some of its children are
\* whole, and enough of them.
LeafLevel == Len(CHOOSE n \in LeavesOf(tree) : TRUE)
WholeNodes ==
  LET rows == Own
      whole[n \in tree] ==
        IF n \in LeavesOf(tree) THEN n \in hits
        ELSE LET kids == {c \in tree : Parent(c) = n /\ whole[c]}
             IN /\ n \in DOMAIN rows /\ Len(n) + depth >= LeafLevel
                /\ kids # {} /\ Reaches(Cardinality(kids), rows[n].kids)
  IN {n \in tree : whole[n]}

\* The rounds, which stop early and group one level at a time, answer the whole
\* nodes that have no whole parent, unless they read rows of another ingest.
MergesToWhole ==
  LET whole == WholeNodes IN
  left = 0 /\ ~replaced =>
    {r.id : r \in Results} \ {Plain} = {n \in whole : IsRoot(n) \/ Parent(n) \notin whole}
=============================================================================
