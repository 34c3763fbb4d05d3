---------------------------- MODULE AlgorithmProofs ----------------------------
(***************************************************************************)
(* Theorems about the small modules of search, indexing and settings, each    *)
(* about the specification of one module alone: overrides that were accepted   *)
(* together resolve, merging keeps the hits and ends at the nodes that are     *)
(* whole, rows are stored after their parents, the bands of SimHash miss no    *)
(* document that is close, of twins one leaves the index, from a retired      *)
(* document duplicate_of leads to one that lives, a crawl fetches the pages    *)
(* within its depth, each once and at its distance from the seeds, and what a *)
(* search leaves out of its answer is no better than what it answers with.    *)
(***************************************************************************)
EXTENDS Hierarchy, NearDup, Overrides, Retrieval, WebCrawl, FiniteSetTheorems, SequenceTheorems, WellFoundedInduction, TLAPS

HierSpec == HierInit /\ [][HierNext]_hierVars
DedupSpec == DedupInit /\ [][DedupNext]_dedupVars
OverridesSpec == OverridesInit /\ [][OverridesNext]_overrideVars
RetrievalSpec == RetrievalInit /\ [][RetrievalNext]_retrievalVars
CrawlSpec == CrawlInit /\ [][CrawlNext]_crawlVars

-----------------------------------------------------------------------------
(* Induction and sequences *)

\* Every set of numbers has a least one.
LEMMA LeastNumber ==
  ASSUME NEW T \in SUBSET Nat, T # {}
  PROVE  \E n \in T : \A m \in T : n <= m
<1> DEFINE R == OpToRel(<, Nat)
<1>1. IsWellFoundedOn(R, Nat) BY NatLessThanWellFounded
<1> HIDE DEF R
<1>2. PICK n \in T : \A m \in T : ~(<<m, n>> \in R) BY <1>1, WFMin
<1>3. ASSUME NEW m \in T PROVE n <= m
  <2>1. ~(m < n) BY <1>2 DEF R, OpToRel
  <2> QED BY <2>1
<1> QED BY <1>3

\* Induction: a set with 0 and with the successor of each of its numbers has all.
LEMMA NumbersByStep ==
  ASSUME NEW S, 0 \in S, \A n \in Nat : n \in S => n + 1 \in S
  PROVE  Nat \subseteq S
<1> SUFFICES ASSUME Nat \ S # {} PROVE FALSE OBVIOUS
<1>1. PICK n \in Nat \ S : \A m \in Nat \ S : n <= m BY LeastNumber
<1>2. n # 0 /\ n - 1 \in Nat /\ n - 1 \in S BY <1>1
<1> QED BY <1>1, <1>2

\* The sequence of a finite set has its elements, and no others.
LEMMA SequenceOfSet ==
  ASSUME NEW S, IsFiniteSet(S)
  PROVE  /\ SetToSeq(S) \in Seq(S)
         /\ \A x \in S : \E i \in DOMAIN SetToSeq(S) : SetToSeq(S)[i] = x
<1> DEFINE n == Cardinality(S)
           g == SetToSeq(S)
<1>1. n \in Nat /\ ExistsBijection(1 .. n, S) BY FS_CardinalityType
<1>2. \E f \in [1 .. n -> S] : IsInjective(f) BY <1>1 DEF ExistsBijection, Bijection, Injection
<1>3. g \in [1 .. n -> S] /\ IsInjective(g) BY <1>2 DEF SetToSeq
<1> HIDE DEF g
<1>4. g \in Injection(1 .. n, S) BY <1>3 DEF Injection
<1>5. Cardinality(1 .. n) = n BY <1>1, FS_Interval
<1> HIDE DEF n
<1>6. g \in Surjection(1 .. n, S) BY <1>4, <1>5, FS_Injection DEF n
<1>7. DOMAIN g = 1 .. n /\ g \in Seq(S) BY <1>1, <1>3
<1> QED BY <1>6, <1>7 DEF g, Surjection

\* The numbers up to n are n.
LEMMA UpToCardinality ==
  ASSUME NEW n \in Nat
  PROVE  IsFiniteSet(1 .. n) /\ Cardinality(1 .. n) = n
<1>1. IsFiniteSet(1 .. n) /\ Cardinality(1 .. n) = IF 1 > n THEN 0 ELSE n - 1 + 1 BY FS_Interval
<1>2. (IF 1 > n THEN 0 ELSE n - 1 + 1) = n OBVIOUS
<1> QED BY <1>1, <1>2

\* So are those below n.
LEMMA BelowCardinality ==
  ASSUME NEW n \in Nat
  PROVE  IsFiniteSet(0 .. n - 1) /\ Cardinality(0 .. n - 1) = n
<1>1. 0 \in Int /\ n - 1 \in Int OBVIOUS
<1>2. IsFiniteSet(0 .. n - 1) /\ Cardinality(0 .. n - 1) = IF 0 > n - 1 THEN 0 ELSE (n - 1) - 0 + 1
  BY <1>1, FS_Interval
<1>3. (IF 0 > n - 1 THEN 0 ELSE (n - 1) - 0 + 1) = n OBVIOUS
<1> QED BY <1>2, <1>3

\* A finite set in a strict total order: the element with i - 1 others before it is the
\* i-th, so each has its place and the order is that of the places.
LEMMA ArrangedIs ==
  ASSUME NEW S, IsFiniteSet(S), NEW R,
         \A x \in S : ~(<<x, x>> \in R),
         \A x, y \in S : x = y \/ <<x, y>> \in R \/ <<y, x>> \in R,
         \A x, y, z \in S : <<x, y>> \in R /\ <<y, z>> \in R => <<x, z>> \in R
  PROVE  /\ Cardinality(S) \in Nat /\ DOMAIN Arranged(S, R) = 1 .. Cardinality(S)
         /\ \A i \in 1 .. Cardinality(S) : Arranged(S, R)[i] \in S
         /\ \A x \in S : LET i == Cardinality({y \in S : <<y, x>> \in R}) + 1
                         IN i \in 1 .. Cardinality(S) /\ Arranged(S, R)[i] = x
         /\ \A i, j \in 1 .. Cardinality(S) : i < j => <<Arranged(S, R)[i], Arranged(S, R)[j]>> \in R
<1> DEFINE n == Cardinality(S)
           Before(x) == {y \in S : <<y, x>> \in R}
           rank(x) == Cardinality(Before(x))
           f == Arranged(S, R)
<1>1. n \in Nat BY FS_CardinalityType
<1>2. \A x \in S : IsFiniteSet(Before(x)) /\ rank(x) \in 0 .. n - 1
  <2> SUFFICES ASSUME NEW x \in S PROVE IsFiniteSet(Before(x)) /\ rank(x) \in 0 .. n - 1 OBVIOUS
  <2>1. Before(x) \in SUBSET S /\ x \notin Before(x) OBVIOUS
  <2> HIDE DEF Before
  <2>2. IsFiniteSet(Before(x)) /\ rank(x) <= n /\ (n = rank(x) => S = Before(x)) BY <2>1, FS_Subset
  <2>3. rank(x) \in Nat /\ rank(x) # n BY <2>1, <2>2, FS_CardinalityType
  <2> QED BY <1>1, <2>2, <2>3
<1>3. ASSUME NEW x \in S, NEW y \in S, <<x, y>> \in R PROVE rank(x) < rank(y)
  <2>1. Before(x) \in SUBSET Before(y) /\ x \in Before(y) /\ x \notin Before(x) BY <1>3
  <2>2. IsFiniteSet(Before(y)) /\ rank(x) \in Int /\ rank(y) \in Int BY <1>2
  <2> HIDE DEF Before
  <2>3. rank(x) <= rank(y) /\ (rank(y) = rank(x) => Before(y) = Before(x)) BY <2>1, <2>2, FS_Subset
  <2>4. rank(x) # rank(y) BY <2>1, <2>3
  <2> HIDE DEF rank
  <2>5. \A a, b \in Int : a <= b /\ a # b => a < b OBVIOUS
  <2> QED BY <2>2, <2>3, <2>4, <2>5
<1>4. \A x \in S : rank(x) \in Nat /\ rank(x) + 1 \in 1 .. n /\ (rank(x) + 1) - 1 = rank(x)
  <2> SUFFICES ASSUME NEW x \in S PROVE rank(x) \in Nat /\ rank(x) + 1 \in 1 .. n /\ (rank(x) + 1) - 1 = rank(x)
    OBVIOUS
  <2>1. rank(x) \in 0 .. n - 1 BY <1>2
  <2>2. \A m \in Nat : \A k \in 0 .. m - 1 : k \in Nat /\ k + 1 \in 1 .. m /\ (k + 1) - 1 = k OBVIOUS
  <2> HIDE DEF rank, n
  <2> QED BY <1>1, <2>1, <2>2
<1> HIDE DEF rank
<1>5. \A x, y \in S : rank(x) = rank(y) => x = y
  <2> SUFFICES ASSUME NEW x \in S, NEW y \in S, x # y PROVE rank(x) # rank(y) OBVIOUS
  <2>1. rank(x) < rank(y) \/ rank(y) < rank(x) BY <1>3
  <2>2. rank(x) \in Int /\ rank(y) \in Int BY <1>4
  <2> QED BY <2>1, <2>2
<1>6. \A i \in 1 .. n : \E x \in S : rank(x) = i - 1
  <2> DEFINE g == [x \in S |-> rank(x)]
  <2> HIDE DEF n
  <2>1. g \in [S -> 0 .. n - 1] BY <1>2
  <2>2. IsInjective(g) BY <1>5 DEF IsInjective
  <2>3. g \in Injection(S, 0 .. n - 1) BY <2>1, <2>2 DEF Injection
  <2>4. IsFiniteSet(0 .. n - 1) /\ Cardinality(0 .. n - 1) = n BY <1>1, BelowCardinality
  <2> HIDE DEF g
  <2>5. g \in Surjection(S, 0 .. n - 1) BY <2>3, <2>4, FS_Injection DEF n
  <2>6. ASSUME NEW i \in 1 .. n PROVE \E x \in S : rank(x) = i - 1
    <3>1. i - 1 \in 0 .. n - 1 BY <1>1
    <3>2. \E x \in S : g[x] = i - 1 BY <2>5, <3>1 DEF Surjection
    <3> QED BY <3>2 DEF g
  <2> QED BY <2>6
<1>7. f = [i \in 1 .. n |-> CHOOSE x \in S : rank(x) = i - 1] BY DEF Arranged, rank
<1> HIDE DEF f, n
<1>8. DOMAIN f = 1 .. n /\ \A i \in 1 .. n : f[i] \in S /\ rank(f[i]) = i - 1 BY <1>6, <1>7
<1>9. ASSUME NEW x \in S PROVE rank(x) + 1 \in 1 .. n /\ f[rank(x) + 1] = x
  <2>1. rank(x) + 1 \in 1 .. n /\ (rank(x) + 1) - 1 = rank(x) BY <1>4
  <2>2. f[rank(x) + 1] \in S /\ rank(f[rank(x) + 1]) = rank(x) BY <1>8, <2>1
  <2> QED BY <1>5, <2>1, <2>2
<1>10. ASSUME NEW i \in 1 .. n, NEW j \in 1 .. n, i < j PROVE <<f[i], f[j]>> \in R
  <2>1. f[i] \in S /\ f[j] \in S /\ rank(f[i]) = i - 1 /\ rank(f[j]) = j - 1 BY <1>8
  <2>2. f[i] # f[j] BY <1>10, <2>1
  <2>3. ~(<<f[j], f[i]>> \in R)
    <3> SUFFICES ASSUME <<f[j], f[i]>> \in R PROVE FALSE OBVIOUS
    <3>1. rank(f[j]) < rank(f[i]) BY <1>3, <2>1
    <3> QED BY <1>10, <2>1, <3>1
  <2> QED BY <2>1, <2>2, <2>3
<1> QED BY <1>1, <1>8, <1>9, <1>10 DEF f, n, rank

\* The first n of a sequence.
LEMMA CutIs ==
  ASSUME NEW T, NEW s \in Seq(T), NEW n \in Nat
  PROVE  LET m == IF Len(s) < n THEN Len(s) ELSE n
         IN /\ Cut(s, n) \in Seq(T) /\ Len(Cut(s, n)) = m /\ m \in Nat /\ DOMAIN Cut(s, n) = 1 .. m
            /\ \A i \in 1 .. m : Cut(s, n)[i] = s[i] /\ i \in DOMAIN s
<1> DEFINE m == IF Len(s) < n THEN Len(s) ELSE n
           c == SubSeq(s, 1, m)
<1>1. Len(s) \in Nat /\ DOMAIN s = 1 .. Len(s) BY LenProperties
<1>2. m \in Nat /\ m <= Len(s) BY <1>1
<1> HIDE DEF m
<1>3. 1 \in Int /\ m \in Int /\ \A i \in 1 .. m : s[i] \in T /\ i \in DOMAIN s BY <1>1, <1>2, ElementOfSeq
<1>4. /\ c \in Seq(T) /\ Len(c) = IF 1 <= m THEN m - 1 + 1 ELSE 0
      /\ \A i \in 1 .. m - 1 + 1 : c[i] = s[1 + i - 1]
  BY <1>3, SubSeqProperties
<1> HIDE DEF c
<1>5. Len(c) = m /\ \A i \in 1 .. m : c[i] = s[i] BY <1>2, <1>4
<1>6. DOMAIN c = 1 .. m BY <1>4, <1>5, LenProperties
<1>7. Cut(s, n) = c BY DEF Cut, c, m
<1> QED BY <1>2, <1>3, <1>4, <1>5, <1>6, <1>7 DEF m

-----------------------------------------------------------------------------
(* Overrides *)

\* Server s is alone in writing the body b: the keys it has written are stored,
\* and the others have no row.
Writing(s, b) ==
  /\ \A r \in Servers \ {s} : todo[r] = <<>>
  /\ Accepts(b)
  /\ DOMAIN todo[s] \subseteq DOMAIN b
  /\ \A k \in DOMAIN todo[s] : todo[s][k] = b[k]
  /\ rows = [k \in Keys |-> IF k \in DOMAIN b \ DOMAIN todo[s] /\ b[k] # Null THEN b[k] ELSE Missing]

\* Unless requests have met, nothing is being written and the rows resolve, or
\* one body is being written onto no rows.
OverridesInv ==
  /\ base \in Globals
  /\ DOMAIN todo = Servers
  /\ \/ mixed
     \/ ~Patching /\ Resolves
     \/ \E s \in Servers, b \in Bodies : Writing(s, b)

\* Without rows the settings are the global ones, which validate.
LEMMA NoRowsResolve ==
  ASSUME base \in Globals, rows = NoRows
  PROVE  Resolves
<1>1. Valid(base) BY OverrideBounds
<1>2. \A k \in Keys : Apply(rows)[k] = base[k] BY DEF Apply, NoRows
<1>3. "size" \in Keys /\ "overlap" \in Keys BY DEF Keys
<1> QED BY <1>1, <1>2, <1>3 DEF Resolves, Valid

\* Rows that hold the values of an accepted body, and no other, resolve.
LEMMA AcceptedResolve ==
  ASSUME NEW b \in Bodies, Accepts(b),
         rows = [k \in Keys |-> IF k \in DOMAIN b /\ b[k] # Null THEN b[k] ELSE Missing]
  PROVE  Resolves
<1>1. \A k \in DOMAIN b : b[k] # Missing BY OverrideBounds
<1>2. DOMAIN rows = Keys OBVIOUS
<1>3. Apply(rows) = Apply(NonNull(b)) BY <1>1, <1>2 DEF Apply, NonNull
<1> QED BY <1>3 DEF Resolves, Accepts

\* Every step of the endpoints keeps the invariant.
LEMMA OverridesInvKept ==
  ASSUME OverridesInv, OverridesNext
  PROVE  OverridesInv'
<1>1. ASSUME NEW s \in Servers, NEW b \in Bodies, Put(s, b) PROVE OverridesInv'
  <2>1. base' \in Globals /\ DOMAIN todo' = Servers BY <1>1 DEF Put, OverridesInv
  <2> SUFFICES ASSUME ~mixed' PROVE ~Patching' /\ Resolves'
    BY <2>1 DEF OverridesInv
  <2>2. ~Patching /\ \A k \in DOMAIN b : b[k] # Null BY <1>1 DEF Put
  <2>3. ~Patching' BY <1>1, <2>2 DEF Put, Patching
  <2>4. rows' = [k \in Keys |-> IF k \in DOMAIN b /\ b[k] # Null THEN b[k] ELSE Missing]
    BY <1>1, <2>2 DEF Put
  <2>5. \A k \in DOMAIN b : b[k] # Missing BY OverrideBounds
  <2>6. Apply(rows)' = Apply(NonNull(b))
    <3>1. base' = base BY <1>1 DEF Put
    <3>2. DOMAIN rows' = Keys BY <2>4
    <3> QED BY <2>4, <2>5, <3>1, <3>2 DEF Apply, NonNull
  <2>7. Resolves' BY <1>1, <2>6 DEF Put, Resolves, Accepts
  <2> QED BY <2>3, <2>7
<1>2. ASSUME NEW s \in Servers, Clear(s) PROVE OverridesInv'
  <2>1. base' \in Globals /\ DOMAIN todo' = Servers BY <1>2 DEF Clear, OverridesInv
  <2> SUFFICES ASSUME ~mixed' PROVE ~Patching' /\ Resolves'
    BY <2>1 DEF OverridesInv
  <2>2. ~Patching' BY <1>2 DEF Clear, Patching
  <2>3. (base \in Globals /\ rows = NoRows => Resolves)' BY NoRowsResolve, PTL
  <2>4. rows' = NoRows' BY <1>2 DEF Clear, NoRows
  <2> QED BY <2>1, <2>2, <2>3, <2>4
<1>3. ASSUME NEW s \in Servers, NEW b \in Bodies, PatchBegin(s, b) PROVE OverridesInv'
  <2>1. base' \in Globals /\ DOMAIN todo' = Servers BY <1>3 DEF PatchBegin, OverridesInv
  <2> SUFFICES ASSUME ~mixed' PROVE Writing(s, b)'
    BY <2>1 DEF OverridesInv
  <2>2. rows = NoRows /\ ~Patching /\ rows' = rows /\ base' = base BY <1>3 DEF PatchBegin
  <2>3. DOMAIN todo = Servers BY DEF OverridesInv
  <2>4. todo'[s] = b /\ \A r \in Servers \ {s} : todo'[r] = <<>>
    BY <1>3, <2>2, <2>3 DEF PatchBegin, Patching
  <2>5. Accepts(b)' BY <1>3, <2>2 DEF PatchBegin, Accepts, Apply, Valid
  <2> QED BY <2>2, <2>4, <2>5 DEF Writing, NoRows
<1>4. ASSUME NEW r \in Servers, NEW k \in DOMAIN todo[r], PatchKey(r, k) PROVE OverridesInv'
  <2>1. base' \in Globals /\ DOMAIN todo' = Servers BY <1>4 DEF PatchKey, OverridesInv
  <2> SUFFICES ASSUME ~mixed' PROVE \E s \in Servers, b \in Bodies : Writing(s, b)'
    BY <2>1 DEF OverridesInv
  <2>2. todo[r] # <<>> OBVIOUS
  <2>3. ~mixed /\ Patching BY <1>4, <2>2 DEF PatchKey, Patching
  <2>4. PICK s \in Servers, b \in Bodies : Writing(s, b) BY <2>3 DEF OverridesInv
  <2>5. s = r BY <2>2, <2>4 DEF Writing
  <2>6. todo'[s] = [j \in DOMAIN todo[s] \ {k} |-> todo[s][j]]
    BY <1>4, <2>5 DEF PatchKey, OverridesInv
  <2>7. \A q \in Servers \ {s} : todo'[q] = <<>>
    BY <1>4, <2>4, <2>5 DEF PatchKey, Writing, OverridesInv
  <2>8. Accepts(b)' BY <1>4, <2>4 DEF PatchKey, Writing, Accepts, Apply, Valid
  <2>9. todo[s][k] = b[k] /\ k \in DOMAIN b BY <2>4, <2>5 DEF Writing
  <2>10. rows' = [j \in Keys |-> IF j \in DOMAIN b \ DOMAIN todo'[s] /\ b[j] # Null
                                   THEN b[j] ELSE Missing]
    BY <1>4, <2>4, <2>5, <2>6, <2>9 DEF PatchKey, Writing
  <2>11. Writing(s, b)' BY <2>4, <2>6, <2>7, <2>8, <2>10 DEF Writing
  <2> QED BY <2>11
<1>5. ASSUME Restart PROVE OverridesInv'
  <2>1. base' \in Globals /\ DOMAIN todo' = Servers BY <1>5 DEF Restart, OverridesInv
  <2> SUFFICES ASSUME ~mixed' PROVE ~Patching' /\ Resolves'
    BY <2>1 DEF OverridesInv
  <2>2. ~Patching' BY <1>5 DEF Restart, Patching
  <2>3. (base \in Globals /\ rows = NoRows => Resolves)' BY NoRowsResolve, PTL
  <2>4. rows' = NoRows' BY <1>5 DEF Restart, NoRows
  <2> QED BY <2>1, <2>2, <2>3, <2>4
<1> QED BY <1>1, <1>2, <1>3, <1>4, <1>5 DEF OverridesNext

\* Overrides that were accepted together (kb.py:141) resolve whenever no PATCH is
\* half written, for any fields, bodies and number of servers.
THEOREM AcceptedTogetherHolds == OverridesSpec => []AcceptedTogetherResolve
<1>1. OverridesInit => OverridesInv
  <2> SUFFICES ASSUME OverridesInit PROVE ~Patching /\ Resolves /\ base \in Globals /\ DOMAIN todo = Servers
    BY DEF OverridesInv
  <2>1. base \in Globals /\ rows = NoRows /\ DOMAIN todo = Servers /\ ~Patching
    BY DEF OverridesInit, Patching
  <2> QED BY <2>1, NoRowsResolve
<1>2. OverridesInv /\ [OverridesNext]_overrideVars => OverridesInv'
  <2>1. OverridesInv /\ UNCHANGED overrideVars => OverridesInv'
    BY DEF overrideVars, OverridesInv, Patching, Resolves, Writing, Accepts, Apply, Valid
  <2> QED BY <2>1, OverridesInvKept
<1>3. OverridesInv => AcceptedTogetherResolve
  <2> SUFFICES ASSUME OverridesInv, ~mixed, ~Patching PROVE Resolves
    BY DEF AcceptedTogetherResolve
  <2>1. CASE \E s \in Servers, b \in Bodies : Writing(s, b)
    <3>1. PICK s \in Servers, b \in Bodies : Writing(s, b) BY <2>1
    <3>2. DOMAIN todo[s] = {} BY DEF Patching
    <3> QED BY <3>1, <3>2, AcceptedResolve DEF Writing
  <2> QED BY <2>1 DEF OverridesInv
<1> QED BY <1>1, <1>2, <1>3, PTL DEF OverridesSpec

-----------------------------------------------------------------------------
(* Hierarchy *)

\* The results stand for leaves that were hit, each for some, and no two for the
\* same; none is both settled and still to be merged.
KeepsHits ==
  /\ hits = UNION {r.from : r \in Results}
  /\ \A r \in Results : r.from # {}
  /\ \A r, q \in Results : r # q => r.from \cap q.from = {}
  /\ settled \cap active = {}

HitsInv ==
  /\ left \in Int /\ left >= -1 /\ (left = -1 => Results = {})
  /\ KeepsHits

\* A retrieval starts with one result for each hit.
LEMMA RetrieveKeeps ==
  ASSUME HitsInv, Retrieve
  PROVE  HitsInv'
<1>1. settled = {} BY DEF Retrieve, HitsInv, Results
<1>2. active' = {Hit(n) : n \in hits'} /\ settled' = {} BY <1>1 DEF Retrieve
<1>3. \A n : Hit(n).from = {n} BY DEF Hit
<1>4. Results' = {Hit(n) : n \in hits'} BY <1>2 DEF Results
<1>5. hits' = UNION {r.from : r \in Results'} BY <1>3, <1>4
<1>6. KeepsHits' BY <1>2, <1>3, <1>4, <1>5 DEF KeepsHits
<1>7. left' \in Nat BY HierBounds DEF Retrieve
<1>8. left' \in Int /\ left' >= -1 /\ left' # -1 BY <1>7
<1> QED BY <1>6, <1>8 DEF HitsInv

\* A group is the active results that name one row.  What replaces it stands for
\* the same leaves.
LEMMA ReplaceKeeps ==
  ASSUME KeepsHits, NEW p, NEW row
  PROVE  /\ UNION {r.from : r \in Replace(p, row)} = UNION {r.from : r \in Group(p)}
         /\ Group(p) # {} => \A r \in Replace(p, row) : r.from # {}
         /\ \A r, q \in Replace(p, row) : r # q => r.from \cap q.from = {}
<1>1. Merged(p, row).from = UNION {r.from : r \in Group(p)} BY DEF Merged
<1>2. \A r \in Group(p) : r \in Results BY DEF Group, Results
<1>3. CASE Merges(p, row)
  <2>1. Replace(p, row) = {Merged(p, row)} BY <1>3 DEF Replace
  <2>2. UNION {r.from : r \in Replace(p, row)} = UNION {r.from : r \in Group(p)} BY <1>1, <2>1
  <2>3. Group(p) # {} => Merged(p, row).from # {} BY <1>1, <1>2 DEF KeepsHits
  <2> QED BY <2>1, <2>2, <2>3
<1>4. CASE ~Merges(p, row)
  <2>1. Replace(p, row) = Group(p) BY <1>4 DEF Replace
  <2> QED BY <1>2, <2>1 DEF KeepsHits
<1> QED BY <1>3, <1>4

\* A round settles the results without a row and replaces the groups of the others.
LEMMA RoundKeeps ==
  ASSUME HitsInv, Round
  PROVE  HitsInv'
<1> DEFINE Out(f) == {r \in active : r.up \notin f}
<1>1. PICK table :
        LET found == {r.up : r \in active} \cap DOMAIN table
        IN /\ settled' = settled \cup Out(found)
           /\ active' = UNION {Replace(p, table[p]) : p \in found}
           /\ left' = IF \E p \in found : Merges(p, table[p]) THEN left - 1 ELSE 0
  BY DEF Round
<1> DEFINE found == {r.up : r \in active} \cap DOMAIN table
           stays == Out(found)
<1>2. /\ settled' = settled \cup stays
      /\ active' = UNION {Replace(p, table[p]) : p \in found}
      /\ left' = IF \E p \in found : Merges(p, table[p]) THEN left - 1 ELSE 0
  BY <1>1
<1>3. \A p \in found : Group(p) # {} BY DEF Group
<1>4. \A p \in found : \A r \in Group(p) : r \in active /\ r.up = p /\ r \notin stays BY DEF Group
<1>5. \A r \in active : r \in stays \/ (r.up \in found /\ r \in Group(r.up)) BY DEF Group
<1>6. \A r \in settled' : r \in settled \/ r \in stays BY <1>2
<1>7. \A r \in active' : \E p \in found : r \in Replace(p, table[p]) BY <1>2
<1>8. KeepsHits BY DEF HitsInv
<1> HIDE DEF found, stays
<1>9. \A r \in active' : \E p \in found : r \in Replace(p, table[p]) /\ r.from # {}
                                 /\ r.from \subseteq UNION {q.from : q \in Group(p)}
  BY <1>3, <1>7, <1>8, ReplaceKeeps
<1>10. \A p, q \in found : p # q => (UNION {r.from : r \in Group(p)}) \cap UNION {r.from : r \in Group(q)} = {}
  BY <1>4, <1>8 DEF KeepsHits, Results
<1>11. \A r \in settled' : r \in Results /\ r.from # {} BY <1>6, <1>8 DEF KeepsHits, Results, stays
<1>12. \A r \in settled', p \in found : r.from \cap UNION {q.from : q \in Group(p)} = {}
  <2> SUFFICES ASSUME NEW r \in settled', NEW p \in found, NEW q \in Group(p) PROVE r.from \cap q.from = {}
    OBVIOUS
  <2>1. q \in Results /\ q \in active /\ q \notin stays BY <1>4 DEF Results
  <2>2. r # q BY <1>6, <1>8, <2>1 DEF KeepsHits
  <2> QED BY <1>8, <1>11, <2>1, <2>2 DEF KeepsHits
<1>13. \A r, q \in Results' : r # q => r.from \cap q.from = {}
  <2> SUFFICES ASSUME NEW r \in Results', NEW q \in Results', r # q PROVE r.from \cap q.from = {}
    OBVIOUS
  <2>1. CASE r \in settled' /\ q \in settled' BY <1>8, <1>11, <2>1 DEF KeepsHits
  <2>2. CASE r \in settled' /\ q \in active' BY <1>9, <1>12, <2>2
  <2>3. CASE r \in active' /\ q \in settled' BY <1>9, <1>12, <2>3
  <2>4. CASE r \in active' /\ q \in active'
    <3>1. PICK p \in found : r \in Replace(p, table[p]) /\ r.from \subseteq UNION {m.from : m \in Group(p)} BY <1>9, <2>4
    <3>2. PICK u \in found : q \in Replace(u, table[u]) /\ q.from \subseteq UNION {m.from : m \in Group(u)} BY <1>9, <2>4
    <3>3. CASE p = u BY <1>8, <3>1, <3>2, <3>3, ReplaceKeeps
    <3>4. CASE p # u BY <1>10, <3>1, <3>2, <3>4
    <3> QED BY <3>3, <3>4
  <2> QED BY <2>1, <2>2, <2>3, <2>4 DEF Results
<1>14. \A r \in Results' : r.from # {} BY <1>9, <1>11 DEF Results
<1>15. settled' \cap active' = {}
  <2> SUFFICES ASSUME NEW r \in settled', r \in active' PROVE FALSE OBVIOUS
  <2> QED BY <1>9, <1>11, <1>12
<1>16. hits = UNION {r.from : r \in Results'}
  <2>1. ASSUME NEW n \in hits PROVE \E r \in Results' : n \in r.from
    <3>1. PICK r \in Results : n \in r.from BY <1>8 DEF KeepsHits
    <3>2. CASE r \in settled \/ r \in stays BY <1>2, <3>1, <3>2 DEF Results
    <3>3. CASE r.up \in found /\ r \in Group(r.up)
      <4>1. n \in UNION {q.from : q \in Replace(r.up, table[r.up])} BY <1>8, <3>1, <3>3, ReplaceKeeps
      <4> QED BY <1>2, <3>3, <4>1 DEF Results
    <3> QED BY <1>5, <3>1, <3>2, <3>3 DEF Results
  <2>2. ASSUME NEW r \in Results', NEW n \in r.from PROVE n \in hits
    <3>1. CASE r \in settled' BY <1>8, <1>11, <3>1 DEF KeepsHits
    <3>2. CASE r \in active'
      <4>1. PICK p \in found : \E q \in Group(p) : n \in q.from BY <1>9, <3>2
      <4>2. PICK q \in Group(p) : n \in q.from BY <4>1
      <4> QED BY <1>4, <1>8, <4>2 DEF KeepsHits, Results
    <3> QED BY <3>1, <3>2 DEF Results
  <2> QED BY <2>1, <2>2
<1>17. KeepsHits' BY <1>13, <1>14, <1>15, <1>16 DEF KeepsHits, Round
<1>18. left' \in Nat BY <1>2 DEF Round, HitsInv
<1> QED BY <1>17, <1>18 DEF HitsInv, Round

\* Merging children into their parent neither loses a hit nor answers it twice,
\* for every tree of any number of levels, every threshold and max_depth, and
\* whatever rows the rounds read (retriever.py:160-209).
THEOREM HitsKeptHolds == HierSpec => []HitsKept
<1>1. HierInit => HitsInv
  <2> SUFFICES ASSUME HierInit PROVE HitsInv OBVIOUS
  <2>1. Results = {} /\ hits = {} /\ left = -1 BY DEF HierInit, Results
  <2> QED BY <2>1 DEF HitsInv, KeepsHits, Results
<1>2. HitsInv /\ [HierNext]_hierVars => HitsInv'
  <2>1. HitsInv /\ UNCHANGED hierVars => HitsInv' BY DEF hierVars, merge, HitsInv, KeepsHits, Results
  <2> QED BY <2>1, RetrieveKeeps, RoundKeeps DEF HierNext
<1>3. HitsInv => HitsKept BY DEF HitsInv, KeepsHits, HitsKept
<1> QED BY <1>1, <1>2, <1>3, PTL DEF HierSpec

-----------------------------------------------------------------------------
(* Hierarchy: the rows, and what the rounds compute *)

\* The parent of a node is one level above it.
LEMMA ParentLevel ==
  ASSUME NEW n \in Seq(Nat), n # <<>>
  PROVE  Len(n) \in Nat \ {0} /\ Len(Parent(n)) = Len(n) - 1
<1>1. Len(n) \in Nat \ {0} BY LenProperties, EmptySeq
<1>2. 1 \in Int /\ Len(n) - 1 \in Int BY <1>1
<1>3. \A i \in 1 .. Len(n) - 1 : n[i] \in Nat BY ElementOfSeq, <1>1
<1>4. Len(SubSeq(n, 1, Len(n) - 1)) = IF 1 <= Len(n) - 1 THEN (Len(n) - 1) - 1 + 1 ELSE 0
  BY <1>2, <1>3, SubSeqProperties
<1>5. Len(SubSeq(n, 1, Len(n) - 1)) = Len(n) - 1
  <2>1. CASE Len(n) = 1
    <3>1. ~(1 <= Len(n) - 1) /\ Len(n) - 1 = 0 BY <2>1
    <3> QED BY <1>4, <3>1
  <2>2. CASE Len(n) # 1
    <3>1. \A k \in Nat \ {0} : k # 1 => 1 <= k - 1 /\ (k - 1) - 1 + 1 = k - 1 OBVIOUS
    <3>2. 1 <= Len(n) - 1 /\ (Len(n) - 1) - 1 + 1 = Len(n) - 1 BY <1>1, <2>2, <3>1
    <3> QED BY <1>4, <3>2
  <2> QED BY <2>1, <2>2
<1> QED BY <1>1, <1>5 DEF Parent, Front

HierTyped ==
  /\ tree \in Trees /\ live \in (SUBSET LeavesOf(tree)) \ {{}}
  /\ ratio \in Nat \X (Nat \ {0})
  /\ hits \subseteq live \cup {Plain}
  /\ depth \in Nat /\ left \in -1 .. depth

\* The number of levels above the leaves.
Height == LeafLevel - 1

\* The levels of a tree.
LEMMA TreeShape ==
  ASSUME tree \in Trees, live \in (SUBSET LeavesOf(tree)) \ {{}}
  PROVE  /\ Height \in Nat \ {0} /\ LeafLevel = Height + 1 /\ IsFiniteSet(tree) /\ Plain \notin tree
         /\ \A n \in tree : /\ n \in Seq(Nat) /\ Len(n) \in 1 .. Height + 1
                            /\ Len(n) = Height + 1 <=> n \in LeavesOf(tree)
                            /\ n \in Ancestors(tree) <=> n \notin LeavesOf(tree)
                            /\ IsRoot(n) \/ Parent(n) \in Ancestors(tree)
         /\ \A n, c \in tree : Parent(c) = n => Len(c) = Len(n) + 1
<1>1. /\ IsFiniteSet(tree) /\ Plain \notin tree
      /\ \A n \in tree : n \in Seq(Nat) /\ n # <<>> /\ (IsRoot(n) \/ Parent(n) \in tree)
      /\ \E k \in 1 .. Cardinality(tree) :
           \A n \in tree : Len(n) <= k + 1 /\ (Len(n) = k + 1 <=> n \in LeavesOf(tree))
  BY TreesAreLevel
<1>2. PICK k \in 1 .. Cardinality(tree) : \A n \in tree : Len(n) <= k + 1 /\ (Len(n) = k + 1 <=> n \in LeavesOf(tree))
  BY <1>1
<1>3. LeavesOf(tree) \subseteq tree /\ LeavesOf(tree) # {}
  <2>1. live \subseteq LeavesOf(tree) /\ live # {} OBVIOUS
  <2> QED BY <2>1 DEF LeavesOf
<1>4. LeafLevel = k + 1
  <2>1. (CHOOSE n \in LeavesOf(tree) : TRUE) \in LeavesOf(tree) BY <1>3
  <2> QED BY <1>2, <1>3, <2>1 DEF LeafLevel
<1>5. k \in Nat \ {0}
  <2>1. Cardinality(tree) \in Nat BY <1>1, FS_CardinalityType
  <2> QED BY <2>1
<1>6. Height = k BY <1>4, <1>5 DEF Height
<1>7. \A n \in tree : Len(n) \in Nat \ {0} /\ Len(Parent(n)) = Len(n) - 1 BY <1>1, ParentLevel
<1>8. \A n, c \in tree : Parent(c) = n => Len(c) = Len(n) + 1 BY <1>7
<1>9. \A n \in tree : Len(n) \in 1 .. Height + 1 /\ (Len(n) = Height + 1 <=> n \in LeavesOf(tree))
  BY <1>2, <1>5, <1>6, <1>7
<1>10. \A n \in tree : /\ n \in Ancestors(tree) <=> n \notin LeavesOf(tree)
                       /\ IsRoot(n) \/ Parent(n) \in Ancestors(tree)
  BY <1>1 DEF LeavesOf, Ancestors
<1> QED BY <1>1, <1>4, <1>5, <1>6, <1>8, <1>9, <1>10

\* The rows of a tree's nodes: the parent of an ancestor and of a leaf that passed has one.
LEMMA ParentsKept ==
  ASSUME tree \in Trees, live \in (SUBSET LeavesOf(tree)) \ {{}},
         NEW n \in live \cup Ancestors(tree), ~IsRoot(n)
  PROVE  Parent(n) \in Kept(tree, live)
<1>1. n \in tree /\ live \cup Ancestors(tree) \subseteq tree BY DEF LeavesOf, Ancestors
<1>2. Parent(n) \in Ancestors(tree) /\ IsFiniteSet(tree) BY <1>1, TreeShape
<1> DEFINE K == {c \in live \cup Ancestors(tree) : Parent(c) = Parent(n)}
<1>3. K \in SUBSET tree /\ n \in K BY <1>1
<1>4. IsFiniteSet(K) BY <1>2, <1>3, FS_Subset
<1>5. Cardinality(K) \in Nat /\ Cardinality(K) # 0 BY <1>3, <1>4, FS_CardinalityType, FS_EmptySet
<1>6. ChildCount(tree, live, Parent(n)) > 0 BY <1>5 DEF ChildCount
<1> QED BY <1>2, <1>6 DEF Kept

\* Of two nodes one is made before the other: the order is total.
LEMMA OneMadeFirst ==
  ASSUME NEW m \in Seq(Nat), NEW n \in Seq(Nat)
  PROVE  m = n \/ MadeBefore(m, n) \/ MadeBefore(n, m)
<1> SUFFICES ASSUME m # n, Len(m) = Len(n) PROVE MadeBefore(m, n) \/ MadeBefore(n, m)
  <2>1. Len(m) \in Nat /\ Len(n) \in Nat BY LenProperties
  <2> QED BY <2>1 DEF MadeBefore
<1>1. DOMAIN m = 1 .. Len(m) /\ DOMAIN n = 1 .. Len(m) /\ Len(m) \in Nat BY LenProperties
<1>2. \A i \in 1 .. Len(m) : m[i] \in Nat /\ n[i] \in Nat BY <1>1, ElementOfSeq
<1> DEFINE D == {i \in 1 .. Len(m) : m[i] # n[i]}
<1>3. D # {}
  <2> SUFFICES ASSUME \A i \in 1 .. Len(m) : m[i] = n[i] PROVE FALSE OBVIOUS
  <2> QED BY <1>1, SeqEqual
<1>4. D \in SUBSET Nat BY <1>1
<1>5. PICK i \in D : \A k \in D : i <= k BY <1>3, <1>4, LeastNumber
<1>6. \A k \in 1 .. i - 1 : m[k] = n[k]
  <2> SUFFICES ASSUME NEW k \in 1 .. i - 1, k \in D PROVE FALSE BY <1>1, <1>4
  <2>1. i <= k /\ i \in Nat /\ k \in Nat BY <1>4, <1>5
  <2> QED BY <2>1
<1>7. m[i] < n[i] \/ n[i] < m[i] BY <1>2
<1> QED BY <1>1, <1>6, <1>7 DEF MadeBefore

\* The order is transitive.
LEMMA MadeInOrder ==
  ASSUME NEW m \in Seq(Nat), NEW n \in Seq(Nat), NEW o \in Seq(Nat), MadeBefore(m, n), MadeBefore(n, o)
  PROVE  MadeBefore(m, o)
<1>1. /\ DOMAIN m = 1 .. Len(m) /\ DOMAIN n = 1 .. Len(n) /\ DOMAIN o = 1 .. Len(o)
      /\ Len(m) \in Nat /\ Len(n) \in Nat /\ Len(o) \in Nat
  BY LenProperties
<1>2. CASE Len(m) < Len(n) \/ Len(n) < Len(o)
  <2>1. Len(m) <= Len(n) /\ Len(n) <= Len(o)
    <3>1. Len(m) < Len(n) \/ Len(m) = Len(n) BY DEF MadeBefore
    <3>2. Len(n) < Len(o) \/ Len(n) = Len(o) BY DEF MadeBefore
    <3>3. \A a, b \in Nat : a < b \/ a = b => a <= b OBVIOUS
    <3> QED BY <1>1, <3>1, <3>2, <3>3
  <2>2. \A a, b, c \in Nat : a <= b /\ b <= c /\ (a < b \/ b < c) => a < c OBVIOUS
  <2>3. Len(m) < Len(o) BY <1>1, <1>2, <2>1, <2>2
  <2> QED BY <2>3 DEF MadeBefore
<1>3. CASE Len(m) = Len(n) /\ Len(n) = Len(o)
  <2>1. PICK i \in 1 .. Len(m) : m[i] < n[i] /\ \A k \in 1 .. i - 1 : m[k] = n[k]
    BY <1>1, <1>3 DEF MadeBefore
  <2>2. PICK j \in 1 .. Len(m) : n[j] < o[j] /\ \A k \in 1 .. j - 1 : n[k] = o[k]
    BY <1>1, <1>3 DEF MadeBefore
  <2>3. \A k \in 1 .. Len(m) : m[k] \in Nat /\ n[k] \in Nat /\ o[k] \in Nat BY <1>1, <1>3, ElementOfSeq
  <2> DEFINE l == IF i <= j THEN i ELSE j
  <2>4. l \in 1 .. Len(m) /\ m[l] < o[l]
    <3>1. CASE i < j
      <4>1. i \in 1 .. j - 1 /\ l = i BY <1>1, <3>1
      <4>2. m[i] < n[i] /\ n[i] = o[i] BY <2>1, <2>2, <4>1
      <4> QED BY <4>1, <4>2
    <3>2. CASE i = j
      <4>1. l = i /\ m[i] < n[i] /\ n[i] < o[i] BY <1>1, <2>1, <2>2, <3>2
      <4>2. m[i] \in Nat /\ n[i] \in Nat /\ o[i] \in Nat BY <2>3
      <4>3. \A a, b, c \in Nat : a < b /\ b < c => a < c OBVIOUS
      <4>4. m[i] < o[i] BY <4>1, <4>2, <4>3
      <4> QED BY <4>1, <4>4
    <3>3. CASE j < i
      <4>1. j \in 1 .. i - 1 /\ l = j BY <1>1, <3>3
      <4>2. m[j] = n[j] /\ n[j] < o[j] BY <2>1, <2>2, <4>1
      <4> QED BY <4>1, <4>2
    <3> QED BY <1>1, <3>1, <3>2, <3>3
  <2>5. \A k \in 1 .. l - 1 : k \in 1 .. i - 1 /\ k \in 1 .. j - 1 BY <1>1
  <2>6. \A k \in 1 .. l - 1 : m[k] = o[k] BY <2>1, <2>2, <2>5
  <2> QED BY <1>1, <1>3, <2>4, <2>6 DEF MadeBefore
<1> QED BY <1>1, <1>2, <1>3 DEF MadeBefore

\* The rows are the nodes that have one, in the order in which they were made.
LEMMA RowsAre ==
  ASSUME tree \in Trees, live \in (SUBSET LeavesOf(tree)) \ {{}}
  PROVE  LET batch == Rows(tree, live)
         IN /\ Cardinality(Kept(tree, live)) \in Nat /\ DOMAIN batch = 1 .. Cardinality(Kept(tree, live))
            /\ \A i \in DOMAIN batch : batch[i] \in Kept(tree, live)
            /\ \A n \in Kept(tree, live) : \E i \in DOMAIN batch : batch[i] = n
            /\ \A i, j \in DOMAIN batch : i < j => MadeBefore(batch[i], batch[j])
<1> DEFINE T == Kept(tree, live)
           R == {p \in T \X T : MadeBefore(p[1], p[2])}
<1>1. T \subseteq tree BY DEF Kept, Ancestors
<1>2. IsFiniteSet(T)
  <2>1. T \in SUBSET tree BY <1>1
  <2> QED BY <2>1, TreeShape, FS_Subset
<1>3. \A n \in T : n \in Seq(Nat) BY <1>1, TreeShape
<1>4. Rows(tree, live) = Arranged(T, R) BY DEF Rows
<1> HIDE DEF T
<1>5. \A x, y \in T : <<x, y>> \in R <=> MadeBefore(x, y) OBVIOUS
<1> HIDE DEF R
<1>6. \A x \in T : ~(<<x, x>> \in R)
  <2> SUFFICES ASSUME NEW x \in T, MadeBefore(x, x) PROVE FALSE BY <1>5
  <2>1. Len(x) \in Nat /\ \A i \in DOMAIN x : x[i] \in Nat BY <1>3, LenProperties, ElementOfSeq
  <2> QED BY <2>1 DEF MadeBefore
<1>7. \A x, y \in T : x = y \/ <<x, y>> \in R \/ <<y, x>> \in R BY <1>3, <1>5, OneMadeFirst
<1>8. \A x, y, z \in T : <<x, y>> \in R /\ <<y, z>> \in R => <<x, z>> \in R BY <1>3, <1>5, MadeInOrder
<1>9. /\ Cardinality(T) \in Nat /\ DOMAIN Arranged(T, R) = 1 .. Cardinality(T)
      /\ \A i \in 1 .. Cardinality(T) : Arranged(T, R)[i] \in T
      /\ \A n \in T : \E i \in 1 .. Cardinality(T) : Arranged(T, R)[i] = n
      /\ \A i, j \in 1 .. Cardinality(T) : i < j => <<Arranged(T, R)[i], Arranged(T, R)[j]>> \in R
  <2> DEFINE place(n) == Cardinality({y \in T : <<y, n>> \in R}) + 1
  <2>1. /\ Cardinality(T) \in Nat /\ DOMAIN Arranged(T, R) = 1 .. Cardinality(T)
        /\ \A i \in 1 .. Cardinality(T) : Arranged(T, R)[i] \in T
        /\ \A n \in T : place(n) \in 1 .. Cardinality(T) /\ Arranged(T, R)[place(n)] = n
        /\ \A i, j \in 1 .. Cardinality(T) : i < j => <<Arranged(T, R)[i], Arranged(T, R)[j]>> \in R
    BY <1>2, <1>6, <1>7, <1>8, ArrangedIs
  <2> HIDE DEF place
  <2> QED BY <2>1
<1>10. \A i, j \in 1 .. Cardinality(T) : i < j => MadeBefore(Arranged(T, R)[i], Arranged(T, R)[j]) BY <1>5, <1>9
<1> QED BY <1>4, <1>9, <1>10 DEF T

\* The table has the rows as a set.
LEMMA OwnIs ==
  ASSUME tree \in Trees, live \in (SUBSET LeavesOf(tree)) \ {{}}
  PROVE  /\ DOMAIN Own = Kept(tree, live)
         /\ \A n \in Kept(tree, live) : Own[n].up = IF IsRoot(n) THEN Plain ELSE Parent(n)
<1> DEFINE batch == Rows(tree, live)
<1>1. /\ \A i \in DOMAIN batch : batch[i] \in Kept(tree, live)
      /\ \A n \in Kept(tree, live) : \E i \in DOMAIN batch : batch[i] = n
  BY RowsAre
<1> HIDE DEF batch
<1>2. ToSet(batch) = Kept(tree, live) BY <1>1 DEF ToSet
<1>3. Own = [n \in ToSet(batch) |->
               [kids |-> ChildCount(tree, live, n), up |-> IF IsRoot(n) THEN Plain ELSE Parent(n)]]
  BY DEF Own, Table, batch
<1> QED BY <1>2, <1>3

\* HierTyped is an invariant.
LEMMA HierTypedKept == HierSpec => []HierTyped
<1>1. HierInit => HierTyped
  <2>1. ASSUME HierInit PROVE ratio \in Nat \X (Nat \ {0}) BY <2>1, HierBounds DEF HierInit
  <2>2. ASSUME HierInit PROVE hits \subseteq live \cup {Plain} /\ depth \in Nat /\ left \in -1 .. depth
    BY <2>2 DEF HierInit
  <2>3. ASSUME HierInit PROVE tree \in Trees /\ live \in (SUBSET LeavesOf(tree)) \ {{}} BY <2>3 DEF HierInit
  <2> QED BY <2>1, <2>2, <2>3 DEF HierTyped
<1>2. HierTyped /\ [HierNext]_hierVars => HierTyped'
  <2> SUFFICES ASSUME HierTyped, [HierNext]_hierVars PROVE HierTyped' OBVIOUS
  <2>1. CASE Retrieve
    <3>1. depth' \in Nat /\ left' = depth' BY <2>1, HierBounds DEF Retrieve
    <3>2. left' \in -1 .. depth' BY <3>1
    <3>3. hits' \subseteq live \cup {Plain} BY <2>1 DEF Retrieve
    <3> QED BY <2>1, <3>1, <3>2, <3>3 DEF Retrieve, HierTyped
  <2>2. CASE Round
    <3>1. left' \in {left - 1, 0} /\ left > 0 /\ depth' = depth BY <2>2 DEF Round
    <3>2. depth' \in Nat /\ left' \in -1 .. depth' BY <3>1 DEF HierTyped
    <3> QED BY <2>2, <3>2 DEF Round, HierTyped
  <2>3. CASE UNCHANGED hierVars BY <2>3 DEF hierVars, merge, HierTyped
  <2> QED BY <2>1, <2>2, <2>3 DEF HierNext
<1> QED BY <1>1, <1>2, PTL DEF HierSpec

\* Every row follows the row its parent_id refers to, as the foreign key demands of
\* the batch that save_parent_chunks inserts, for every tree of any number of levels
\* and whichever leaves were dropped (chunk.py:139-194).
THEOREM RowsClosedHolds == HierSpec => []RowsClosed
<1>1. HierTyped => RowsClosed
  <2> SUFFICES ASSUME HierTyped, NEW i \in DOMAIN Rows(tree, live), ~IsRoot(Rows(tree, live)[i])
               PROVE  \E k \in 1 .. i - 1 : Rows(tree, live)[k] = Parent(Rows(tree, live)[i])
    BY DEF RowsClosed
  <2> DEFINE batch == Rows(tree, live)
             T == Kept(tree, live)
             p == Parent(batch[i])
  <2>0. tree \in Trees /\ live \in (SUBSET LeavesOf(tree)) \ {{}} BY DEF HierTyped
  <2>1. /\ Cardinality(T) \in Nat /\ DOMAIN batch = 1 .. Cardinality(T)
        /\ \A j \in DOMAIN batch : batch[j] \in T
        /\ \A n \in T : \E j \in DOMAIN batch : batch[j] = n
        /\ \A j, k \in DOMAIN batch : j < k => MadeBefore(batch[j], batch[k])
    BY <2>0, RowsAre
  <2>2. i \in DOMAIN batch /\ ~IsRoot(batch[i]) OBVIOUS
  <2> HIDE DEF batch
  <2>3. batch[i] \in Ancestors(tree) /\ batch[i] \in tree BY <2>1, <2>2 DEF Kept, Ancestors
  <2>4. p \in T BY <2>0, <2>2, <2>3, ParentsKept
  <2>5. p \in tree BY <2>4 DEF Kept, Ancestors
  <2>6. Len(batch[i]) = Len(p) + 1 /\ Len(p) \in Nat
    <3>1. Height \in Nat /\ Len(p) \in 1 .. Height + 1 BY <2>0, <2>5, TreeShape
    <3> QED BY <2>0, <2>3, <2>5, <3>1, TreeShape
  <2> HIDE DEF T
  <2>7. PICK k \in DOMAIN batch : batch[k] = p BY <2>1, <2>4
  <2> HIDE DEF p
  <2>8. ~MadeBefore(batch[i], batch[k]) /\ batch[i] # batch[k] BY <2>6, <2>7 DEF MadeBefore
  <2>9. k \in 1 .. i - 1
    <3>1. i \in 1 .. Cardinality(T) /\ k \in 1 .. Cardinality(T) /\ ~(i < k) /\ i # k BY <2>1, <2>2, <2>8
    <3> QED BY <2>1, <3>1
  <2> QED BY <2>7, <2>9 DEF batch, p
<1> QED BY <1>1, HierTypedKept, PTL

\* The whole nodes that are children of n.
Kids(n) == {c \in WholeNodes : Parent(c) = n}

\* What the reference is: leaves that were hit, and ancestors of enough whole children.
LEMMA WholeIs ==
  ASSUME HierTyped
  PROVE  /\ WholeNodes \subseteq tree
         /\ \A n \in LeavesOf(tree) : n \in WholeNodes <=> n \in hits
         /\ \A n \in tree \ LeavesOf(tree) :
              n \in WholeNodes <=> /\ n \in DOMAIN Own /\ Len(n) + depth >= Height + 1
                                   /\ Kids(n) # {} /\ Reaches(Cardinality(Kids(n)), Own[n].kids)
<1> DEFINE kids(f, n) == {c \in tree : Parent(c) = n /\ f[c]}
           Val(f, n) == IF n \in LeavesOf(tree) THEN n \in hits
                        ELSE /\ n \in DOMAIN Own /\ Len(n) + depth >= LeafLevel
                             /\ kids(f, n) # {} /\ Reaches(Cardinality(kids(f, n)), Own[n].kids)
           Step(f) == [n \in tree |-> Val(f, n)]
           Good(f, m) == \A n \in tree : Len(n) + m > Height + 1 => f[n] = Val(f, n)
           S == {m \in Nat : \E f : Good(f, m)}
<1>1. /\ Height \in Nat \ {0} /\ LeafLevel = Height + 1 /\ \A n \in tree : Len(n) \in 1 .. Height + 1
      /\ \A n, c \in tree : Parent(c) = n => Len(c) = Len(n) + 1
  BY TreeShape DEF HierTyped
<1>2. ASSUME NEW f, NEW g, NEW n, \A c \in tree : Parent(c) = n => f[c] = g[c]
      PROVE  Val(f, n) = Val(g, n)
  <2>1. kids(f, n) = kids(g, n) BY <1>2
  <2> QED BY <2>1
<1>3. \A f : \A n \in tree : Step(f)[n] = Val(f, n) OBVIOUS
<1> HIDE DEF Val, Step
<1>4. 0 \in S
  <2>1. \A n \in tree : ~(Len(n) + 0 > Height + 1) BY <1>1
  <2> QED BY <2>1
<1>5. ASSUME NEW m \in Nat, m \in S PROVE m + 1 \in S
  <2>1. PICK f : Good(f, m) BY <1>5
  <2>2. ASSUME NEW n \in tree, Len(n) + (m + 1) > Height + 1 PROVE Step(f)[n] = Val(Step(f), n)
    <3>1. ASSUME NEW c \in tree, Parent(c) = n PROVE f[c] = Step(f)[c]
      <4>1. Len(c) = Len(n) + 1 BY <1>1, <3>1
      <4>2. Len(c) + m > Height + 1 BY <1>1, <2>2, <4>1
      <4> QED BY <1>3, <2>1, <4>2
    <3>2. Val(f, n) = Val(Step(f), n) BY <1>2, <3>1
    <3> QED BY <1>3, <3>2
  <2>3. Good(Step(f), m + 1) BY <2>2
  <2> QED BY <2>3
<1> HIDE DEF S
<1>6. Height + 1 \in S BY <1>1, <1>4, <1>5, NumbersByStep
<1>7. PICK f : Good(f, Height + 1) BY <1>6 DEF S
<1>8. \A n \in tree : f[n] = Val(f, n)
  <2>1. \A n \in tree : Len(n) + (Height + 1) > Height + 1 BY <1>1
  <2> QED BY <1>7, <2>1
<1>9. \A n \in tree : Step(f)[n] = Val(Step(f), n)
  <2> SUFFICES ASSUME NEW n \in tree PROVE Step(f)[n] = Val(Step(f), n) OBVIOUS
  <2>1. \A c \in tree : Parent(c) = n => f[c] = Step(f)[c] BY <1>3, <1>8
  <2>2. Val(f, n) = Val(Step(f), n) BY <1>2, <2>1
  <2> QED BY <1>3, <2>2
<1>10. \E w : w = Step(w)
  <2>1. Step(f) = Step(Step(f)) BY <1>9 DEF Step
  <2> QED BY <2>1
<1> DEFINE whole == CHOOSE w : w = Step(w)
<1>11. whole = Step(whole) BY <1>10
<1>12. WholeNodes = {n \in tree : whole[n]} BY DEF WholeNodes, Step, Val
<1> HIDE DEF whole
<1>13. \A n \in tree : n \in WholeNodes <=> Val(whole, n)
  <2>1. \A n \in tree : whole[n] = Val(whole, n) BY <1>3, <1>11
  <2> QED BY <1>12, <2>1
<1>14. \A n : kids(whole, n) = Kids(n) BY <1>12 DEF Kids
<1>15. LeavesOf(tree) \subseteq tree BY DEF LeavesOf
<1> QED BY <1>1, <1>12, <1>13, <1>14, <1>15 DEF Val

\* A set of records with a field of its own for each is counted by that field.
LEMMA CountedById ==
  ASSUME NEW G, NEW K, IsFiniteSet(K), K = {r.id : r \in G}, \A r, q \in G : r.id = q.id => r = q
  PROVE  Cardinality(G) = Cardinality(K)
<1> DEFINE f == [c \in K |-> CHOOSE r \in G : r.id = c]
<1>1. \A c \in K : f[c] \in G /\ f[c].id = c OBVIOUS
<1> HIDE DEF f
<1>2. DOMAIN f = K /\ f \in [K -> G] BY <1>1 DEF f
<1>3. \A c, d \in K : f[c] = f[d] => c = d BY <1>1
<1>4. \A r \in G : r.id \in K /\ f[r.id] = r BY <1>1
<1>5. f \in Bijection(K, G) BY <1>2, <1>3, <1>4 DEF Bijection, Injection, Surjection, IsInjective
<1>6. ExistsBijection(K, G) BY <1>5 DEF ExistsBijection
<1> QED BY <1>6, FS_Bijection

\* What the rounds have computed down to a level: the whole nodes of that level, and
\* those below whose parent is not whole.
Answered(lev) == {n \in WholeNodes : Len(n) >= lev /\ (Len(n) = lev \/ Parent(n) \notin WholeNodes)}

\* Between rounds a result is settled only when it has no hierarchy, and the others
\* are to be grouped by their parent.
Grouped ==
  /\ \A r \in settled : r.id = Plain
  /\ \A r \in active : r.up = IF r.id = Plain THEN Plain ELSE IF IsRoot(r.id) THEN Plain ELSE Parent(r.id)
  /\ \A r, q \in active : r.id = q.id => r = q

\* The results of the rounds so far, each of which has gone up by one level.  When
\* they have stopped, nothing above is whole.
AtLevel(lev) ==
  /\ {r.id : r \in Results} \ {Plain} = Answered(lev)
  /\ IF left > 0 THEN Grouped /\ lev = Height + 1 - (depth - left) ELSE \A n \in WholeNodes : Len(n) >= lev

MergeInv ==
  /\ HierTyped
  /\ left = -1 => active = {} /\ settled = {}
  /\ left >= 0 /\ ~replaced => \E lev \in 1 .. Height + 1 : AtLevel(lev)

\* A whole node that is no root has a row for its parent.
LEMMA WholeHasRow ==
  ASSUME HierTyped, NEW n \in WholeNodes, ~IsRoot(n)
  PROVE  Parent(n) \in DOMAIN Own
<1>0. tree \in Trees /\ live \in (SUBSET LeavesOf(tree)) \ {{}} BY DEF HierTyped
<1>1. n \in tree /\ (n \in LeavesOf(tree) \/ n \in Ancestors(tree)) BY <1>0, WholeIs, TreeShape
<1>2. n \in LeavesOf(tree) => n \in live BY <1>0, <1>1, WholeIs, TreeShape DEF HierTyped
<1> QED BY <1>0, <1>1, <1>2, ParentsKept, OwnIs

\* The group of a row has one result for each whole child, so it merges if and only if
\* the row's node is whole.
LEMMA GroupIsKids ==
  ASSUME HierTyped, left > 0, NEW lev \in 1 .. Height + 1, AtLevel(lev),
         NEW p \in DOMAIN Own, p \in {r.up : r \in active}
  PROVE  /\ Kids(p) \subseteq Answered(lev) /\ Kids(p) # {}
         /\ \A r \in Group(p) : r.id \in Kids(p)
         /\ Merges(p, Own[p]) <=> p \in WholeNodes
         /\ p \in WholeNodes => Len(p) = lev - 1
<1>0. tree \in Trees /\ live \in (SUBSET LeavesOf(tree)) \ {{}} BY DEF HierTyped
<1>1. p \in Kept(tree, live) BY <1>0, OwnIs
<1>2. p \in tree /\ p \notin LeavesOf(tree) /\ p # Plain
  <2>1. p \in Ancestors(tree) /\ p \in tree BY <1>1 DEF Kept, Ancestors
  <2> QED BY <1>0, <2>1, TreeShape
<1>3. \A c \in Kids(p) : c \in tree /\ c \in WholeNodes /\ Parent(c) = p /\ Len(c) = Len(p) + 1
  <2>1. \A c \in Kids(p) : c \in tree /\ c \in WholeNodes /\ Parent(c) = p BY WholeIs DEF Kids
  <2> QED BY <1>0, <1>2, <2>1, TreeShape
<1>4. \A r \in active : r.up = p => r.id \in Answered(lev) /\ Parent(r.id) = p BY <1>2 DEF AtLevel, Grouped, Results
<1>5. PICK n \in Answered(lev) : Parent(n) = p BY <1>4
<1>6. n \in Kids(p) /\ Len(n) = Len(p) + 1 /\ Len(n) >= lev /\ (Len(n) = lev \/ p \notin WholeNodes)
  <2>1. n \in Kids(p) BY <1>5 DEF Answered, Kids
  <2> QED BY <1>3, <1>5, <2>1 DEF Answered
<1>7. Kids(p) \subseteq Answered(lev)
  <2> SUFFICES ASSUME NEW c \in Kids(p) PROVE c \in Answered(lev) OBVIOUS
  <2>1. Len(c) = Len(n) /\ Parent(c) = p /\ c \in WholeNodes BY <1>3, <1>6
  <2> QED BY <1>6, <2>1 DEF Answered
<1>8. \A r \in Group(p) : r \in active /\ r.up = p /\ r.id \in Kids(p) BY <1>4 DEF Group, Answered, Kids
<1>9. Kids(p) = {r.id : r \in Group(p)}
  <2> SUFFICES ASSUME NEW c \in Kids(p) PROVE \E r \in Group(p) : r.id = c BY <1>8
  <2>1. PICK r \in active : r.id = c /\ c # Plain BY <1>7 DEF AtLevel, Grouped, Results
  <2>2. ~IsRoot(c)
    <3>1. Len(c) = Len(p) + 1 /\ Len(p) \in Nat /\ Len(p) # 0
      <4>1. Height \in Nat \ {0} /\ Len(p) \in 1 .. Height + 1 BY <1>0, <1>2, TreeShape
      <4> QED BY <1>3, <4>1
    <3> QED BY <3>1 DEF IsRoot
  <2>3. r.up = p BY <1>3, <2>1, <2>2 DEF AtLevel, Grouped
  <2> QED BY <2>1, <2>3 DEF Group
<1>10. IsFiniteSet(Kids(p))
  <2>1. Kids(p) \in SUBSET tree BY <1>3
  <2> QED BY <1>0, <2>1, TreeShape, FS_Subset
<1>11. Cardinality(Group(p)) = Cardinality(Kids(p))
  <2>1. \A r, q \in Group(p) : r.id = q.id => r = q BY <1>8 DEF AtLevel, Grouped
  <2> QED BY <1>9, <1>10, <2>1, CountedById
<1>12. Merges(p, Own[p]) <=> p \in WholeNodes
  <2>1. Len(p) + depth >= Height + 1
    <3>1. Height \in Nat \ {0} /\ Len(p) \in 1 .. Height + 1 BY <1>0, <1>2, TreeShape
    <3>2. lev = Height + 1 - (depth - left) /\ depth \in Nat /\ left \in Int BY DEF AtLevel, HierTyped
    <3> QED BY <1>6, <3>1, <3>2
  <2> QED BY <1>2, <1>6, <1>11, <2>1, WholeIs DEF Merges
<1>13. p \in WholeNodes => Len(p) = lev - 1
  <2>1. Height \in Nat \ {0} /\ Len(p) \in 1 .. Height + 1 BY <1>0, <1>2, TreeShape
  <2> QED BY <1>6, <2>1
<1> QED BY <1>6, <1>7, <1>8, <1>12, <1>13

\* Of the leaves, those are whole that were hit, and of the ancestors none above the
\* levels that max_depth reaches; also after a step.
WholeInReach ==
  /\ WholeNodes \subseteq tree
  /\ \A n \in LeavesOf(tree) : n \in WholeNodes <=> n \in hits
  /\ \A n \in WholeNodes : Len(n) + depth >= Height + 1
LEMMA InReach == HierTyped' => WholeInReach'
<1>1. ASSUME HierTyped PROVE WholeInReach
  <2>1. tree \in Trees /\ live \in (SUBSET LeavesOf(tree)) \ {{}} /\ depth \in Nat BY <1>1 DEF HierTyped
  <2>2. ASSUME NEW n \in WholeNodes PROVE Len(n) + depth >= Height + 1
    <3>1. n \in tree /\ Height \in Nat /\ Len(n) \in 1 .. Height + 1 BY <1>1, <2>1, WholeIs, TreeShape
    <3>2. CASE n \in LeavesOf(tree) BY <2>1, <3>1, <3>2, TreeShape
    <3>3. CASE n \notin LeavesOf(tree) BY <1>1, <3>1, <3>3, WholeIs
    <3> QED BY <3>2, <3>3
  <2> QED BY <1>1, <2>2, WholeIs DEF WholeInReach
<1> QED BY <1>1, PTL

\* A retrieval starts at the leaves.
LEMMA RetrieveMerges ==
  ASSUME MergeInv, HierTyped', Retrieve
  PROVE  MergeInv'
<1>0. tree \in Trees /\ live \in (SUBSET LeavesOf(tree)) \ {{}} /\ tree' = tree /\ live' = live
  BY DEF MergeInv, HierTyped, Retrieve
<1>1. Height \in Nat \ {0} /\ Plain \notin tree BY <1>0, TreeShape
<1>2. Height' = Height BY <1>0 DEF Height, LeafLevel
<1>3. left' = depth' /\ depth' \in Nat BY HierBounds DEF Retrieve
<1>4. active' = {Hit(n) : n \in hits'} /\ settled' = {} /\ hits' \subseteq live \cup {Plain}
  BY DEF Retrieve, MergeInv
<1>5. \A n : Hit(n).id = n /\ Hit(n).up = IF n = Plain THEN Plain ELSE Parent(n) BY DEF Hit
<1>6. /\ WholeNodes' \subseteq tree /\ \A n \in LeavesOf(tree) : n \in WholeNodes' <=> n \in hits'
      /\ \A n \in WholeNodes' : Len(n) + depth' >= Height + 1
  BY <1>0, <1>2, InReach DEF WholeInReach
<1>7. {r.id : r \in active'} \ {Plain} = Answered(Height + 1)'
  <2>1. {r.id : r \in active'} = hits' BY <1>4, <1>5
  <2>2. ASSUME NEW n \in hits', n # Plain PROVE n \in Answered(Height + 1)'
    <3>1. n \in LeavesOf(tree) /\ n \in tree BY <1>0, <1>4, <2>2 DEF LeavesOf
    <3>2. n \in WholeNodes' /\ Len(n) = Height + 1 BY <1>0, <1>6, <2>2, <3>1, TreeShape
    <3> QED BY <1>1, <1>2, <3>2 DEF Answered
  <2>3. ASSUME NEW n \in Answered(Height + 1)' PROVE n \in hits' /\ n # Plain
    <3>1. n \in WholeNodes' /\ Len(n) >= Height + 1 BY <1>2, <2>3 DEF Answered
    <3>2. n \in tree /\ Len(n) \in 1 .. Height + 1 BY <1>0, <1>6, <3>1, TreeShape
    <3>3. n \in LeavesOf(tree)
      <4>1. Len(n) = Height + 1 BY <1>1, <3>1, <3>2
      <4> QED BY <1>0, <3>2, <4>1, TreeShape
    <3> QED BY <1>1, <1>6, <3>1, <3>2, <3>3
  <2> QED BY <2>1, <2>2, <2>3
<1>8. \A r \in active' : r.up = IF r.id = Plain THEN Plain ELSE IF IsRoot(r.id) THEN Plain ELSE Parent(r.id)
  <2> SUFFICES ASSUME NEW n \in hits', n # Plain PROVE ~IsRoot(n) BY <1>4, <1>5
  <2>1. n \in LeavesOf(tree) /\ n \in tree BY <1>0, <1>4 DEF LeavesOf
  <2>2. Len(n) = Height + 1 BY <1>0, <2>1, TreeShape
  <2> QED BY <1>1, <2>2 DEF IsRoot
<1>9. \A r, q \in active' : r.id = q.id => r = q BY <1>4, <1>5
<1>10. Grouped'
  <2>1. settled' = {} BY <1>4
  <2> QED BY <1>8, <1>9, <2>1 DEF Grouped
<1>11. Height + 1 = Height' + 1 - (depth' - left')
  <2>1. \A h, d \in Nat : h + 1 = h + 1 - (d - d) OBVIOUS
  <2> QED BY <1>1, <1>2, <1>3, <2>1
<1>12. ~(left' > 0) => \A n \in WholeNodes' : Len(n) >= Height + 1 BY <1>3, <1>6
<1>13. Results' = active' BY <1>4 DEF Results
<1>14. AtLevel(Height + 1)' BY <1>2, <1>7, <1>10, <1>11, <1>12, <1>13 DEF AtLevel
<1>15. Height + 1 \in 1 .. Height + 1 /\ left' # -1 BY <1>1, <1>3
<1>16. \E lev \in 1 .. Height' + 1 : AtLevel(lev)'
  <2> DEFINE lev == Height + 1
  <2>1. AtLevel(lev)' BY <1>2, <1>14
  <2> QED BY <1>2, <1>15, <2>1
<1> QED BY <1>15, <1>16 DEF MergeInv

\* A round that reads the document's own rows leaves the whole nodes as they are, and
\* finds a row for each parent that has one.
LEMMA RoundReads ==
  ASSUME HierTyped, Round, ~replaced'
  PROVE  LET found == {r.up : r \in active} \cap DOMAIN Own
         IN /\ ~replaced /\ left > 0 /\ left \in Int /\ depth \in Nat /\ left <= depth /\ depth' = depth
            /\ WholeNodes' = WholeNodes /\ Height' = Height
            /\ settled' = settled \cup {r \in active : r.up \notin found}
            /\ active' = UNION {Replace(p, Own[p]) : p \in found}
            /\ left' = IF \E p \in found : Merges(p, Own[p]) THEN left - 1 ELSE 0
<1> DEFINE asked == {r.up : r \in active}
           found == asked \cap DOMAIN Own
           Part(f) == [p \in asked \cap DOMAIN f |-> f[p]]
<1>1. /\ tree' = tree /\ live' = live /\ ratio' = ratio /\ hits' = hits /\ depth' = depth
      /\ left > 0 /\ left \in Int /\ depth \in Nat /\ left <= depth
  BY DEF Round, HierTyped
<1>2. WholeNodes' = WholeNodes /\ Height' = Height
  BY <1>1 DEF WholeNodes, Own, Reaches, Height, LeafLevel
<1>3. PICK table :
        LET f == asked \cap DOMAIN table
        IN /\ settled' = settled \cup {r \in active : r.up \notin f}
           /\ active' = UNION {Replace(p, table[p]) : p \in f}
           /\ left' = IF \E p \in f : Merges(p, table[p]) THEN left - 1 ELSE 0
           /\ replaced' = (replaced \/ Part(table) # Part(Own))
  BY DEF Round
<1>4. ~replaced /\ Part(table) = Part(Own) BY <1>3
<1>5. asked \cap DOMAIN table = found
  <2>1. DOMAIN Part(table) = asked \cap DOMAIN table /\ DOMAIN Part(Own) = found OBVIOUS
  <2> QED BY <1>4, <2>1
<1>6. \A p \in found : table[p] = Own[p]
  <2>1. \A p \in found : Part(table)[p] = table[p] /\ Part(Own)[p] = Own[p] BY <1>5
  <2> QED BY <1>4, <2>1
<1> HIDE DEF found, asked, Part
<1>7. UNION {Replace(p, table[p]) : p \in found} = UNION {Replace(p, Own[p]) : p \in found} BY <1>6
<1>8. (\E p \in found : Merges(p, table[p])) <=> \E p \in found : Merges(p, Own[p]) BY <1>6
<1>9. /\ settled' = settled \cup {r \in active : r.up \notin found}
      /\ active' = UNION {Replace(p, Own[p]) : p \in found}
      /\ left' = IF \E p \in found : Merges(p, Own[p]) THEN left - 1 ELSE 0
  BY <1>3, <1>5, <1>7, <1>8
<1> QED BY <1>1, <1>2, <1>4, <1>9 DEF found, asked

\* When the roots are reached nothing merges any more, and the next round is the last.
LEMMA RoundAtTop ==
  ASSUME MergeInv, Round, ~replaced', AtLevel(1)
  PROVE  AtLevel(1)'
<1> DEFINE found == {r.up : r \in active} \cap DOMAIN Own
<1>0. tree \in Trees /\ live \in (SUBSET LeavesOf(tree)) \ {{}} /\ HierTyped BY DEF MergeInv, HierTyped
<1>1. /\ left > 0 /\ WholeNodes' = WholeNodes /\ Height' = Height
      /\ settled' = settled \cup {r \in active : r.up \notin found}
      /\ active' = UNION {Replace(p, Own[p]) : p \in found}
      /\ left' = IF \E p \in found : Merges(p, Own[p]) THEN left - 1 ELSE 0
  BY <1>0, RoundReads
<1>2. Height \in Nat \ {0} /\ 1 \in 1 .. Height + 1 BY <1>0, TreeShape
<1>3. \A p \in found : ~Merges(p, Own[p])
  <2> SUFFICES ASSUME NEW p \in found, Merges(p, Own[p]) PROVE FALSE OBVIOUS
  <2>1. p \in WholeNodes /\ Len(p) = 1 - 1 BY <1>0, <1>1, <1>2, GroupIsKids
  <2>2. p \in tree /\ Len(p) \in 1 .. Height + 1 BY <1>0, <2>1, WholeIs, TreeShape
  <2> QED BY <1>2, <2>1, <2>2
<1>4. \A p \in found : Replace(p, Own[p]) = Group(p) BY <1>3 DEF Replace
<1>5. active' = {r \in active : r.up \in found}
  <2>1. \A p : \A r : r \in Group(p) <=> r \in active /\ r.up = p BY DEF Group
  <2> HIDE DEF found
  <2> QED BY <1>1, <1>4, <2>1
<1>6. Results' = Results BY <1>1, <1>5 DEF Results
<1>7. ~(left' > 0) BY <1>1, <1>3
<1>8. \A n \in WholeNodes' : Len(n) >= 1
  <2>1. \A n \in WholeNodes : Len(n) \in 1 .. Height + 1 BY <1>0, WholeIs, TreeShape
  <2> QED BY <1>1, <1>2, <2>1
<1>9. Answered(1)' = Answered(1) BY <1>1 DEF Answered
<1> QED BY <1>6, <1>7, <1>8, <1>9 DEF AtLevel

\* Below the roots a round goes from one level to the next: where the whole nodes are
\* merged, and nothing else is.
LEMMA RoundMerges ==
  ASSUME MergeInv, Round, ~replaced'
  PROVE  \E lev \in 1 .. Height' + 1 : AtLevel(lev)'
<1>0. tree \in Trees /\ live \in (SUBSET LeavesOf(tree)) \ {{}} /\ HierTyped BY DEF MergeInv, HierTyped
<1> DEFINE W == WholeNodes
           found == {r.up : r \in active} \cap DOMAIN Own
<1>1. ~replaced /\ left > 0 /\ left \in Int /\ depth \in Nat /\ left <= depth /\ depth' = depth BY <1>0, RoundReads
<1>2. W' = W /\ Height' = Height /\ Height \in Nat \ {0} BY <1>0, RoundReads, TreeShape
<1>3. /\ settled' = settled \cup {r \in active : r.up \notin found}
      /\ active' = UNION {Replace(p, Own[p]) : p \in found}
      /\ left' = IF \E p \in found : Merges(p, Own[p]) THEN left - 1 ELSE 0
  BY <1>0, RoundReads
<1> HIDE DEF W
<1>4. PICK lev \in 1 .. Height + 1 : AtLevel(lev) BY <1>1 DEF MergeInv
<1> SUFFICES ASSUME lev # 1 PROVE \E next \in 1 .. Height' + 1 : AtLevel(next)'
  <2>1. CASE lev = 1
    <3>1. AtLevel(1) BY <1>4, <2>1
    <3>2. AtLevel(1)' /\ 1 \in 1 .. Height' + 1 BY <1>2, <3>1, RoundAtTop
    <3> QED BY <3>2
  <2> QED BY <2>1
<1>5. /\ lev = Height + 1 - (depth - left) /\ lev \in 2 .. Height + 1 /\ lev - 1 \in 1 .. Height + 1
      /\ Grouped /\ {r.id : r \in active} \ {Plain} = Answered(lev)
  BY <1>1, <1>2, <1>4 DEF AtLevel, Grouped, Results
<1>6. \A p \in found : /\ p \in DOMAIN Own /\ p \in {r.up : r \in active}
                       /\ Kids(p) \subseteq Answered(lev) /\ Kids(p) # {}
                       /\ \A r \in Group(p) : r.id \in Kids(p)
                       /\ Merges(p, Own[p]) <=> p \in W
                       /\ p \in W => Len(p) = lev - 1
  BY <1>0, <1>1, <1>4, GroupIsKids DEF W
<1>7. W \subseteq tree /\ \A n \in W : Len(n) \in 1 .. Height + 1 /\ (n \in LeavesOf(tree) \/ Len(n) + depth >= Height + 1)
  BY <1>0, WholeIs, TreeShape DEF W
<1>8. \A p \in DOMAIN Own : p # Plain
  <2>1. Plain \notin tree /\ DOMAIN Own \subseteq tree BY <1>0, TreeShape, OwnIs DEF Kept, Ancestors
  <2> QED BY <2>1
<1>9. \A n \in Answered(lev) : /\ n \in W /\ Len(n) >= lev /\ (Len(n) = lev \/ Parent(n) \notin W)
                               /\ ~IsRoot(n) /\ n # Plain /\ Parent(n) \in DOMAIN Own
                               /\ \E r \in active : r.id = n /\ r.up = Parent(n)
  <2> SUFFICES ASSUME NEW n \in Answered(lev)
               PROVE  /\ n \in W /\ Len(n) >= lev /\ (Len(n) = lev \/ Parent(n) \notin W)
                      /\ ~IsRoot(n) /\ n # Plain /\ Parent(n) \in DOMAIN Own
                      /\ \E r \in active : r.id = n /\ r.up = Parent(n)
    OBVIOUS
  <2>1. n \in W /\ Len(n) >= lev /\ (Len(n) = lev \/ Parent(n) \notin W) BY DEF Answered, W
  <2>2. ~IsRoot(n)
    <3>1. Len(n) \in 1 .. Height + 1 BY <1>7, <2>1
    <3>2. \A d \in Nat \ {0} : \A v \in 2 .. d + 1, k \in 1 .. d + 1 : k >= v => k # 1 OBVIOUS
    <3>3. Len(n) # 1 BY <1>2, <1>5, <2>1, <3>1, <3>2
    <3> QED BY <3>3 DEF IsRoot
  <2>3. Parent(n) \in DOMAIN Own BY <1>0, <2>1, <2>2, WholeHasRow DEF W
  <2>4. PICK r \in active : r.id = n /\ n # Plain BY <1>5 DEF Grouped
  <2>5. r.up = Parent(n) BY <1>5, <2>2, <2>4 DEF Grouped
  <2> QED BY <2>1, <2>2, <2>3, <2>4, <2>5
<1>10. \A r \in active : IF r.id = Plain THEN r.up \notin found
                         ELSE r.id \in Answered(lev) /\ r.up = Parent(r.id) /\ r.up \in found /\ r \in Group(r.up)
  <2> SUFFICES ASSUME NEW r \in active
               PROVE  IF r.id = Plain THEN r.up \notin found
                      ELSE r.id \in Answered(lev) /\ r.up = Parent(r.id) /\ r.up \in found /\ r \in Group(r.up)
    OBVIOUS
  <2>1. CASE r.id = Plain
    <3>1. r.up = Plain BY <1>5, <2>1 DEF Grouped
    <3> QED BY <1>8, <2>1, <3>1
  <2>2. CASE r.id # Plain
    <3>1. r.id \in Answered(lev) BY <1>5, <2>2 DEF Grouped
    <3>2. ~IsRoot(r.id) /\ Parent(r.id) \in DOMAIN Own BY <1>9, <3>1
    <3>3. r.up = Parent(r.id) BY <1>5, <2>2, <3>2 DEF Grouped
    <3> QED BY <2>2, <3>1, <3>2, <3>3 DEF Group
  <2> QED BY <2>1, <2>2
<1>11. \A p \in found : /\ p \in W => Replace(p, Own[p]) = {Merged(p, Own[p])}
                        /\ p \notin W => Replace(p, Own[p]) = Group(p)
  BY <1>6 DEF Replace
<1>12. /\ \A p : Merged(p, Own[p]).id = p
       /\ \A p \in found : Merged(p, Own[p]).up = IF IsRoot(p) THEN Plain ELSE Parent(p)
  <2>1. \A p \in DOMAIN Own : Own[p].up = IF IsRoot(p) THEN Plain ELSE Parent(p) BY <1>0, OwnIs
  <2> QED BY <2>1 DEF Merged
<1> HIDE DEF found
\* A result after the round: a node that merged, or a child of one that did not.
<1>13. \A r \in active' :
         \/ r.id \in found /\ r.id \in W /\ r = Merged(r.id, Own[r.id])
         \/ r \in active /\ r.id # Plain /\ r.id \in Answered(lev) /\ r.up = Parent(r.id) /\ r.up \in found /\ r.up \notin W
  <2> SUFFICES ASSUME NEW r \in active'
               PROVE  \/ r.id \in found /\ r.id \in W /\ r = Merged(r.id, Own[r.id])
                      \/ r \in active /\ r.id # Plain /\ r.id \in Answered(lev) /\ r.up = Parent(r.id) /\ r.up \in found /\ r.up \notin W
    OBVIOUS
  <2>1. PICK p \in found : r \in Replace(p, Own[p]) BY <1>3
  <2>2. CASE p \in W
    <3>1. r = Merged(p, Own[p]) BY <1>11, <2>1, <2>2
    <3>2. r.id = p BY <1>12, <3>1
    <3> QED BY <2>2, <3>1, <3>2
  <2>3. CASE p \notin W
    <3>1. r \in active /\ r.up = p BY <1>11, <2>1, <2>3 DEF Group
    <3>2. r.id # Plain BY <1>10, <2>1, <3>1
    <3> QED BY <1>10, <2>3, <2>1, <3>1, <3>2
  <2> QED BY <2>2, <2>3
<1>14. \A p \in found : p \in W => Merged(p, Own[p]) \in active' BY <1>3, <1>11
<1>15. \A r \in active : r.up \in found /\ r.up \notin W => r \in active' BY <1>3, <1>11 DEF Group
<1> DEFINE Target == {n \in W : Len(n) >= lev - 1 /\ (Len(n) = lev - 1 \/ Parent(n) \notin W)}
\* The whole nodes of the next level have merged.
<1>16. \A n \in W : Len(n) = lev - 1 => n \in found
  <2> SUFFICES ASSUME NEW n \in W, Len(n) = lev - 1 PROVE n \in found OBVIOUS
  <2>1. n \in tree /\ n \notin LeavesOf(tree)
    <3>1. n \in tree /\ Len(n) # Height + 1 BY <1>2, <1>5, <1>7
    <3> QED BY <1>0, <3>1, TreeShape
  <2>2. n \in DOMAIN Own /\ Kids(n) # {} BY <1>0, <2>1, WholeIs DEF W
  <2>3. PICK c \in Kids(n) : TRUE BY <2>2
  <2>4. c \in W /\ Parent(c) = n /\ c \in tree BY <1>7 DEF Kids, W
  <2>5. Len(c) = lev
    <3>1. Len(c) = Len(n) + 1 BY <1>0, <2>1, <2>4, TreeShape
    <3> QED BY <1>5, <3>1
  <2>6. c \in Answered(lev) BY <1>5, <2>4, <2>5 DEF Answered, W
  <2>7. PICK r \in active : r.up = n BY <1>9, <2>4, <2>6
  <2> QED BY <2>2, <2>7 DEF found
<1>17. {r.id : r \in active'} = Target
  <2>1. ASSUME NEW r \in active' PROVE r.id \in Target
    <3>1. CASE r.id \in found /\ r.id \in W
      <4>1. Len(r.id) = lev - 1 BY <1>6, <3>1
      <4> QED BY <1>5, <3>1, <4>1
    <3>2. CASE r.id \in Answered(lev) /\ r.up = Parent(r.id) /\ r.up \notin W
      <4>1. r.id \in W /\ Len(r.id) >= lev /\ Len(r.id) \in 1 .. Height + 1 BY <1>7, <1>9, <3>2
      <4>2. Len(r.id) >= lev - 1 BY <1>2, <1>5, <4>1
      <4> QED BY <3>2, <4>1, <4>2
    <3> QED BY <1>13, <3>1, <3>2
  <2>2. ASSUME NEW n \in Target PROVE \E r \in active' : r.id = n
    <3>1. CASE Len(n) = lev - 1
      <4>1. n \in found /\ n \in W BY <1>16, <3>1
      <4> QED BY <1>12, <1>14, <4>1
    <3>2. CASE Len(n) # lev - 1
      <4>1. n \in W /\ Parent(n) \notin W /\ Len(n) >= lev
        <5>1. n \in W /\ Parent(n) \notin W /\ Len(n) >= lev - 1 /\ Len(n) \in 1 .. Height + 1 BY <1>7, <3>2
        <5> QED BY <1>2, <1>5, <3>2, <5>1
      <4>2. n \in Answered(lev) BY <4>1 DEF Answered, W
      <4>3. PICK r \in active : r.id = n /\ r.up = Parent(n) BY <1>9, <4>2
      <4>4. n # Plain BY <1>9, <4>2
      <4>5. r.up \in found BY <1>10, <4>3, <4>4
      <4> QED BY <1>15, <4>1, <4>3, <4>5
    <3> QED BY <3>1, <3>2
  <2> HIDE DEF Target
  <2> QED BY <2>1, <2>2
<1>18. Target = Answered(lev - 1)'
  <2>1. Answered(lev - 1)' = {n \in W' : Len(n) >= lev - 1 /\ (Len(n) = lev - 1 \/ Parent(n) \notin W')}
    BY DEF Answered, W
  <2> QED BY <1>2, <2>1
<1>19. \A n \in Target : n # Plain BY <1>0, <1>7, TreeShape
<1>20. {r.id : r \in active'} \ {Plain} = Answered(lev - 1)' BY <1>17, <1>18, <1>19
<1>21. \A r \in settled' : r.id = Plain
  <2>1. \A r \in settled : r.id = Plain BY <1>5 DEF Grouped
  <2>2. \A r \in active : r.up \notin found => r.id = Plain BY <1>10
  <2> QED BY <1>3, <2>1, <2>2
<1>22. \A r \in active' : r.up = IF r.id = Plain THEN Plain ELSE IF IsRoot(r.id) THEN Plain ELSE Parent(r.id)
  <2> SUFFICES ASSUME NEW r \in active'
               PROVE  r.up = IF r.id = Plain THEN Plain ELSE IF IsRoot(r.id) THEN Plain ELSE Parent(r.id)
    OBVIOUS
  <2>1. CASE r.id \in found /\ r = Merged(r.id, Own[r.id])
    <3>1. r.id # Plain
      <4>1. r.id \in DOMAIN Own BY <2>1 DEF found
      <4> QED BY <1>8, <4>1
    <3>2. Merged(r.id, Own[r.id]).up = IF IsRoot(r.id) THEN Plain ELSE Parent(r.id) BY <1>12, <2>1
    <3>3. r.up = IF IsRoot(r.id) THEN Plain ELSE Parent(r.id) BY <2>1, <3>2
    <3> QED BY <3>1, <3>3
  <2>2. CASE r \in active BY <1>5, <2>2 DEF Grouped
  <2> QED BY <1>13, <2>1, <2>2
<1>23. \A r, q \in active' : r.id = q.id => r = q
  <2> SUFFICES ASSUME NEW r \in active', NEW q \in active', r.id = q.id PROVE r = q OBVIOUS
  <2>1. \A m \in active' : \/ m.id \in found /\ m.id \in W /\ Len(m.id) = lev - 1 /\ m = Merged(m.id, Own[m.id])
                           \/ m \in active /\ Len(m.id) # lev - 1
    <3> SUFFICES ASSUME NEW m \in active'
                 PROVE  \/ m.id \in found /\ m.id \in W /\ Len(m.id) = lev - 1 /\ m = Merged(m.id, Own[m.id])
                        \/ m \in active /\ Len(m.id) # lev - 1
      OBVIOUS
    <3>1. ASSUME m.id \in Answered(lev) PROVE Len(m.id) # lev - 1
      <4>1. Len(m.id) >= lev /\ Len(m.id) \in 1 .. Height + 1 BY <1>7, <1>9, <3>1
      <4> QED BY <1>2, <1>5, <4>1
    <3> QED BY <1>6, <1>13, <3>1
  <2>2. \A m, o \in active : m.id = o.id => m = o BY <1>5 DEF Grouped
  <2>3. CASE Len(r.id) = lev - 1
    <3>1. r = Merged(r.id, Own[r.id]) /\ q = Merged(q.id, Own[q.id]) BY <2>1, <2>3
    <3>2. Merged(r.id, Own[r.id]) = Merged(q.id, Own[q.id]) OBVIOUS
    <3> QED BY <3>1, <3>2
  <2>4. CASE Len(r.id) # lev - 1
    <3>1. r \in active /\ q \in active BY <2>1, <2>4
    <3> QED BY <2>2, <3>1
  <2> QED BY <2>3, <2>4
\* When nothing merged, nothing above is whole either, level by level.
<1>24. ASSUME \A p \in found : ~Merges(p, Own[p]) PROVE \A n \in W : Len(n) >= lev - 1
  <2> DEFINE S == {m \in Nat : \A n \in W : Len(n) + m # lev - 1}
  <2>1. 0 \in S
    <3>1. \A n \in W : Len(n) # lev - 1 BY <1>6, <1>16, <1>24
    <3> QED BY <1>7, <3>1
  <2>2. ASSUME NEW m \in Nat, m \in S PROVE m + 1 \in S
    <3> SUFFICES ASSUME NEW n \in W, Len(n) + (m + 1) = lev - 1 PROVE FALSE OBVIOUS
    <3>1. Len(n) \in 1 .. Height + 1 /\ n \in tree BY <1>7
    <3>2. Len(n) # Height + 1 BY <1>2, <1>5, <3>1
    <3>3. n \notin LeavesOf(tree) BY <1>0, <3>1, <3>2, TreeShape
    <3>4. Kids(n) # {} BY <1>0, <3>1, <3>3, WholeIs DEF W
    <3>5. PICK c \in Kids(n) : TRUE BY <3>4
    <3>6. c \in W /\ Parent(c) = n /\ c \in tree BY <1>7 DEF Kids, W
    <3>7. Len(c) = Len(n) + 1 BY <1>0, <3>1, <3>6, TreeShape
    <3>8. Len(c) + m = lev - 1 BY <3>1, <3>7
    <3> QED BY <2>2, <3>6, <3>8
  <2> HIDE DEF S
  <2>3. Nat \subseteq S BY <2>1, <2>2, NumbersByStep
  <2>4. ASSUME NEW n \in W, ~(Len(n) >= lev - 1) PROVE FALSE
    <3>1. Len(n) \in 1 .. Height + 1 BY <1>7
    <3>2. (lev - 1) - Len(n) \in Nat /\ Len(n) + ((lev - 1) - Len(n)) = lev - 1 BY <1>2, <1>5, <2>4, <3>1
    <3>3. (lev - 1) - Len(n) \in S BY <2>3, <3>2
    <3> QED BY <3>2, <3>3 DEF S
  <2> QED BY <2>4
<1>25. IF left' > 0 THEN lev - 1 = Height + 1 - (depth - left') ELSE \A n \in W : Len(n) >= lev - 1
  <2>1. CASE \E p \in found : Merges(p, Own[p])
    <3>1. left' = left - 1 /\ lev - 1 = Height + 1 - (depth - left') BY <1>1, <1>2, <1>3, <1>5, <2>1
    <3>2. ~(left' > 0) => lev - 1 = Height + 1 - depth BY <1>1, <1>5, <3>1
    <3>3. ASSUME NEW n \in W, lev - 1 = Height + 1 - depth PROVE Len(n) >= lev - 1
      <4>1. Len(n) \in 1 .. Height + 1 BY <1>7
      <4>2. CASE n \in LeavesOf(tree)
        <5>1. Len(n) = Height + 1 BY <1>0, <1>7, <4>2, TreeShape
        <5> QED BY <1>2, <1>5, <5>1
      <4>3. CASE Len(n) + depth >= Height + 1 BY <1>1, <1>2, <3>3, <4>1, <4>3
      <4> QED BY <1>7, <4>2, <4>3
    <3> QED BY <3>1, <3>2, <3>3
  <2>2. CASE ~\E p \in found : Merges(p, Own[p])
    <3>1. left' = 0 BY <1>3, <2>2
    <3> QED BY <1>24, <2>2, <3>1
  <2> QED BY <2>1, <2>2
<1> DEFINE next == lev - 1
<1>26. next \in 1 .. Height' + 1 BY <1>2, <1>5
<1>27. Grouped' BY <1>21, <1>22, <1>23 DEF Grouped
<1>28. {r.id : r \in Results'} \ {Plain} = Answered(next)' BY <1>20, <1>21 DEF Results
<1>29. IF left' > 0 THEN next = Height' + 1 - (depth' - left') ELSE \A n \in WholeNodes' : Len(n) >= next
  BY <1>1, <1>2, <1>25 DEF W
<1>30. AtLevel(next)' BY <1>27, <1>28, <1>29 DEF AtLevel
<1> QED BY <1>26, <1>30

\* MergeInv is an invariant.
LEMMA MergeInvHolds == HierSpec => []MergeInv
<1>1. HierInit /\ HierTyped => MergeInv BY DEF HierInit, MergeInv
<1>2. MergeInv /\ HierTyped' /\ [HierNext]_hierVars => MergeInv'
  <2> SUFFICES ASSUME MergeInv, HierTyped', [HierNext]_hierVars PROVE MergeInv' OBVIOUS
  <2>1. CASE Retrieve BY <2>1, RetrieveMerges
  <2>2. CASE Round
    <3>1. left \in Int /\ left > 0 /\ left' \in {left - 1, 0} BY <2>2 DEF Round, MergeInv, HierTyped
    <3>2. left' # -1 BY <3>1
    <3>3. ~replaced' => \E lev \in 1 .. Height' + 1 : AtLevel(lev)' BY <2>2, RoundMerges
    <3> QED BY <3>2, <3>3 DEF MergeInv
  <2>3. CASE UNCHANGED hierVars
    <3>1. UNCHANGED <<tree, live, ratio, hits, depth, active, settled, left, replaced>> BY <2>3 DEF hierVars, merge
    <3>2. WholeNodes' = WholeNodes /\ Height' = Height BY <3>1 DEF WholeNodes, Own, Reaches, Height, LeafLevel
    <3>3. ASSUME NEW lev \in 1 .. Height + 1, AtLevel(lev) PROVE AtLevel(lev)'
      <4>1. Answered(lev)' = Answered(lev) BY <3>2 DEF Answered
      <4> QED BY <3>1, <3>2, <3>3, <4>1 DEF AtLevel, Grouped, Results
    <3> QED BY <3>1, <3>2, <3>3 DEF MergeInv
  <2> QED BY <2>1, <2>2, <2>3 DEF HierNext
<1> QED BY <1>1, <1>2, HierTypedKept, PTL DEF HierSpec

\* The rounds of _auto_merge_parents, which stop early and group one level at a time,
\* answer the whole nodes that have no whole parent: for every tree of any number of
\* levels, every threshold and every max_depth, too small or too large for the tree,
\* unless a round read rows of another ingest (retriever.py:160-261).
THEOREM MergesToWholeHolds == HierSpec => []MergesToWhole
<1>1. MergeInv => MergesToWhole
  <2> SUFFICES ASSUME MergeInv, left = 0, ~replaced
               PROVE  {r.id : r \in Results} \ {Plain}
                        = {n \in WholeNodes : IsRoot(n) \/ Parent(n) \notin WholeNodes}
    BY DEF MergesToWhole
  <2>0. tree \in Trees /\ live \in (SUBSET LeavesOf(tree)) \ {{}} /\ HierTyped BY DEF MergeInv, HierTyped
  <2>1. PICK lev \in 1 .. Height + 1 : AtLevel(lev) BY DEF MergeInv
  <2>2. {r.id : r \in Results} \ {Plain} = Answered(lev) BY <2>1 DEF AtLevel, Results
  <2>3. Height \in Nat \ {0} /\ \A n \in WholeNodes : Len(n) >= lev /\ n \in tree /\ Len(n) \in 1 .. Height + 1
    BY <2>0, <2>1, WholeIs, TreeShape DEF AtLevel
  <2>4. ASSUME NEW n \in WholeNodes, ~IsRoot(n), Len(n) = lev PROVE Parent(n) \notin WholeNodes
    <3>1. Parent(n) \in tree BY <2>0, <2>3, <2>4, TreeShape DEF Ancestors
    <3>2. Len(n) = Len(Parent(n)) + 1 BY <2>0, <2>3, <3>1, TreeShape
    <3> QED BY <2>3, <2>4, <3>2
  <2>5. ASSUME NEW n \in WholeNodes, IsRoot(n) PROVE Len(n) = lev
    <3>1. Len(n) = 1 /\ 1 >= lev BY <2>3, <2>5 DEF IsRoot
    <3> QED BY <2>1, <3>1
  <2>6. Answered(lev) = {n \in WholeNodes : IsRoot(n) \/ Parent(n) \notin WholeNodes}
    BY <2>3, <2>4, <2>5 DEF Answered
  <2> QED BY <2>2, <2>6
<1> QED BY <1>1, MergeInvHolds, PTL

-----------------------------------------------------------------------------
(* NearDup: the bands of a hash *)

\* No bit is in two bands.
LEMMA BandsApart ==
  ASSUME NEW i \in Nat, NEW j \in Nat, i < j, NEW b \in BandRange(i)
  PROVE  b \notin BandRange(j)
<1>1. BandBits \in Nat BY DedupSettings DEF BandBits
<1> DEFINE w == BandBits
<1>2. b \in Int /\ b <= (i + 1) * w - 1 BY <1>1 DEF BandRange
<1>3. j = (i + 1) + (j - (i + 1)) /\ j - (i + 1) \in Nat OBVIOUS
<1> HIDE DEF w
<1>4. w \in Nat BY <1>1 DEF w
<1>5. \A k \in Nat : (i + 1) * w <= ((i + 1) + k) * w
  <2> SUFFICES ASSUME NEW k \in Nat PROVE (i + 1) * w <= ((i + 1) + k) * w OBVIOUS
  <2>1. ((i + 1) + k) * w = (i + 1) * w + k * w BY <1>4
  <2>2. k * w \in Nat /\ (i + 1) * w \in Nat BY <1>4
  <2> QED BY <2>1, <2>2
<1>6. (i + 1) * w <= j * w BY <1>3, <1>5
<1>7. j * w \in Nat /\ (i + 1) * w \in Nat BY <1>4
<1>8. b < j * w BY <1>2, <1>6, <1>7 DEF w
<1>9. b \in BandRange(j) => j * w <= b BY <1>1 DEF BandRange, w
<1> QED BY <1>2, <1>7, <1>8, <1>9

\* Hashes that agree on a slice have that band in common.
LEMMA SliceIsBand ==
  ASSUME NEW a, NEW h, NEW i \in 0 .. NumBands - 1, a \cap BandRange(i) = h \cap BandRange(i)
  PROVE  Bands(a) \cap Bands(h) # {}
<1> DEFINE band == <<i, {b - i * BandBits : b \in a \cap BandRange(i)}>>
<1>1. band \in Bands(a) BY DEF Bands
<1>2. band = <<i, {b - i * BandBits : b \in h \cap BandRange(i)}>> OBVIOUS
<1>3. band \in Bands(h) BY <1>2 DEF Bands
<1> QED BY <1>1, <1>3

\* Differing bits are finitely many, and none only if the hashes are the same.
LEMMA HammingIsCount ==
  ASSUME NEW a \in SUBSET Bits, NEW h \in SUBSET Bits
  PROVE  /\ IsFiniteSet(Differing(a, h)) /\ Hamming(a, h) \in Nat
         /\ Hamming(a, h) = 0 <=> a = h
<1>1. IsFiniteSet(Bits) BY DedupSettings, FS_Interval DEF Bits
<1>2. IsFiniteSet(Differing(a, h)) BY <1>1, FS_Subset DEF Differing
<1>3. Hamming(a, h) \in Nat BY <1>2, FS_CardinalityType DEF Hamming
<1>4. Hamming(a, h) = 0 <=> Differing(a, h) = {} BY <1>2, FS_EmptySet DEF Hamming
<1> QED BY <1>2, <1>3, <1>4 DEF Differing

\* Hashes that differ in fewer bits than there are bands have a band in common:
\* otherwise each band would have a differing bit of its own.
LEMMA CloseHashesShare ==
  ASSUME NEW a \in SUBSET Bits, NEW h \in SUBSET Bits, Hamming(a, h) < NumBands
  PROVE  Bands(a) \cap Bands(h) # {}
<1> SUFFICES ASSUME Bands(a) \cap Bands(h) = {} PROVE FALSE OBVIOUS
<1> DEFINE I == 0 .. NumBands - 1
           f == [i \in I |-> CHOOSE b : b \in Differing(a, h) \cap BandRange(i)]
<1>1. \A i \in I : f[i] \in Differing(a, h) /\ f[i] \in BandRange(i)
  <2> SUFFICES ASSUME NEW i \in I PROVE \E b : b \in Differing(a, h) \cap BandRange(i) OBVIOUS
  <2>1. a \cap BandRange(i) # h \cap BandRange(i) BY SliceIsBand
  <2> QED BY <2>1 DEF Differing
<1>2. \A i, j \in I : f[i] = f[j] => i = j
  <2> SUFFICES ASSUME NEW i \in I, NEW j \in I, f[i] = f[j], i # j PROVE FALSE OBVIOUS
  <2>1. i \in Nat /\ j \in Nat /\ (i < j \/ j < i) BY DedupSettings
  <2> HIDE DEF f
  <2> QED BY <1>1, <2>1, BandsApart
<1>3. f \in Injection(I, Differing(a, h)) BY <1>1, <1>2 DEF Injection, IsInjective
<1>4. Cardinality(I) <= Hamming(a, h) BY <1>3, HammingIsCount, FS_Injection DEF Hamming
<1>5. Cardinality(I) = NumBands BY DedupSettings, BelowCardinality
<1> QED BY <1>4, <1>5, HammingIsCount, DedupSettings

-----------------------------------------------------------------------------
(* NearDup: the rows *)

\* The document is found by a search for its hash, once it is indexed.
Shares(d) == bands[d] \cap Bands(text[d].hash) # {}
Settling == {d \in Docs : status[d] \in {"new", "indexed"}}

DedupTyped ==
  /\ text \in [Docs -> Texts]
  /\ DOMAIN status = Docs /\ DOMAIN bands = Docs /\ DOMAIN sigs = Docs

\* Unless ingests have met, one document at most is in work, and of the documents
\* with one hash that are through detection one at most shares a band with it.
TwinsInv ==
  /\ DedupTyped
  /\ ~raced =>
       /\ \A d, c \in Busy : d = c
       /\ \A d, c \in Settling :
            d # c /\ text[d].hash = text[c].hash => ~(Shares(d) /\ Shares(c))

\* What the verdict makes of the rows: it retires the new document, or lets it
\* pass, or retires the other one; the bands of no third document change.
LEMMA VerdictWrites ==
  ASSUME DedupTyped, NEW d \in Docs, NEW c \in Docs, c # d, NEW r, r.dup = c,
         NEW B, NEW S, DOMAIN B = Docs, DOMAIN S = Docs, Verdict(d, r, B, S)
  PROVE  /\ DOMAIN status' = Docs /\ DOMAIN bands' = Docs /\ DOMAIN sigs' = Docs
         /\ \A e \in Docs \ {d, c} : status'[e] = status[e] /\ bands'[e] = B[e]
         /\ \/ status'[d] = "outdated" /\ status'[c] = status[c] /\ bands'[c] = B[c]
            \/ /\ status'[d] = "new" /\ status'[c] = status[c] /\ bands'[c] = B[c]
               /\ r.level = "none"
            \/ status'[c] = "outdated" /\ status'[d] \in {"new", "indexed"} /\ bands'[c] = {}
<1>1. CASE r.level = "none" /\ None(d, B, S) BY <1>1 DEF None, DedupTyped
<1>2. ASSUME Outdate(d, c), bands' = B \/ bands' = [B EXCEPT ![d] = {}],
             sigs' = S \/ sigs' = [S EXCEPT ![d] = {}]
      PROVE  /\ DOMAIN status' = Docs /\ DOMAIN bands' = Docs /\ DOMAIN sigs' = Docs
             /\ \A e \in Docs \ {d, c} : status'[e] = status[e] /\ bands'[e] = B[e]
             /\ status'[d] = "outdated" /\ status'[c] = status[c] /\ bands'[c] = B[c]
  BY <1>2 DEF Outdate, DedupTyped
<1>3. ASSUME NEW s \in {"new", "indexed"},
             status' = [status EXCEPT ![c] = "outdated", ![d] = s],
             bands' = [B EXCEPT ![c] = {}], sigs' = [S EXCEPT ![c] = {}]
      PROVE  /\ DOMAIN status' = Docs /\ DOMAIN bands' = Docs /\ DOMAIN sigs' = Docs
             /\ \A e \in Docs \ {d, c} : status'[e] = status[e] /\ bands'[e] = B[e]
             /\ status'[c] = "outdated" /\ status'[d] \in {"new", "indexed"} /\ bands'[c] = {}
  BY <1>3 DEF DedupTyped
<1>4. CASE r.level = "identical" /\ Identical(d, c, B, S)
  <2>1. CASE Outdate(d, c) /\ bands' = B /\ sigs' = S BY <1>2, <2>1
  <2>2. CASE TitleChanged(d, c, B, S) BY <1>2, <1>3, <2>2 DEF TitleChanged
  <2> QED BY <1>4, <2>1, <2>2 DEF Identical
<1>5. CASE r.level = "similar" /\ Similar(d, c, B, S) BY <1>2, <1>3, <1>5 DEF Similar
<1> QED BY <1>1, <1>4, <1>5 DEF Verdict

\* Every candidate is an indexed document other than the new one.
LEMMA CandidatesAreOthers ==
  ASSUME NEW d \in Docs
  PROVE  /\ \A c \in Close(d) : c \in Docs \ {d} /\ status[c] = "indexed"
         /\ Close(d) \subseteq Docs \ {d} /\ Passing(d) \subseteq Docs \ {d}
         /\ Nearest(d, Close(d)) \subseteq Close(d)
BY DEF Close, Sharing, Indexed, Passing, Signed, Nearest

\* A comparison decides about one of its candidates.
LEMMA ComparesOne ==
  ASSUME NEW d, NEW cands, NEW c \in cands, NEW r \in Compare(d, cands, c)
  PROVE  r.dup \in cands
<1>1. PICK e \in Best(d, IF CompareAll THEN cands ELSE {c}) : r.dup = e BY DEF Compare, Finding
<1>2. e \in IF CompareAll THEN cands ELSE {c} BY <1>1 DEF Best
<1> QED BY <1>1, <1>2

\* Detection finds a settled document with the hash of the new one that shares a
\* band with it: that one is close, at distance 0.
LEMMA SameHashIsClose ==
  ASSUME DedupTyped, NEW d \in Docs, NEW c \in Docs, c # d, status[c] = "indexed",
         text[c].hash = text[d].hash, Shares(c)
  PROVE  c \in Close(d) /\ Distance(d, c) = 0
<1>1. text[d].hash \in SUBSET Bits BY DedupSettings DEF DedupTyped
<1>2. Distance(d, c) = 0 BY <1>1, HammingIsCount DEF Distance
<1>3. c \in Sharing(text[d].hash) BY DEF Sharing, Indexed, Shares
<1> QED BY <1>2, <1>3, DedupSettings DEF Close

\* A detection with its verdict keeps the invariant, if it retires other documents
\* or leaves them alone, and leaves in place none that shares the hash.
LEMMA DetectionKeeps ==
  ASSUME TwinsInv, NEW d \in Docs, status[d] = "running", UNCHANGED <<text, raced>>,
         DOMAIN status' = Docs, DOMAIN bands' = Docs, DOMAIN sigs' = Docs,
         \A e \in Docs \ {d} : status'[e] = "outdated" \/ (status'[e] = status[e] /\ bands'[e] = bands[e]),
         ~raced /\ status'[d] \in {"new", "indexed"} =>
           \A e \in Docs \ {d} : status[e] = "indexed" /\ status'[e] = "indexed"
                                   /\ text[e].hash = text[d].hash => ~Shares(e)
  PROVE  TwinsInv'
<1>1. DedupTyped BY DEF TwinsInv
<1>3. DedupTyped' BY <1>1 DEF DedupTyped
<1>4. \A e \in Docs \ {d} : status'[e] \in {"running", "new", "indexed"} =>
        status'[e] = status[e] /\ bands'[e] = bands[e]
  OBVIOUS
<1>5. SUFFICES ASSUME ~raced PROVE /\ (\A x, y \in Busy : x = y)'
                                   /\ (\A x, y \in Settling :
                                         x # y /\ text[x].hash = text[y].hash => ~(Shares(x) /\ Shares(y)))'
  BY <1>3 DEF TwinsInv
<1>6. \A x, y \in Busy : x = y BY <1>5 DEF TwinsInv
<1>7. Busy' \subseteq {d}
  <2>1. d \in Busy BY DEF Busy
  <2> QED BY <1>4, <1>6, <2>1 DEF Busy
<1>8. \A e \in Docs \ {d} : e \in Settling' => /\ e \in Settling /\ status[e] = "indexed" /\ status'[e] = "indexed"
                                               /\ (Shares(e)' <=> Shares(e))
  <2> SUFFICES ASSUME NEW e \in Docs \ {d}, e \in Settling'
               PROVE  /\ e \in Settling /\ status[e] = "indexed" /\ status'[e] = "indexed"
                      /\ (Shares(e)' <=> Shares(e))
    OBVIOUS
  <2>1. e \notin Busy' BY <1>7
  <2>2. status'[e] = "indexed" BY <2>1 DEF Busy, Settling
  <2>3. status[e] = "indexed" /\ bands'[e] = bands[e] BY <1>4, <2>2
  <2> QED BY <2>2, <2>3 DEF Settling, Shares
<1>9. ASSUME NEW x \in Settling', NEW y \in Settling', x # y, text[x].hash = text[y].hash,
             Shares(x)', Shares(y)'
      PROVE  FALSE
  <2>1. x \in Docs /\ y \in Docs BY DEF Settling
  <2>2. CASE x # d /\ y # d
    <3>1. x \in Settling /\ y \in Settling /\ Shares(x) /\ Shares(y) BY <1>8, <1>9, <2>1, <2>2
    <3> QED BY <1>5, <1>9, <3>1 DEF TwinsInv
  <2>3. ASSUME NEW e \in Docs \ {d}, d \in Settling', e \in Settling', text[e].hash = text[d].hash, Shares(e)'
        PROVE  FALSE
    <3>1. status'[d] \in {"new", "indexed"} BY <2>3 DEF Settling
    <3> QED BY <1>5, <1>8, <2>3, <3>1
  <2> QED BY <1>9, <2>1, <2>2, <2>3
<1> QED BY <1>7, <1>9

\* SimHash has found a candidate: the verdict keeps the invariant, as a candidate
\* with the hash of the new document is the only one there is.
LEMMA DetectCloseKeeps ==
  ASSUME TwinsInv, NEW d \in Docs, DetectClose(d)
  PROVE  TwinsInv'
<1>1. DedupTyped /\ status[d] = "running" /\ UNCHANGED <<text, raced>> BY DEF TwinsInv, DetectClose
<1>2. PICK c \in Nearest(d, Close(d)) :
        IF Distance(d, c) <= IdenticalDistance
        THEN Verdict(d, Finding("identical", c), bands, sigs)
        ELSE \E r \in Compare(d, Close(d), c) : Verdict(d, r, bands, sigs)
  BY DEF DetectClose
<1>3. c \in Close(d) /\ \A e \in Close(d) : Distance(d, c) <= Distance(d, e) BY DEF Nearest
<1>4. PICK r : /\ Verdict(d, r, bands, sigs) /\ r.dup \in Close(d)
               /\ Distance(d, c) <= IdenticalDistance => r.level = "identical" /\ r.dup = c
  <2>1. CASE Distance(d, c) <= IdenticalDistance
    <3>1. Finding("identical", c).dup = c /\ Finding("identical", c).level = "identical" BY DEF Finding
    <3> QED BY <1>2, <1>3, <2>1, <3>1
  <2>2. CASE ~(Distance(d, c) <= IdenticalDistance) BY <1>2, <1>3, <2>2, ComparesOne
  <2> QED BY <2>1, <2>2
<1>5. r.dup \in Docs /\ r.dup # d BY <1>4, CandidatesAreOthers
<1>6. /\ DOMAIN status' = Docs /\ DOMAIN bands' = Docs /\ DOMAIN sigs' = Docs
      /\ \A e \in Docs \ {d, r.dup} : status'[e] = status[e] /\ bands'[e] = bands[e]
      /\ \/ status'[d] = "outdated" /\ status'[r.dup] = status[r.dup] /\ bands'[r.dup] = bands[r.dup]
         \/ /\ status'[d] = "new" /\ status'[r.dup] = status[r.dup] /\ bands'[r.dup] = bands[r.dup]
            /\ r.level = "none"
         \/ status'[r.dup] = "outdated" /\ status'[d] \in {"new", "indexed"} /\ bands'[r.dup] = {}
  <2>1. DOMAIN bands = Docs /\ DOMAIN sigs = Docs BY <1>1 DEF DedupTyped
  <2> QED BY <1>1, <1>4, <1>5, <2>1, VerdictWrites
<1>7. ASSUME ~raced, status'[d] \in {"new", "indexed"}, NEW e \in Docs \ {d}, status[e] = "indexed",
             status'[e] = "indexed", text[e].hash = text[d].hash, Shares(e)
      PROVE  FALSE
  <2>1. e \in Close(d) /\ Distance(d, e) = 0 BY <1>1, <1>7, SameHashIsClose
  <2>2. c \in Docs \ {d} /\ status[c] = "indexed" BY <1>3, CandidatesAreOthers
  <2>3. text[d].hash \in SUBSET Bits /\ text[c].hash \in SUBSET Bits
    BY <1>1, <2>2, DedupSettings DEF DedupTyped
  <2>4. Distance(d, c) = 0
    <3>1. Distance(d, c) \in Nat /\ Distance(d, c) <= 0 BY <1>3, <2>1, <2>3, HammingIsCount DEF Distance
    <3> QED BY <3>1
  <2>5. text[c].hash = text[e].hash BY <1>7, <2>3, <2>4, HammingIsCount DEF Distance
  <2>6. Shares(c) BY <1>3, <1>7, <2>5 DEF Close, Sharing, Shares
  <2>7. c \in Settling /\ e \in Settling BY <1>7, <2>2 DEF Settling
  <2>8. c = e BY <1>7, <2>5, <2>6, <2>7 DEF TwinsInv
  <2>9. r.level = "identical" /\ r.dup = e BY <1>4, <2>4, <2>8, DedupSettings
  <2> QED BY <1>6, <1>7, <2>9
<1> QED BY <1>1, <1>5, <1>6, <1>7, DetectionKeeps

\* SimHash has found none: no document with the hash of the new one is indexed
\* and shares a band with it.
LEMMA DetectOtherKeeps ==
  ASSUME TwinsInv, NEW d \in Docs, DetectOther(d)
  PROVE  TwinsInv'
<1> DEFINE B == [bands EXCEPT ![d] = Bands(text[d].hash)]
           S == [sigs EXCEPT ![d] = {text[d].sig}]
<1>1. DedupTyped /\ status[d] = "running" /\ UNCHANGED <<text, raced>> /\ Close(d) = {}
  BY DEF TwinsInv, DetectOther
<1>2. None(d, B, S) \/ \E r : Verdict(d, r, B, S) /\ r.dup \in Passing(d)
  <2>1. \/ Passing(d) = {} /\ None(d, B, S)
        \/ \E c \in Passing(d) : \E r \in Compare(d, Passing(d), c) : Verdict(d, r, B, S)
    BY DEF DetectOther
  <2> QED BY <2>1, ComparesOne
<1>3. /\ DOMAIN B = Docs /\ DOMAIN S = Docs /\ \A e \in Docs \ {d} : B[e] = bands[e]
  BY <1>1 DEF DedupTyped
<1> HIDE DEF B, S
<1>4. ASSUME NEW e \in Docs \ {d}, status[e] = "indexed", text[e].hash = text[d].hash, Shares(e)
      PROVE  FALSE
  BY <1>1, <1>4, SameHashIsClose
<1>5. /\ DOMAIN status' = Docs /\ DOMAIN bands' = Docs /\ DOMAIN sigs' = Docs
      /\ \A e \in Docs \ {d} : status'[e] = "outdated" \/ (status'[e] = status[e] /\ bands'[e] = bands[e])
  <2>1. CASE None(d, B, S) BY <1>1, <1>3, <2>1 DEF None, DedupTyped
  <2>2. CASE \E r : Verdict(d, r, B, S) /\ r.dup \in Passing(d)
    <3>1. PICK r : Verdict(d, r, B, S) /\ r.dup \in Passing(d) BY <2>2
    <3>2. r.dup \in Docs /\ r.dup # d BY <3>1, CandidatesAreOthers
    <3>3. /\ DOMAIN status' = Docs /\ DOMAIN bands' = Docs /\ DOMAIN sigs' = Docs
          /\ \A e \in Docs \ {d, r.dup} : status'[e] = status[e] /\ bands'[e] = B[e]
          /\ status'[r.dup] = "outdated" \/ (status'[r.dup] = status[r.dup] /\ bands'[r.dup] = B[r.dup])
      BY <1>1, <1>3, <3>1, <3>2, VerdictWrites
    <3> QED BY <1>3, <3>2, <3>3
  <2> QED BY <1>2, <2>1, <2>2
<1> QED BY <1>1, <1>4, <1>5, DetectionKeeps

\* The other steps do not bring a document into the index.
LEMMA OtherDedupStepsKeep ==
  ASSUME TwinsInv, NEW d \in Docs, (\E t \in Texts : Ingest(d, t)) \/ Embed(d) \/ FailIngest(d)
  PROVE  TwinsInv'
<1>1. DedupTyped BY DEF TwinsInv
<1>2. ASSUME NEW t \in Texts, Ingest(d, t) PROVE TwinsInv'
  <2>1. DedupTyped' BY <1>1, <1>2 DEF DedupTyped, Ingest
  <2>2. /\ \A e \in Docs \ {d} : status'[e] = status[e] /\ text'[e] = text[e]
        /\ status'[d] = "running" /\ bands' = bands
    BY <1>1, <1>2 DEF DedupTyped, Ingest
  <2> SUFFICES ASSUME ~raced' PROVE /\ (\A x, y \in Busy : x = y)'
                                    /\ (\A x, y \in Settling :
                                          x # y /\ text[x].hash = text[y].hash => ~(Shares(x) /\ Shares(y)))'
    BY <2>1 DEF TwinsInv
  <2>3. ~raced /\ Busy = {} BY <1>2 DEF Ingest
  <2>4. Busy' \subseteq {d} BY <2>2, <2>3 DEF Busy
  <2>5. \A x \in Settling' : x \in Settling /\ text'[x] = text[x] /\ (Shares(x)' <=> Shares(x))
    BY <2>2 DEF Settling, Shares
  <2> QED BY <2>3, <2>4, <2>5 DEF TwinsInv
<1>3. CASE Embed(d)
  <2>1. DedupTyped' BY <1>1, <1>3 DEF DedupTyped, Embed
  <2>2. Busy' \subseteq Busy /\ Settling' = Settling BY <1>1, <1>3 DEF DedupTyped, Embed, Busy, Settling
  <2>3. \A x : Shares(x)' <=> Shares(x) BY <1>3 DEF Embed, Shares
  <2>4. text' = text /\ raced' = raced BY <1>3 DEF Embed
  <2> QED BY <2>1, <2>2, <2>3, <2>4 DEF TwinsInv
<1>4. CASE FailIngest(d)
  <2>1. DedupTyped' BY <1>1, <1>4 DEF DedupTyped, FailIngest
  <2>2. Busy' \subseteq Busy /\ Settling' \subseteq Settling \ {d}
    BY <1>1, <1>4 DEF DedupTyped, FailIngest, Busy, Settling
  <2>3. \A x \in Docs \ {d} : Shares(x)' <=> Shares(x) BY <1>1, <1>4 DEF FailIngest, Shares, DedupTyped
  <2>4. text' = text /\ raced' = raced BY <1>4 DEF FailIngest
  <2>5. Settling \subseteq Docs BY DEF Settling
  <2> QED BY <2>1, <2>2, <2>3, <2>4, <2>5 DEF TwinsInv
<1> QED BY <1>2, <1>3, <1>4

\* The invariant holds from the start and is kept by every step of the detection.
LEMMA TwinsInvHolds == DedupSpec => []TwinsInv
<1>1. DedupInit => TwinsInv
  <2> SUFFICES ASSUME DedupInit PROVE TwinsInv OBVIOUS
  <2>1. DedupTyped BY DEF DedupInit, DedupTyped
  <2>2. Busy = {} /\ Settling = {} BY DEF DedupInit, Busy, Settling
  <2> QED BY <2>1, <2>2 DEF TwinsInv
<1>2. TwinsInv /\ [DedupNext]_dedupVars => TwinsInv'
  <2>1. TwinsInv /\ UNCHANGED dedupVars => TwinsInv'
    BY DEF dedupVars, TwinsInv, DedupTyped, Busy, Settling, Shares
  <2> QED BY <2>1, DetectCloseKeeps, DetectOtherKeeps, OtherDedupStepsKeep DEF DedupNext
<1> QED BY <1>1, <1>2, PTL DEF DedupSpec

\* Splitting hashes into bands (simhash.py:65) misses no indexed document that is
\* closer than the number of bands, for any width, number of bands and hashes.
THEOREM CloseShareBandHolds == DedupSpec => []CloseShareBand
<1>1. TwinsInv => CloseShareBand
  <2> SUFFICES ASSUME TwinsInv, NEW d \in Docs, NEW c \in Indexed, Banded(c), Distance(d, c) < NumBands
               PROVE  c \in Sharing(text[d].hash)
    BY DEF CloseShareBand
  <2>1. c \in Docs /\ text[d].hash \in SUBSET Bits /\ text[c].hash \in SUBSET Bits
    BY DedupSettings DEF TwinsInv, DedupTyped, Indexed
  <2>2. Bands(text[d].hash) \cap Bands(text[c].hash) # {} BY <2>1, CloseHashesShare DEF Distance
  <2> QED BY <2>2 DEF Sharing, Banded
<1> QED BY <1>1, TwinsInvHolds, PTL

\* Of two indexed documents of one text, one is not in the SimHash index under its
\* hash, unless ingests have met (known-issues.md:213): for any number of
\* documents, any texts and dates, whatever is re-ingested, fails or is retired.
THEOREM TwinsLeftIndexHolds == DedupSpec => []TwinsLeftIndex
<1>1. TwinsInv => TwinsLeftIndex
  <2> SUFFICES ASSUME TwinsInv, NEW d \in Docs, NEW c \in Docs, d # c, status[d] = "indexed",
                      status[c] = "indexed", text[d] = text[c], Banded(d), Banded(c), ~raced
               PROVE  FALSE
    BY DEF TwinsLeftIndex
  <2>1. d \in Settling /\ c \in Settling BY DEF Settling
  <2>2. 0 \in 0 .. NumBands - 1 BY DedupSettings
  <2>3. Bands(text[d].hash) \cap Bands(text[d].hash) # {} BY <2>2, SliceIsBand
  <2>4. Shares(d) /\ Shares(c) BY <2>3 DEF Shares, Banded
  <2> QED BY <2>1, <2>4 DEF TwinsInv
<1> QED BY <1>1, TwinsInvHolds, PTL

-----------------------------------------------------------------------------
(* NearDup: chains of duplicates *)

\* The outdated documents.
Retirees == {d \in Docs : status[d] = "outdated"}

\* Until an ingest fails, duplicate_of leads from an outdated document to one that
\* is indexed, in work or outdated, and out of every set of outdated documents:
\* there is no cycle.
RetiredInv ==
  /\ status \in [Docs -> {"none", "running", "new", "indexed", "failed", "outdated"}]
  /\ twinOf \in [Docs -> Docs]
  /\ ~lost => /\ \A d \in Retirees : status[twinOf[d]] \in {"indexed", "new", "running", "outdated"}
              /\ \A R \in SUBSET Retirees : R # {} => \E d \in R : twinOf[d] \notin R

\* What a verdict does to the rows: the document, or the one it is compared with,
\* is retired for the other, which stays or comes to life; or nobody is retired.
LEMMA VerdictRetires ==
  ASSUME RetiredInv, NEW d \in Docs, NEW r, NEW B, NEW S, Verdict(d, r, B, S),
         status[d] = "running", r.dup \in Docs \ {d}, status[r.dup] = "indexed"
  PROVE  /\ status' \in [Docs -> {"none", "running", "new", "indexed", "failed", "outdated"}]
         /\ \E s \in {"new", "indexed"} :
              \/ twinOf' = twinOf /\ status' = [status EXCEPT ![d] = s]
              \/ /\ twinOf' = [twinOf EXCEPT ![d] = r.dup]
                 /\ status' = [status EXCEPT ![d] = "outdated"]
              \/ /\ twinOf' = [twinOf EXCEPT ![r.dup] = d]
                 /\ status' = [status EXCEPT ![r.dup] = "outdated", ![d] = s]
<1>1. CASE r.level = "none" /\ None(d, B, S) BY <1>1 DEF None, RetiredInv
<1>2. CASE Outdate(d, r.dup) BY <1>2 DEF Outdate, RetiredInv
<1>3. CASE r.level = "identical" /\ Identical(d, r.dup, B, S)
  BY <1>2, <1>3 DEF Identical, TitleChanged, RetiredInv
<1>4. CASE r.level = "similar" /\ Similar(d, r.dup, B, S)
  BY <1>2, <1>4 DEF Similar, RetiredInv
<1> QED BY <1>1, <1>3, <1>4 DEF Verdict

\* Retiring one living document for another keeps duplicate_of free of cycles.
LEMMA RetiringKeeps ==
  ASSUME RetiredInv, NEW x \in Docs, NEW y \in Docs, x # y, lost' = lost,
         status' \in [Docs -> {"none", "running", "new", "indexed", "failed", "outdated"}],
         status[x] \in {"running", "indexed"}, status[y] \in {"running", "indexed"},
         status'[x] = "outdated", status'[y] \in {"indexed", "new", "running"},
         \A e \in Docs \ {x, y} : status'[e] = status[e],
         twinOf' = [twinOf EXCEPT ![x] = y]
  PROVE  RetiredInv'
<1>1. twinOf' \in [Docs -> Docs] BY DEF RetiredInv
<1> SUFFICES ASSUME ~lost
             PROVE  /\ \A d \in Retirees' : status'[twinOf'[d]] \in {"indexed", "new", "running", "outdated"}
                    /\ \A R \in SUBSET Retirees' : R # {} => \E d \in R : twinOf'[d] \notin R
  BY <1>1 DEF RetiredInv
<1>2. Retirees' = Retirees \cup {x} /\ x \notin Retirees /\ y \notin Retirees' BY DEF Retirees
<1>3. /\ \A d \in Retirees : twinOf'[d] = twinOf[d] /\ twinOf[d] \in Docs
      /\ twinOf'[x] = y /\ Retirees \subseteq Docs
  BY <1>2 DEF RetiredInv, Retirees
<1>4. ASSUME NEW e \in Docs, status[e] \in {"indexed", "new", "running", "outdated"}
      PROVE  status'[e] \in {"indexed", "new", "running", "outdated"}
  BY <1>4
<1>5. ASSUME NEW d \in Retirees' PROVE status'[twinOf'[d]] \in {"indexed", "new", "running", "outdated"}
  BY <1>2, <1>3, <1>4, <1>5 DEF RetiredInv
<1>6. ASSUME NEW R \in SUBSET Retirees', R # {} PROVE \E d \in R : twinOf'[d] \notin R
  <2>1. CASE x \in R BY <1>2, <1>3, <1>6, <2>1
  <2>2. CASE x \notin R
    <3>1. R \in SUBSET Retirees BY <1>2, <1>6, <2>2
    <3>2. PICK d \in R : twinOf[d] \notin R BY <1>6, <3>1 DEF RetiredInv
    <3> QED BY <1>3, <3>1, <3>2
  <2> QED BY <2>1, <2>2
<1> QED BY <1>5, <1>6

\* A step that retires nobody and lets nobody vanish keeps the invariant.
LEMMA NobodyRetires ==
  ASSUME RetiredInv, twinOf' = twinOf, ~lost' => ~lost,
         status' \in [Docs -> {"none", "running", "new", "indexed", "failed", "outdated"}],
         ~lost' => \A e \in Docs :
           \/ status'[e] = status[e]
           \/ status'[e] \in {"indexed", "new", "running"}
  PROVE  RetiredInv'
<1> SUFFICES ASSUME ~lost'
             PROVE  /\ \A d \in Retirees' : status'[twinOf[d]] \in {"indexed", "new", "running", "outdated"}
                    /\ \A R \in SUBSET Retirees' : R # {} => \E d \in R : twinOf[d] \notin R
  BY DEF RetiredInv
<1>1. Retirees' \subseteq Retirees BY DEF Retirees
<1>2. \A d \in Retirees : twinOf[d] \in Docs BY DEF Retirees, RetiredInv
<1>3. \A d \in Retirees' : status'[twinOf[d]] \in {"indexed", "new", "running", "outdated"}
  BY <1>1, <1>2 DEF RetiredInv
<1>4. \A R \in SUBSET Retirees' : R \in SUBSET Retirees BY <1>1
<1> QED BY <1>3, <1>4 DEF RetiredInv

\* A detection with its verdict keeps the invariant.
LEMMA DetectionRetires ==
  ASSUME RetiredInv, NEW d \in Docs, status[d] = "running", lost' = lost,
         NEW r, NEW B, NEW S, Verdict(d, r, B, S), r.dup \in Docs \ {d}, status[r.dup] = "indexed"
  PROVE  RetiredInv'
<1>1. PICK s \in {"new", "indexed"} :
        \/ twinOf' = twinOf /\ status' = [status EXCEPT ![d] = s]
        \/ /\ twinOf' = [twinOf EXCEPT ![d] = r.dup]
           /\ status' = [status EXCEPT ![d] = "outdated"]
        \/ /\ twinOf' = [twinOf EXCEPT ![r.dup] = d]
           /\ status' = [status EXCEPT ![r.dup] = "outdated", ![d] = s]
  BY VerdictRetires
<1>2. status' \in [Docs -> {"none", "running", "new", "indexed", "failed", "outdated"}] BY VerdictRetires
<1>3. status \in [Docs -> {"none", "running", "new", "indexed", "failed", "outdated"}] BY DEF RetiredInv
<1>4. CASE twinOf' = twinOf /\ status' = [status EXCEPT ![d] = s]
  <2>1. \A e \in Docs : status'[e] = status[e] \/ status'[e] \in {"indexed", "new", "running"}
    BY <1>3, <1>4
  <2> QED BY <1>2, <1>4, <2>1, NobodyRetires
<1>5. CASE /\ twinOf' = [twinOf EXCEPT ![d] = r.dup]
           /\ status' = [status EXCEPT ![d] = "outdated"]
  <2>1. /\ \A e \in Docs \ {d, r.dup} : status'[e] = status[e]
        /\ status'[d] = "outdated" /\ status'[r.dup] = "indexed"
    BY <1>3, <1>5
  <2> QED BY <1>2, <1>5, <2>1, RetiringKeeps
<1>6. CASE /\ twinOf' = [twinOf EXCEPT ![r.dup] = d]
           /\ status' = [status EXCEPT ![r.dup] = "outdated", ![d] = s]
  <2>1. /\ \A e \in Docs \ {r.dup, d} : status'[e] = status[e]
        /\ status'[r.dup] = "outdated" /\ status'[d] = s
    BY <1>3, <1>6
  <2> QED BY <1>2, <1>6, <2>1, RetiringKeeps
<1> QED BY <1>1, <1>4, <1>5, <1>6

\* Every step of the detection and of the ingests around it keeps the invariant.
LEMMA RetiredInvKept ==
  ASSUME RetiredInv, [DedupNext]_dedupVars
  PROVE  RetiredInv'
<1>1. ASSUME NEW d \in Docs, NEW t \in Texts, Ingest(d, t) PROVE RetiredInv'
  <2>1. /\ status' \in [Docs -> {"none", "running", "new", "indexed", "failed", "outdated"}]
        /\ \A e \in Docs : status'[e] = status[e] \/ status'[e] = "running"
        /\ twinOf' = twinOf /\ (~lost' => ~lost)
    BY <1>1 DEF Ingest, RetiredInv
  <2> QED BY <2>1, NobodyRetires
<1>2. ASSUME NEW d \in Docs, Embed(d) PROVE RetiredInv'
  <2>1. /\ status' \in [Docs -> {"none", "running", "new", "indexed", "failed", "outdated"}]
        /\ \A e \in Docs : status'[e] = status[e] \/ status'[e] = "indexed"
        /\ twinOf' = twinOf /\ lost' = lost
    BY <1>2 DEF Embed, RetiredInv
  <2> QED BY <2>1, NobodyRetires
<1>3. ASSUME NEW d \in Docs, FailIngest(d) PROVE RetiredInv'
  BY <1>3 DEF FailIngest, RetiredInv
<1>4. ASSUME NEW d \in Docs, DetectClose(d) PROVE RetiredInv'
  <2>1. PICK c \in Nearest(d, Close(d)) :
          IF Distance(d, c) <= IdenticalDistance
          THEN Verdict(d, Finding("identical", c), bands, sigs)
          ELSE \E r \in Compare(d, Close(d), c) : Verdict(d, r, bands, sigs)
    BY <1>4 DEF DetectClose
  <2>2. c \in Close(d) BY CandidatesAreOthers
  <2>3. PICK r : Verdict(d, r, bands, sigs) /\ r.dup \in Close(d)
    <3>1. Finding("identical", c).dup = c BY DEF Finding
    <3> QED BY <2>1, <2>2, <3>1, ComparesOne
  <2>4. r.dup \in Docs \ {d} /\ status[r.dup] = "indexed" BY <2>3, CandidatesAreOthers
  <2>5. status[d] = "running" /\ lost' = lost BY <1>4 DEF DetectClose
  <2> QED BY <2>3, <2>4, <2>5, DetectionRetires
<1>5. ASSUME NEW d \in Docs, DetectOther(d) PROVE RetiredInv'
  <2> DEFINE B == [bands EXCEPT ![d] = Bands(text[d].hash)]
             S == [sigs EXCEPT ![d] = {text[d].sig}]
  <2>1. \/ None(d, B, S)
        \/ \E c \in Passing(d) : \E r \in Compare(d, Passing(d), c) : Verdict(d, r, B, S)
    BY <1>5 DEF DetectOther
  <2> HIDE DEF B, S
  <2>2. status[d] = "running" /\ lost' = lost BY <1>5 DEF DetectOther
  <2>3. CASE None(d, B, S)
    <3>1. /\ status' \in [Docs -> {"none", "running", "new", "indexed", "failed", "outdated"}]
          /\ \A e \in Docs : status'[e] = status[e] \/ status'[e] = "new"
          /\ twinOf' = twinOf
      BY <2>3 DEF None, RetiredInv
    <3> QED BY <2>2, <3>1, NobodyRetires
  <2>4. CASE \E r : Verdict(d, r, B, S) /\ r.dup \in Passing(d)
    <3>1. PICK r : Verdict(d, r, B, S) /\ r.dup \in Passing(d) BY <2>4
    <3>2. r.dup \in Docs \ {d} BY <3>1, CandidatesAreOthers
    <3>3. status[r.dup] = "indexed" BY <3>1 DEF Passing, Signed, Indexed
    <3> QED BY <2>2, <3>1, <3>2, <3>3, DetectionRetires
  <2> QED BY <2>1, <2>3, <2>4, ComparesOne
<1>6. CASE UNCHANGED dedupVars BY <1>6 DEF dedupVars, RetiredInv, Retirees
<1> QED BY <1>1, <1>2, <1>3, <1>4, <1>5, <1>6 DEF DedupNext

\* The chain of duplicate_of that the property follows, up to k rows, exists.
LEMMA ChainExists ==
  ASSUME twinOf \in [Docs -> Docs], NEW k \in Nat
  PROVE  \E f : f = [n \in 0 .. k |-> [e \in Docs |->
                       IF n = 0 \/ status[e] # "outdated" THEN e ELSE f[n - 1][twinOf[e]]]]
<1> DEFINE Good(f, m) == f = [n \in 0 .. m |-> [e \in Docs |->
                       IF n = 0 \/ status[e] # "outdated" THEN e ELSE f[n - 1][twinOf[e]]]]
           S == {m \in Nat : \E f : Good(f, m)}
<1>1. 0 \in S
  <2> DEFINE f == [n \in 0 .. 0 |-> [e \in Docs |-> e]]
  <2>1. Good(f, 0) OBVIOUS
  <2> QED BY <2>1
<1>2. ASSUME NEW m \in Nat, m \in S PROVE m + 1 \in S
  <2>1. PICK f : Good(f, m) BY <1>2
  <2> DEFINE g == [n \in 0 .. m + 1 |-> [e \in Docs |->
                     IF n = 0 \/ status[e] # "outdated" THEN e ELSE f[n - 1][twinOf[e]]]]
  <2>2. \A n \in 0 .. m, e \in Docs : f[n][e] = g[n][e]
    <3>1. ASSUME NEW n \in 0 .. m, NEW e \in Docs PROVE f[n][e] = g[n][e]
      <4>1. f[n][e] = IF n = 0 \/ status[e] # "outdated" THEN e ELSE f[n - 1][twinOf[e]] BY <2>1
      <4>2. n \in 0 .. m + 1 OBVIOUS
      <4> QED BY <4>1, <4>2
    <3> QED BY <3>1
  <2>3. \A n \in 0 .. m + 1, e \in Docs : n # 0 => f[n - 1][twinOf[e]] = g[n - 1][twinOf[e]]
    <3>1. \A n \in 0 .. m + 1 : n # 0 => n - 1 \in 0 .. m OBVIOUS
    <3>2. \A e \in Docs : twinOf[e] \in Docs OBVIOUS
    <3> HIDE DEF g
    <3> QED BY <2>2, <3>1, <3>2
  <2>4. Good(g, m + 1) BY <2>3
  <2> HIDE DEF g, Good
  <2> QED BY <2>4
<1> HIDE DEF S
<1>3. k \in S BY <1>1, <1>2, NumbersByStep
<1> QED BY <1>3 DEF S

\* Following duplicate_of from a document leads to a living one within as many
\* steps as there are documents.
LEMMA ChainEnds ==
  ASSUME RetiredInv, ~lost, NEW f,
         f = [n \in 0 .. Cardinality(Docs) |-> [e \in Docs |->
                IF n = 0 \/ status[e] # "outdated" THEN e ELSE f[n - 1][twinOf[e]]]]
  PROVE  \A d \in Retirees : status[f[Cardinality(Docs)][d]] \in {"indexed", "new", "running"}
<1> DEFINE K == Cardinality(Docs)
           Stays(n) == {e \in Docs : status[f[n][e]] = "outdated"}
           Known(n) == \A e \in Docs : f[n][e] \in Docs /\ (status[e] = "outdated" =>
                          status[f[n][e]] \in {"indexed", "new", "running", "outdated"})
           S == {n \in Nat : n <= K =>
                   /\ Known(n) /\ Stays(n) \subseteq Retirees
                   /\ Stays(n) # {} => Cardinality(Stays(n)) <= K - n
                   /\ n < K => Stays(n + 1) \subseteq Stays(n)}
<1>1. K \in Nat /\ IsFiniteSet(Docs) BY DedupSettings, FS_CardinalityType
<1>2. /\ twinOf \in [Docs -> Docs] /\ Retirees \subseteq Docs
      /\ \A d \in Retirees : status[twinOf[d]] \in {"indexed", "new", "running", "outdated"}
      /\ \A R \in SUBSET Retirees : R # {} => \E d \in R : twinOf[d] \notin R
  BY DEF RetiredInv, Retirees
<1>3. \A n \in 0 .. K, e \in Docs :
        f[n][e] = IF n = 0 \/ status[e] # "outdated" THEN e ELSE f[n - 1][twinOf[e]]
  <2> SUFFICES ASSUME NEW n \in 0 .. K, NEW e \in Docs
               PROVE  f[n][e] = IF n = 0 \/ status[e] # "outdated" THEN e ELSE f[n - 1][twinOf[e]]
    OBVIOUS
  <2>1. f[n] = [c \in Docs |-> IF n = 0 \/ status[c] # "outdated" THEN c ELSE f[n - 1][twinOf[c]]]
    OBVIOUS
  <2> QED BY <2>1
<1>31. \A n \in 0 .. K, e \in Docs : status[e] # "outdated" => f[n][e] = e BY <1>3
<1>4. \A e \in Docs : f[0][e] = e BY <1>1, <1>3
<1>5. ASSUME NEW n \in 0 .. K - 1, NEW e \in Docs, status[e] = "outdated" PROVE f[n + 1][e] = f[n][twinOf[e]]
  <2>1. n + 1 \in 0 .. K /\ n + 1 # 0 /\ (n + 1) - 1 = n BY <1>1
  <2> QED BY <1>3, <1>5, <2>1
<1> HIDE DEF K
<1>6. ASSUME NEW n \in 0 .. K PROVE Stays(n) \subseteq Retirees /\ IsFiniteSet(Stays(n)) /\ Cardinality(Stays(n)) \in Nat
  <2>1. Stays(n) \subseteq Retirees BY <1>31 DEF Retirees
  <2>2. Stays(n) \in SUBSET Docs OBVIOUS
  <2>3. IsFiniteSet(Stays(n)) BY <1>1, <2>2, FS_Subset
  <2> HIDE DEF Stays
  <2> QED BY <2>1, <2>3, FS_CardinalityType
<1>7. Known(0) BY <1>4
<1>8. Stays(0) \subseteq Retirees /\ Cardinality(Stays(0)) <= K
  <2>1. Stays(0) \in SUBSET Docs OBVIOUS
  <2>2. 0 \in 0 .. K BY <1>1
  <2> HIDE DEF Stays
  <2> QED BY <1>1, <1>6, <2>1, <2>2, FS_Subset DEF K
<1>9. ASSUME NEW n \in 0 .. K - 1, Known(n) PROVE Known(n + 1)
  <2>1. n \in 0 .. K /\ n + 1 \in 0 .. K BY <1>1
  <2> SUFFICES ASSUME NEW e \in Docs
               PROVE  f[n + 1][e] \in Docs /\ (status[e] = "outdated" =>
                          status[f[n + 1][e]] \in {"indexed", "new", "running", "outdated"})
    OBVIOUS
  <2>2. CASE status[e] # "outdated" BY <1>31, <2>1, <2>2
  <2>3. CASE status[e] = "outdated"
    <3>1. f[n + 1][e] = f[n][twinOf[e]] BY <1>5, <2>3
    <3>2. twinOf[e] \in Docs /\ status[twinOf[e]] \in {"indexed", "new", "running", "outdated"}
      BY <1>2, <2>3 DEF Retirees
    <3>3. status[twinOf[e]] # "outdated" => f[n][twinOf[e]] = twinOf[e] BY <1>31, <2>1, <3>2
    <3> QED BY <1>9, <3>1, <3>2, <3>3
  <2> QED BY <2>2, <2>3
<1>10. 0 < K => Stays(1) \subseteq Stays(0)
  <2> SUFFICES ASSUME 0 < K PROVE Stays(1) \subseteq Retirees /\ \A e \in Retirees : e \in Stays(0)
    OBVIOUS
  <2>1. 1 \in 0 .. K BY <1>1
  <2>2. \A e \in Retirees : e \in Stays(0) BY <1>4 DEF Retirees
  <2> QED BY <1>6, <2>1, <2>2
<1>11. ASSUME NEW n \in 0 .. K - 1, Stays(n + 1) \subseteq Stays(n), n + 1 < K
       PROVE  Stays(n + 2) \subseteq Stays(n + 1)
  <2>1. /\ n + 1 \in 0 .. K - 1 /\ n + 2 \in 0 .. K /\ n + 1 \in 0 .. K /\ (n + 1) + 1 = n + 2
    BY <1>1, <1>11
  <2> SUFFICES ASSUME NEW e \in Stays(n + 2) PROVE e \in Stays(n + 1) OBVIOUS
  <2>2. e \in Docs /\ status[e] = "outdated" BY <1>6, <2>1 DEF Retirees
  <2>3. f[n + 2][e] = f[n + 1][twinOf[e]] /\ f[n + 1][e] = f[n][twinOf[e]] BY <1>5, <2>1, <2>2
  <2>4. twinOf[e] \in Stays(n + 1) BY <1>2, <2>2, <2>3
  <2>5. twinOf[e] \in Stays(n) BY <1>11, <2>4
  <2> QED BY <2>2, <2>3, <2>5
<1>12. ASSUME NEW n \in 0 .. K - 1, Stays(n + 1) \subseteq Stays(n),
              Stays(n) # {} => Cardinality(Stays(n)) <= K - n
       PROVE  Stays(n + 1) # {} => Cardinality(Stays(n + 1)) <= K - (n + 1)
  <2>1. n \in 0 .. K /\ n + 1 \in 0 .. K BY <1>1
  <2> SUFFICES ASSUME Stays(n + 1) # {} PROVE Cardinality(Stays(n + 1)) <= K - (n + 1) OBVIOUS
  <2>2. Stays(n) # {} /\ Stays(n) \in SUBSET Retirees BY <1>6, <1>12, <2>1
  <2>3. PICK d \in Stays(n) : twinOf[d] \notin Stays(n) BY <1>2, <2>2
  <2>4. d \in Docs /\ status[d] = "outdated" /\ twinOf[d] \in Docs BY <1>2, <2>2 DEF Retirees
  <2>5. d \notin Stays(n + 1) BY <1>5, <2>3, <2>4
  <2> HIDE DEF Stays
  <2>6. Cardinality(Stays(n + 1)) <= Cardinality(Stays(n)) /\ Cardinality(Stays(n + 1)) # Cardinality(Stays(n))
    BY <1>6, <1>12, <2>1, <2>3, <2>5, FS_Subset
  <2>7. Cardinality(Stays(n + 1)) \in Nat /\ Cardinality(Stays(n)) \in Nat BY <1>6, <2>1
  <2> QED BY <1>1, <1>12, <2>2, <2>6, <2>7
<1> HIDE DEF Known, Stays
<1>13. 0 \in S
  <2>1. 0 + 1 = 1 /\ K - 0 = K BY <1>1
  <2> QED BY <1>7, <1>8, <1>10, <2>1
<1>14. ASSUME NEW n \in Nat, n \in S PROVE n + 1 \in S
  <2> SUFFICES ASSUME n + 1 <= K
               PROVE  /\ Known(n + 1) /\ Stays(n + 1) \subseteq Retirees
                      /\ Stays(n + 1) # {} => Cardinality(Stays(n + 1)) <= K - (n + 1)
                      /\ n + 1 < K => Stays((n + 1) + 1) \subseteq Stays(n + 1)
    OBVIOUS
  <2>1. n \in 0 .. K - 1 /\ n <= K /\ n < K /\ n + 1 \in 0 .. K /\ (n + 1) + 1 = n + 2 BY <1>1
  <2>2. /\ Known(n) /\ Stays(n + 1) \subseteq Stays(n)
        /\ Stays(n) # {} => Cardinality(Stays(n)) <= K - n
    BY <1>14, <2>1
  <2> QED BY <1>6, <1>9, <1>11, <1>12, <2>1, <2>2
<1> HIDE DEF S
<1>15. K \in S BY <1>1, <1>13, <1>14, NumbersByStep
<1>16. /\ Known(K) /\ Stays(K) \subseteq Docs
       /\ Stays(K) # {} => Cardinality(Stays(K)) <= K - K
  <2>1. K <= K BY <1>1
  <2>2. Stays(K) \subseteq Docs BY DEF Stays
  <2> QED BY <1>15, <2>1, <2>2 DEF S
<1>17. Stays(K) = {}
  <2>0. K \in 0 .. K BY <1>1
  <2>1. IsFiniteSet(Stays(K)) /\ Cardinality(Stays(K)) \in Nat BY <1>6, <2>0
  <2>2. Cardinality(Stays(K)) = 0 \/ Stays(K) = {} BY <1>1, <1>16, <2>1
  <2> QED BY <2>1, <2>2, FS_EmptySet
<1> QED BY <1>2, <1>16, <1>17 DEF K, Known, Stays, Retirees

\* Retiring documents in favour of one another never leaves a text without a
\* document (verdict.py): from an outdated document, duplicate_of leads to one that
\* is indexed or in work, unless an ingest failed or replaced a text: for any
\* number of documents, any texts and dates, and ingests in any order.
THEOREM RetiredForLivingHolds == DedupSpec => []RetiredForLiving
<1>1. DedupInit => RetiredInv BY DEF DedupInit, RetiredInv, Retirees
<1>2. RetiredInv => RetiredForLiving
  <2> SUFFICES ASSUME RetiredInv, ~lost, NEW d \in Docs, status[d] = "outdated"
               PROVE  LET next[n \in 0 .. Cardinality(Docs)] ==
                            [e \in Docs |-> IF n = 0 \/ status[e] # "outdated" THEN e ELSE next[n - 1][twinOf[e]]]
                      IN status[next[Cardinality(Docs)][d]] \in {"indexed", "new", "running"}
    BY DEF RetiredForLiving
  <2> DEFINE Next0(f) == [n \in 0 .. Cardinality(Docs) |-> [e \in Docs |->
                            IF n = 0 \/ status[e] # "outdated" THEN e ELSE f[n - 1][twinOf[e]]]]
             chain == CHOOSE f : f = Next0(f)
  <2>1. chain = Next0(chain)
    <3>1. Cardinality(Docs) \in Nat BY DedupSettings, FS_CardinalityType
    <3>2. \E f : f = Next0(f) BY <3>1, ChainExists DEF RetiredInv
    <3> QED BY <3>2
  <2> HIDE DEF chain
  <2>2. status[chain[Cardinality(Docs)][d]] \in {"indexed", "new", "running"}
    BY <2>1, ChainEnds DEF Retirees
  <2> QED BY <2>2 DEF chain
<1> QED BY <1>1, <1>2, RetiredInvKept, PTL DEF DedupSpec

-----------------------------------------------------------------------------
(* WebCrawl *)

\* What the reference is: the pages within each distance.
LEMMA WithinIs ==
  ASSUME site.depth \in Nat
  PROVE  /\ DOMAIN Within = 0 .. site.depth
         /\ Within[0] = ToSet(Seeds) \cap site.scope
         /\ \A d \in 0 .. site.depth - 1 :
              /\ Within[d] \subseteq Within[d + 1]
              /\ \A u \in Within[d + 1] : u \in Within[d] \/ (u \in site.scope /\ \E w \in Within[d] \ site.broken : u \in site.links[w])
              /\ \A w \in Within[d] \ site.broken : site.links[w] \cap site.scope \subseteq Within[d + 1]
<1> DEFINE Step(f, m) == [d \in 0 .. m |-> IF d = 0 THEN ToSet(Seeds) \cap site.scope
                            ELSE f[d - 1] \cup (LinkedFrom(f[d - 1]) \cap site.scope)]
           S == {m \in Nat : \E f : f = Step(f, m)}
<1>1. 0 \in S
  <2> DEFINE f == [d \in 0 .. 0 |-> ToSet(Seeds) \cap site.scope]
  <2>1. f = Step(f, 0) OBVIOUS
  <2> QED BY <2>1
<1>2. ASSUME NEW m \in Nat, m \in S PROVE m + 1 \in S
  <2>1. PICK f : f = Step(f, m) BY <1>2
  <2> DEFINE g == Step(f, m + 1)
  <2>2. \A d \in 0 .. m : f[d] = g[d]
    <3>1. ASSUME NEW d \in 0 .. m PROVE f[d] = g[d]
      <4>1. f[d] = IF d = 0 THEN ToSet(Seeds) \cap site.scope
                   ELSE f[d - 1] \cup (LinkedFrom(f[d - 1]) \cap site.scope)
        BY <2>1
      <4>2. d \in 0 .. m + 1 OBVIOUS
      <4> QED BY <4>1, <4>2
    <3> QED BY <3>1
  <2>3. \A d \in 0 .. m + 1 : d # 0 => f[d - 1] = g[d - 1]
    <3>1. \A d \in 0 .. m + 1 : d # 0 => d - 1 \in 0 .. m OBVIOUS
    <3> HIDE DEF g
    <3> QED BY <2>2, <3>1
  <2>4. g = Step(g, m + 1) BY <2>3
  <2> HIDE DEF g, Step
  <2> QED BY <2>4
<1> HIDE DEF S
<1>3. site.depth \in S BY <1>1, <1>2, NumbersByStep
<1>4. \E f : f = Step(f, site.depth) BY <1>3 DEF S
<1>5. Within = CHOOSE f : f = Step(f, site.depth) BY DEF Within
<1> HIDE DEF Step
<1>6. Within = Step(Within, site.depth) BY <1>4, <1>5
<1>7. \A d \in 0 .. site.depth :
        Within[d] = IF d = 0 THEN ToSet(Seeds) \cap site.scope
                    ELSE Within[d - 1] \cup (LinkedFrom(Within[d - 1]) \cap site.scope)
  BY <1>6 DEF Step
<1>8. ASSUME NEW d \in 0 .. site.depth - 1
      PROVE  /\ Within[d] \subseteq Within[d + 1]
             /\ \A u \in Within[d + 1] : u \in Within[d] \/ (u \in site.scope /\ \E w \in Within[d] \ site.broken : u \in site.links[w])
             /\ \A w \in Within[d] \ site.broken : site.links[w] \cap site.scope \subseteq Within[d + 1]
  <2>1. d + 1 \in 0 .. site.depth /\ d + 1 # 0 /\ (d + 1) - 1 = d OBVIOUS
  <2>2. Within[d + 1] = Within[d] \cup (LinkedFrom(Within[d]) \cap site.scope) BY <1>7, <2>1
  <2>3. /\ \A u \in LinkedFrom(Within[d]) : \E w \in Within[d] \ site.broken : u \in site.links[w]
        /\ \A w \in Within[d] \ site.broken : site.links[w] \subseteq LinkedFrom(Within[d])
    BY DEF LinkedFrom
  <2>4. Within[d] \subseteq Within[d + 1] BY <2>2
  <2>5. \A u \in Within[d + 1] : u \in Within[d] \/ (u \in site.scope /\ u \in LinkedFrom(Within[d])) BY <2>2
  <2>6. LinkedFrom(Within[d]) \cap site.scope \subseteq Within[d + 1] BY <2>2
  <2>7. \A w \in Within[d] \ site.broken : site.links[w] \cap site.scope \subseteq Within[d + 1] BY <2>3, <2>6
  <2> QED BY <2>3, <2>4, <2>5, <2>7
<1>9. DOMAIN Within = 0 .. site.depth BY <1>6 DEF Step
<1>10. 0 \in 0 .. site.depth OBVIOUS
<1> QED BY <1>7, <1>8, <1>9, <1>10

\* The pages within a distance are within every larger one, and in scope.
LEMMA WithinGrows ==
  ASSUME site.depth \in Nat, NEW d \in 0 .. site.depth, NEW e \in 0 .. site.depth, d <= e
  PROVE  Within[d] \subseteq Within[e] /\ Within[d] \subseteq site.scope
<1> DEFINE S == {m \in Nat : m <= site.depth =>
                   Within[m] \subseteq site.scope /\ \A k \in 0 .. m : Within[k] \subseteq Within[m]}
<1>1. 0 \in S
  <2>1. \A k \in 0 .. 0 : k = 0 OBVIOUS
  <2>2. Within[0] \subseteq site.scope BY WithinIs
  <2> QED BY <2>1, <2>2
<1>2. ASSUME NEW m \in Nat, m \in S PROVE m + 1 \in S
  <2> SUFFICES ASSUME m + 1 <= site.depth
               PROVE  Within[m + 1] \subseteq site.scope /\ \A k \in 0 .. m + 1 : Within[k] \subseteq Within[m + 1]
    OBVIOUS
  <2>1. m \in 0 .. site.depth - 1 /\ m <= site.depth OBVIOUS
  <2>3. Within[m] \subseteq site.scope /\ \A k \in 0 .. m : Within[k] \subseteq Within[m] BY <1>2, <2>1
  <2>4. \A k \in 0 .. m + 1 : k = m + 1 \/ k \in 0 .. m OBVIOUS
  <2>5. Within[m + 1] \subseteq site.scope BY <2>1, <2>3, WithinIs
  <2>6. ASSUME NEW k \in 0 .. m + 1 PROVE Within[k] \subseteq Within[m + 1]
    <3>1. Within[m] \subseteq Within[m + 1] BY <2>1, WithinIs
    <3> QED BY <2>3, <2>4, <3>1
  <2> QED BY <2>5, <2>6
<1> HIDE DEF S
<1>3. Nat \subseteq S BY <1>1, <1>2, NumbersByStep
<1>4. d \in Nat /\ e \in Nat /\ e <= site.depth /\ d \in 0 .. e OBVIOUS
<1>5. e \in S BY <1>3, <1>4
<1> QED BY <1>4, <1>5 DEF S


\* A page in the queue, or one that has been visited; at this depth or before.
Waits(u) == \E i \in DOMAIN frontier : frontier[i].url = u
Met(u, d) == u \in visited \/ \E i \in DOMAIN frontier : frontier[i].url = u /\ frontier[i].depth <= d
Fetched(u) == \E i \in DOMAIN fetched : fetched[i].url = u

CrawlTyped ==
  /\ site.depth \in Nat /\ site.maxPages \in Nat /\ site.maxQueue \in Nat
  /\ \A u \in Urls : IsFiniteSet(site.links[u]) /\ site.links[u] \subseteq Urls
  /\ frontier \in Seq([url : Urls, depth : 0 .. site.depth])
  /\ fetched \in Seq([url : Urls, depth : 0 .. site.depth])
  /\ Len(fetched) <= site.maxPages
  /\ crawling = "new" => frontier = <<>> /\ visited = {} /\ fetched = <<>>

\* The queue is in the order of the depths, and holds two of them at most.
Ordered ==
  \A i, j \in DOMAIN frontier : i <= j =>
    frontier[i].depth <= frontier[j].depth /\ frontier[j].depth <= frontier[i].depth + 1

\* What has been queued waits or was visited; what was visited in scope was fetched, once.
Accounted ==
  /\ \A u \in queued : u \in visited \/ Waits(u)
  /\ \A u \in site.scope : u \in visited <=> Fetched(u)
  /\ \A i \in DOMAIN fetched : fetched[i].url \in site.scope
  /\ IsInjective([i \in DOMAIN fetched |-> fetched[i].url])

\* Depths are distances, and not more than the distance until a link was refused.
AtDistance ==
  /\ \A i \in DOMAIN frontier : frontier[i].url \in site.scope => frontier[i].url \in Within[frontier[i].depth]
  /\ \A i \in DOMAIN fetched : LET p == fetched[i] IN
       /\ p.url \in Within[p.depth]
       /\ ~refused /\ p.depth > 0 => p.url \notin Within[p.depth - 1]

\* Until a link was refused, the seeds and the links of what was fetched are met.
LinksMet ==
  /\ crawling # "new" => \A u \in ToSet(Seeds) : Met(u, 0)
  /\ ~refused => \A i \in DOMAIN fetched : LET p == fetched[i] IN
       p.url \notin site.broken /\ p.depth < site.depth => \A u \in site.links[p.url] : Met(u, p.depth + 1)

CrawlInv == CrawlTyped /\ Ordered /\ Accounted /\ AtDistance /\ LinksMet

\* The pages of the queue and of the record.
LEMMA PagesTyped ==
  ASSUME CrawlTyped
  PROVE  /\ \A i \in DOMAIN frontier : /\ frontier[i] \in [url : Urls, depth : 0 .. site.depth]
                                       /\ frontier[i].url \in Urls /\ frontier[i].depth \in 0 .. site.depth
         /\ \A i \in DOMAIN fetched : /\ fetched[i] \in [url : Urls, depth : 0 .. site.depth]
                                      /\ fetched[i].url \in Urls /\ fetched[i].depth \in 0 .. site.depth
<1> DEFINE R == [url : Urls, depth : 0 .. site.depth]
<1>1. frontier \in Seq(R) /\ fetched \in Seq(R) BY DEF CrawlTyped
<1> HIDE DEF R
<1>2. /\ \A i \in DOMAIN frontier : frontier[i] \in R
      /\ \A i \in DOMAIN fetched : fetched[i] \in R
  BY <1>1
<1> QED BY <1>2 DEF R

\* When nothing closer than k is waiting, everything within k is met at its
\* distance: by induction on k.
LEMMA WithinIsMet ==
  ASSUME CrawlInv, ~refused, crawling # "new", NEW k \in 0 .. site.depth,
         \A i \in DOMAIN frontier : frontier[i].depth >= k
  PROVE  \A u \in Within[k] : Met(u, k)
<1> DEFINE S == {m \in Nat : m <= k => \A u \in Within[m] : Met(u, m)}
<1>0. site.depth \in Nat /\ CrawlTyped BY DEF CrawlInv, CrawlTyped
<1>1. 0 \in S
  <2>1. Within[0] \subseteq ToSet(Seeds) BY <1>0, WithinIs
  <2> QED BY <2>1 DEF CrawlInv, LinksMet
<1>2. ASSUME NEW m \in Nat, m \in S PROVE m + 1 \in S
  <2> SUFFICES ASSUME m + 1 <= k, NEW u \in Within[m + 1] PROVE Met(u, m + 1) OBVIOUS
  <2>1. m \in 0 .. site.depth - 1 /\ m <= k /\ m \in 0 .. site.depth BY <1>0
  <2>2. \A w \in Within[m] : Met(w, m) BY <1>2, <2>1
  <2>3. u \in Within[m] \/ \E w \in Within[m] \ site.broken : u \in site.links[w] BY <1>0, <2>1, WithinIs
  <2>4. \A i \in DOMAIN frontier : frontier[i].depth \in Nat /\ ~(frontier[i].depth <= m)
    BY <1>0, <2>1, PagesTyped
  <2>5. \A w \in Within[m] : w \in visited BY <2>2, <2>4 DEF Met
  <2>6. CASE u \in Within[m] BY <2>5, <2>6 DEF Met
  <2>7. ASSUME NEW w \in Within[m] \ site.broken, u \in site.links[w] PROVE Met(u, m + 1)
    <3>1. w \in visited /\ w \in site.scope BY <1>0, <2>1, <2>5, WithinGrows
    <3>2. PICK i \in DOMAIN fetched : fetched[i].url = w BY <3>1 DEF CrawlInv, Accounted, Fetched
    <3>3. fetched[i].depth \in 0 .. site.depth BY <1>0, <3>2, PagesTyped
    <3>4. fetched[i].depth <= m
      <4> SUFFICES ASSUME m < fetched[i].depth PROVE FALSE BY <3>3
      <4>1. fetched[i].depth - 1 \in 0 .. site.depth /\ m <= fetched[i].depth - 1 /\ fetched[i].depth > 0
        BY <1>0, <3>3
      <4>2. Within[m] \subseteq Within[fetched[i].depth - 1] BY <1>0, <2>1, <4>1, WithinGrows
      <4> QED BY <3>2, <4>1, <4>2 DEF CrawlInv, AtDistance
    <3>5. Met(u, fetched[i].depth + 1)
      <4>1. fetched[i].depth < site.depth BY <1>0, <2>1, <3>3, <3>4
      <4> QED BY <2>7, <3>2, <4>1 DEF CrawlInv, LinksMet
    <3>6. \A j \in DOMAIN frontier : frontier[j].depth \in Nat BY <2>4
    <3> QED BY <2>1, <3>3, <3>4, <3>5, <3>6 DEF Met
  <2> QED BY <2>3, <2>6, <2>7
<1> HIDE DEF S
<1>3. k \in S BY <1>0, <1>1, <1>2, NumbersByStep
<1> QED BY <1>3 DEF S

\* What is added to the rest of the queue: links, at the end and at depth d; unless
\* one is refused, all that were not queued before.
Extends(q, rest, links, d) ==
  LET added == Len(rest) + 1 .. Len(q.list)
  IN /\ q.list \in Seq([url : Urls, depth : 0 .. site.depth])
     /\ Len(q.list) >= Len(rest) /\ \A i \in 1 .. Len(rest) : q.list[i] = rest[i]
     /\ \A i \in added : q.list[i].depth = d /\ q.list[i].url \in links
     /\ \A u \in q.seen : u \in queued \/ \E i \in added : q.list[i].url = u
     /\ ~q.full => ~refused /\ \A u \in links : u \in queued \/ \E i \in added : q.list[i].url = u

\* That is what Discover does.
LEMMA Discovered ==
  ASSUME site.depth \in Nat, site.maxQueue \in Nat, NEW rest \in Seq([url : Urls, depth : 0 .. site.depth]),
         NEW links \in SUBSET Urls, IsFiniteSet(links), NEW d, links # {} => d \in 0 .. site.depth
  PROVE  Extends(Discover(rest, links, d), rest, links, d)
<1> DEFINE R     == [url : Urls, depth : 0 .. site.depth]
           L     == links \ queued
           new   == SetToSeq(L)
           room  == IF Len(rest) < site.maxQueue THEN site.maxQueue - Len(rest) ELSE 0
           n     == IF Len(new) < room THEN Len(new) ELSE room
           taken == SubSeq(new, 1, n)
           more  == [i \in DOMAIN taken |-> Page(taken[i], d)]
           q     == Discover(rest, links, d)
<1>1. q = [list |-> rest \o more, seen |-> queued \cup ToSet(taken), full |-> refused \/ room < Len(new)]
  BY DEF Discover
<1>2. rest \in Seq(R) /\ Len(rest) \in Nat OBVIOUS
<1>3. IsFiniteSet(L)
  <2>1. L \in SUBSET links OBVIOUS
  <2> QED BY <2>1, FS_Subset
<1>4. new \in Seq(L) /\ \A x \in L : \E i \in DOMAIN new : new[i] = x BY <1>3, SequenceOfSet
<1> HIDE DEF new
<1>5. room \in Nat /\ n \in Nat /\ n <= Len(new) /\ Len(new) \in Nat /\ (~(room < Len(new)) => n = Len(new))
  BY <1>2, <1>4
<1> HIDE DEF room, n
<1>6. /\ taken \in Seq(L) /\ Len(taken) = n /\ DOMAIN taken = 1 .. n
      /\ \A i \in 1 .. n : taken[i] = new[i] /\ taken[i] \in L
  <2>1. \A i \in 1 .. n : new[i] \in L BY <1>4, <1>5, ElementOfSeq
  <2> HIDE DEF L
  <2>2. /\ taken \in Seq(L) /\ Len(taken) = n
        /\ \A i \in 1 .. n : taken[i] = new[i]
    <3>1. 1 \in Int /\ n \in Int BY <1>5
    <3>2. /\ taken \in Seq(L) /\ Len(taken) = IF 1 <= n THEN n - 1 + 1 ELSE 0
          /\ \A i \in 1 .. n - 1 + 1 : taken[i] = new[1 + i - 1]
      BY <2>1, <3>1, SubSeqProperties
    <3> HIDE DEF taken
    <3> QED BY <1>5, <3>2
  <2> HIDE DEF taken
  <2> QED BY <2>1, <2>2, LenProperties
<1> HIDE DEF taken
<1>7. \A i \in 1 .. n : Page(taken[i], d) \in R
  <2>1. \A i \in 1 .. n : taken[i] \in Urls /\ d \in 0 .. site.depth BY <1>6
  <2> QED BY <2>1 DEF Page
<1> HIDE DEF R, L
<1>8. /\ more \in Seq(R) /\ Len(more) = n
      /\ \A i \in 1 .. n : more[i] = Page(taken[i], d) /\ more[i].url = taken[i] /\ more[i].depth = d
  <2>1. more = [i \in 1 .. n |-> Page(taken[i], d)] BY <1>6
  <2> HIDE DEF more
  <2>2. more \in [1 .. n -> R] BY <1>7, <2>1
  <2>3. more \in Seq(R) /\ Len(more) = n BY <1>5, <2>2
  <2> QED BY <2>1, <2>3 DEF Page
<1> HIDE DEF more
<1>9. /\ rest \o more \in Seq(R) /\ Len(rest \o more) = Len(rest) + n
      /\ \A i \in 1 .. Len(rest) : (rest \o more)[i] = rest[i]
      /\ \A i \in Len(rest) + 1 .. Len(rest) + n :
           i - Len(rest) \in 1 .. n /\ (rest \o more)[i] = more[i - Len(rest)]
      /\ \A j \in 1 .. n : Len(rest) + j \in Len(rest) + 1 .. Len(rest) + n /\ (rest \o more)[Len(rest) + j] = more[j]
  <2>1. /\ rest \o more \in Seq(R) /\ Len(rest \o more) = Len(rest) + n
        /\ \A i \in 1 .. Len(rest) + n : (rest \o more)[i] =
             IF i <= Len(rest) THEN rest[i] ELSE more[i - Len(rest)]
    BY <1>2, <1>8, ConcatProperties
  <2> QED BY <1>2, <1>5, <2>1
<1> DEFINE all == rest \o more
           added == Len(rest) + 1 .. Len(all)
<1> HIDE DEF all
<1>10. /\ all \in Seq(R) /\ Len(all) >= Len(rest)
       /\ \A i \in 1 .. Len(rest) : all[i] = rest[i]
       /\ \A i \in added : i - Len(rest) \in 1 .. n /\ all[i] = more[i - Len(rest)]
       /\ \A j \in 1 .. n : Len(rest) + j \in added /\ all[Len(rest) + j] = more[j]
  BY <1>2, <1>5, <1>9 DEF all
<1>11. \A i \in added : all[i].depth = d /\ all[i].url \in links BY <1>6, <1>8, <1>10 DEF L
<1>12. ASSUME NEW j \in 1 .. n PROVE \E i \in added : all[i].url = taken[j]
  <2>1. Len(rest) + j \in added /\ all[Len(rest) + j] = more[j] /\ more[j].url = taken[j] BY <1>8, <1>10
  <2> QED BY <2>1
<1>13. \A u \in queued \cup ToSet(taken) : u \in queued \/ \E i \in added : all[i].url = u
  BY <1>6, <1>12 DEF ToSet
<1>14. ~(room < Len(new)) => \A u \in links : u \in queued \/ \E i \in added : all[i].url = u
  <2> SUFFICES ASSUME ~(room < Len(new)), NEW u \in links, u \notin queued
               PROVE  \E i \in added : all[i].url = u
    OBVIOUS
  <2>1. PICK j \in DOMAIN new : new[j] = u BY <1>4 DEF L
  <2>2. j \in 1 .. n BY <1>4, <1>5, <2>1
  <2> QED BY <1>6, <1>12, <2>1, <2>2
<1> HIDE DEF q
<1>15. q.list = all /\ q.seen = queued \cup ToSet(taken) /\ q.full = (refused \/ room < Len(new))
  BY <1>1 DEF all
<1>16. Extends(q, rest, links, d) BY <1>10, <1>11, <1>13, <1>14, <1>15 DEF R, Extends
<1> QED BY <1>16 DEF q

\* The first page leaves the queue and the others move up.
Pops ==
  /\ Len(frontier') >= Len(frontier) - 1
  /\ \A i \in 1 .. Len(frontier) - 1 : frontier'[i] = frontier[i + 1]
  /\ visited' = visited \cup {Head(frontier).url}

\* What is met stays met when a page is taken from the queue.
LEMMA MetStays ==
  ASSUME CrawlTyped, frontier # <<>>, Pops, frontier' \in Seq([url : Urls, depth : 0 .. site.depth])
  PROVE  /\ \A u, d : Met(u, d) => Met(u, d)'
         /\ \A u : u \in visited \/ Waits(u) => u \in visited' \/ Waits(u)'
<1>1. /\ Len(frontier) \in Nat \ {0} /\ DOMAIN frontier = 1 .. Len(frontier)
      /\ Len(frontier') \in Nat /\ DOMAIN frontier' = 1 .. Len(frontier')
      /\ Head(frontier) = frontier[1]
  BY LenProperties, EmptySeq DEF CrawlTyped
<1>2. ASSUME NEW i \in DOMAIN frontier
      PROVE  frontier[i].url \in visited' \/ \E j \in DOMAIN frontier' : frontier'[j] = frontier[i]
  <2>1. CASE i = 1 BY <1>1, <2>1 DEF Pops
  <2>2. CASE i # 1
    <3>1. i - 1 \in 1 .. Len(frontier) - 1 /\ i - 1 \in DOMAIN frontier' /\ (i - 1) + 1 = i BY <1>1, <2>2 DEF Pops
    <3> QED BY <3>1 DEF Pops
  <2> QED BY <2>1, <2>2
<1>3. visited \subseteq visited' BY DEF Pops
<1> QED BY <1>2, <1>3 DEF Met, Waits

\* The first page and the rest of the queue.
LEMMA FirstPage ==
  ASSUME CrawlTyped, frontier # <<>>
  PROVE  /\ Head(frontier) = frontier[1] /\ 1 \in DOMAIN frontier
         /\ Head(frontier) \in [url : Urls, depth : 0 .. site.depth]
         /\ Head(frontier).url \in Urls /\ Head(frontier).depth \in 0 .. site.depth
         /\ Tail(frontier) \in Seq([url : Urls, depth : 0 .. site.depth])
         /\ Len(frontier) \in Nat \ {0} /\ DOMAIN frontier = 1 .. Len(frontier)
         /\ Len(Tail(frontier)) = Len(frontier) - 1
         /\ \A i \in 1 .. Len(frontier) - 1 : Tail(frontier)[i] = frontier[i + 1]
<1> DEFINE R == [url : Urls, depth : 0 .. site.depth]
<1>1. frontier \in Seq(R) BY DEF CrawlTyped
<1> HIDE DEF R
<1>2. Len(frontier) \in Nat \ {0} /\ DOMAIN frontier = 1 .. Len(frontier) BY <1>1, LenProperties, EmptySeq
<1>3. /\ Head(frontier) \in R /\ Tail(frontier) \in Seq(R) /\ Len(Tail(frontier)) = Len(frontier) - 1
      /\ \A i \in 1 .. Len(Tail(frontier)) : Tail(frontier)[i] = frontier[i + 1]
  BY <1>1, HeadTailProperties
<1>4. Head(frontier) = frontier[1] /\ 1 \in DOMAIN frontier BY <1>1, <1>2
<1>5. Head(frontier).url \in Urls /\ Head(frontier).depth \in 0 .. site.depth BY <1>3 DEF R
<1> QED BY <1>2, <1>3, <1>4, <1>5 DEF R

\* The reference depends on the site only.
LEMMA WithinStays ==
  ASSUME site' = site
  PROVE  Within' = Within
BY DEF Within, LinkedFrom

\* A page that is taken from the queue without a fetch.
LEMMA SkipKeeps ==
  ASSUME CrawlInv, Skip
  PROVE  CrawlInv'
<1> DEFINE p == Head(frontier)
<1>1. /\ CrawlTyped /\ frontier # <<>> /\ crawling = "on"
      /\ p.url \in visited \/ p.url \notin site.scope
      /\ visited' = visited \cup {p.url} /\ frontier' = Tail(frontier)
      /\ UNCHANGED <<site, queued, fetched, refused, crawling>>
  BY DEF CrawlInv, Skip, More
<1>2. /\ p = frontier[1] /\ 1 \in DOMAIN frontier /\ frontier' \in Seq([url : Urls, depth : 0 .. site.depth])
      /\ Len(frontier) \in Nat \ {0} /\ DOMAIN frontier = 1 .. Len(frontier)
      /\ Len(frontier') = Len(frontier) - 1 /\ p.url \in Urls
      /\ \A i \in 1 .. Len(frontier) - 1 : frontier'[i] = frontier[i + 1]
  BY <1>1, FirstPage
<1> HIDE DEF p
<1>3. Pops BY <1>1, <1>2 DEF Pops, p
<1>4. DOMAIN frontier' = 1 .. Len(frontier) - 1 BY <1>2, LenProperties
<1>5. \A i \in DOMAIN frontier' : i \in Nat /\ i + 1 \in DOMAIN frontier /\ frontier'[i] = frontier[i + 1] BY <1>2, <1>4
<1>6. CrawlTyped' BY <1>1, <1>2 DEF CrawlTyped
<1>7. Ordered'
  <2> SUFFICES ASSUME NEW i \in DOMAIN frontier', NEW j \in DOMAIN frontier', i <= j
               PROVE  frontier'[i].depth <= frontier'[j].depth /\ frontier'[j].depth <= frontier'[i].depth + 1
    BY DEF Ordered
  <2>1. i + 1 <= j + 1 BY <1>5
  <2> QED BY <1>5, <2>1 DEF CrawlInv, Ordered
<1>8. /\ \A u, d : Met(u, d) => Met(u, d)'
      /\ \A u : u \in visited \/ Waits(u) => u \in visited' \/ Waits(u)'
  BY <1>1, <1>2, <1>3, MetStays
<1>9. Accounted'
  <2>1. \A u : Fetched(u)' <=> Fetched(u) BY <1>1 DEF Fetched
  <2>2. \A u \in site.scope : u \in visited' <=> u \in visited BY <1>1
  <2> QED BY <1>1, <1>8, <2>1, <2>2 DEF CrawlInv, Accounted
<1>10. AtDistance' BY <1>1, <1>5, WithinStays DEF CrawlInv, AtDistance
<1>11. LinksMet' BY <1>1, <1>8 DEF CrawlInv, LinksMet
<1> QED BY <1>6, <1>7, <1>9, <1>10, <1>11 DEF CrawlInv

\* A page that is taken from the queue and fetched, and its links.
LEMMA VisitKeeps ==
  ASSUME CrawlInv, Visit
  PROVE  CrawlInv'
<1> DEFINE p == Head(frontier)
           rest == Tail(frontier)
           q == Discover(rest, LinksOf(p), p.depth + 1)
           added == Len(rest) + 1 .. Len(q.list)
<1>1. /\ CrawlTyped /\ frontier # <<>> /\ crawling = "on" /\ Len(fetched) < site.maxPages
      /\ p.url \notin visited /\ p.url \in site.scope
      /\ visited' = visited \cup {p.url} /\ fetched' = Append(fetched, p)
      /\ frontier' = q.list /\ queued' = q.seen /\ refused' = q.full
      /\ UNCHANGED <<site, crawling>>
  BY DEF CrawlInv, Visit, More
<1>2. /\ p = frontier[1] /\ 1 \in DOMAIN frontier /\ p \in [url : Urls, depth : 0 .. site.depth]
      /\ p.url \in Urls /\ p.depth \in 0 .. site.depth
      /\ rest \in Seq([url : Urls, depth : 0 .. site.depth])
      /\ Len(frontier) \in Nat \ {0} /\ DOMAIN frontier = 1 .. Len(frontier)
      /\ Len(rest) = Len(frontier) - 1
      /\ \A i \in 1 .. Len(frontier) - 1 : rest[i] = frontier[i + 1]
  BY <1>1, FirstPage
<1>3. site.depth \in Nat /\ site.maxQueue \in Nat /\ site.maxPages \in Nat BY <1>1 DEF CrawlTyped
<1> HIDE DEF p
<1>4. /\ LinksOf(p) \in SUBSET Urls /\ IsFiniteSet(LinksOf(p))
      /\ LinksOf(p) # {} => p.depth + 1 \in 0 .. site.depth
      /\ LinksOf(p) \subseteq site.links[p.url] /\ (LinksOf(p) # {} => p.url \notin site.broken)
      /\ p.url \notin site.broken /\ p.depth < site.depth => LinksOf(p) = site.links[p.url]
  <2>1. IsFiniteSet({}) BY FS_EmptySet
  <2>2. IsFiniteSet(site.links[p.url]) /\ site.links[p.url] \subseteq Urls BY <1>1, <1>2 DEF CrawlTyped
  <2> QED BY <1>2, <1>3, <2>1, <2>2 DEF LinksOf
<1>5. /\ q.list \in Seq([url : Urls, depth : 0 .. site.depth])
      /\ Len(q.list) >= Len(rest) /\ \A i \in 1 .. Len(rest) : q.list[i] = rest[i]
      /\ \A i \in added : q.list[i].depth = p.depth + 1 /\ q.list[i].url \in LinksOf(p)
      /\ \A u \in q.seen : u \in queued \/ \E i \in added : q.list[i].url = u
      /\ ~q.full => ~refused /\ \A u \in LinksOf(p) : u \in queued \/ \E i \in added : q.list[i].url = u
  <2>1. Extends(q, rest, LinksOf(p), p.depth + 1) BY <1>2, <1>3, <1>4, Discovered
  <2> HIDE DEF q, rest
  <2> QED BY <2>1 DEF Extends
<1> HIDE DEF q, rest
<1>6. /\ frontier' \in Seq([url : Urls, depth : 0 .. site.depth]) /\ Len(frontier') \in Nat
      /\ DOMAIN frontier' = 1 .. Len(frontier') /\ added \subseteq DOMAIN frontier'
      /\ Len(frontier') >= Len(frontier) - 1
      /\ \A i \in 1 .. Len(frontier) - 1 : i \in DOMAIN frontier' /\ i + 1 \in DOMAIN frontier /\ frontier'[i] = frontier[i + 1]
      /\ \A i \in DOMAIN frontier' : i \in 1 .. Len(frontier) - 1 \/ i \in added
  <2>1. frontier' \in Seq([url : Urls, depth : 0 .. site.depth]) BY <1>1, <1>5
  <2>2. Len(frontier') \in Nat /\ DOMAIN frontier' = 1 .. Len(frontier') BY <2>1, LenProperties
  <2> QED BY <1>1, <1>2, <1>5, <2>1, <2>2
<1>7. \A i \in added : frontier'[i].depth = p.depth + 1 /\ frontier'[i].url \in LinksOf(p) BY <1>1, <1>5
<1>8. /\ \A u \in queued' : u \in queued \/ \E i \in added : frontier'[i].url = u
      /\ ~refused' => ~refused /\ \A u \in LinksOf(p) : u \in queued \/ \E i \in added : frontier'[i].url = u
  BY <1>1, <1>5
<1>9. Pops BY <1>1, <1>6 DEF Pops, p
<1>10. /\ \A u, d : Met(u, d) => Met(u, d)'
       /\ \A u : u \in visited \/ Waits(u) => u \in visited' \/ Waits(u)'
  BY <1>1, <1>6, <1>9, MetStays
<1>11. /\ fetched' \in Seq([url : Urls, depth : 0 .. site.depth]) /\ Len(fetched') = Len(fetched) + 1
       /\ Len(fetched) \in Nat /\ DOMAIN fetched = 1 .. Len(fetched) /\ DOMAIN fetched' = 1 .. Len(fetched) + 1
       /\ \A i \in 1 .. Len(fetched) : fetched'[i] = fetched[i]
       /\ fetched'[Len(fetched) + 1] = p
  <2> DEFINE R == [url : Urls, depth : 0 .. site.depth]
  <2>1. fetched \in Seq(R) /\ p \in R BY <1>1, <1>2 DEF CrawlTyped
  <2> HIDE DEF R
  <2>2. /\ fetched' \in Seq(R) /\ Len(fetched') = Len(fetched) + 1
        /\ \A i \in 1 .. Len(fetched) : fetched'[i] = fetched[i]
        /\ fetched'[Len(fetched) + 1] = p
    BY <1>1, <2>1, AppendProperties
  <2> QED BY <2>1, <2>2, LenProperties DEF R
<1>12. CrawlTyped'
  <2>1. Len(fetched') <= site.maxPages BY <1>1, <1>3, <1>11
  <2> QED BY <1>1, <1>6, <1>11, <2>1 DEF CrawlTyped
<1>13. Ordered'
  <2> SUFFICES ASSUME NEW i \in DOMAIN frontier', NEW j \in DOMAIN frontier', i <= j
               PROVE  frontier'[i].depth <= frontier'[j].depth /\ frontier'[j].depth <= frontier'[i].depth + 1
    BY DEF Ordered
  <2>1. CASE i \in 1 .. Len(frontier) - 1 /\ j \in 1 .. Len(frontier) - 1
    <3>1. i + 1 <= j + 1 BY <2>1
    <3> QED BY <1>6, <2>1, <3>1 DEF CrawlInv, Ordered
  <2>2. CASE i \in 1 .. Len(frontier) - 1 /\ j \in added
    <3>1. 1 <= i + 1 /\ frontier'[i] = frontier[i + 1] /\ i + 1 \in DOMAIN frontier BY <1>6, <2>2
    <3>2. p.depth <= frontier[i + 1].depth /\ frontier[i + 1].depth <= p.depth + 1
      BY <1>2, <3>1 DEF CrawlInv, Ordered
    <3>3. frontier[i + 1].depth \in Nat BY <1>1, <1>3, <3>1, PagesTyped
    <3>4. frontier'[j].depth = p.depth + 1 /\ frontier'[i].depth = frontier[i + 1].depth BY <1>7, <2>2, <3>1
    <3>5. p.depth \in Nat BY <1>2
    <3> QED BY <3>2, <3>3, <3>4, <3>5
  <2>3. CASE i \in added /\ j \in added BY <1>2, <1>7, <2>3
  <2>4. ~(i \in added /\ j \in 1 .. Len(frontier) - 1) BY <1>2
  <2> QED BY <1>6, <2>1, <2>2, <2>3, <2>4
<1>14. \A u : Fetched(u)' <=> Fetched(u) \/ u = p.url
  <2>1. ASSUME NEW u, NEW i \in DOMAIN fetched', fetched'[i].url = u PROVE Fetched(u) \/ u = p.url
    <3>1. i \in DOMAIN fetched \/ i = Len(fetched) + 1 BY <1>11
    <3> QED BY <1>11, <2>1, <3>1 DEF Fetched
  <2>2. ASSUME NEW u, NEW i \in DOMAIN fetched, fetched[i].url = u PROVE Fetched(u)'
    <3>1. i \in DOMAIN fetched' /\ fetched'[i] = fetched[i] BY <1>11
    <3> QED BY <2>2, <3>1 DEF Fetched
  <2>3. ASSUME NEW u, u = p.url PROVE Fetched(u)'
    <3> DEFINE n == Len(fetched) + 1
    <3>1. n \in DOMAIN fetched' /\ fetched'[n] = p BY <1>11
    <3> HIDE DEF n
    <3> QED BY <2>3, <3>1 DEF Fetched
  <2>4. ASSUME NEW u, Fetched(u)' PROVE Fetched(u) \/ u = p.url BY <2>1, <2>4 DEF Fetched
  <2>5. ASSUME NEW u, Fetched(u) PROVE Fetched(u)' BY <2>2, <2>5 DEF Fetched
  <2> QED BY <2>3, <2>4, <2>5
<1>15. ~Fetched(p.url) BY <1>1 DEF CrawlInv, Accounted
<1>16. Accounted'
  <2>1. ASSUME NEW u \in queued' PROVE u \in visited' \/ Waits(u)'
    <3>1. CASE u \in queued BY <1>10, <3>1 DEF CrawlInv, Accounted
    <3>2. CASE \E i \in added : frontier'[i].url = u BY <1>6, <3>2 DEF Waits
    <3> QED BY <1>8, <3>1, <3>2
  <2>2. \A u \in site.scope : u \in visited' <=> Fetched(u)' BY <1>1, <1>14 DEF CrawlInv, Accounted
  <2>3. \A i \in DOMAIN fetched' : fetched'[i].url \in site.scope
    <3>1. \A i \in DOMAIN fetched' : i \in DOMAIN fetched \/ i = Len(fetched) + 1 BY <1>11
    <3> QED BY <1>1, <1>11, <3>1 DEF CrawlInv, Accounted
  <2>4. ASSUME NEW i \in DOMAIN fetched', NEW j \in DOMAIN fetched', fetched'[i].url = fetched'[j].url PROVE i = j
    <3>1. /\ i \in DOMAIN fetched \/ i = Len(fetched) + 1
          /\ j \in DOMAIN fetched \/ j = Len(fetched) + 1
      BY <1>11
    <3>2. CASE i \in DOMAIN fetched /\ j \in DOMAIN fetched
      BY <1>11, <2>4, <3>2 DEF CrawlInv, Accounted, IsInjective
    <3>3. CASE i \in DOMAIN fetched /\ j = Len(fetched) + 1 BY <1>11, <1>15, <2>4, <3>3 DEF Fetched
    <3>4. CASE j \in DOMAIN fetched /\ i = Len(fetched) + 1 BY <1>11, <1>15, <2>4, <3>4 DEF Fetched
    <3> QED BY <3>1, <3>2, <3>3, <3>4
  <2>5. IsInjective([i \in DOMAIN fetched' |-> fetched'[i].url]) BY <2>4 DEF IsInjective
  <2> QED BY <1>1, <2>1, <2>2, <2>3, <2>5 DEF Accounted
<1>17. AtDistance'
  <2>1. Within' = Within BY <1>1, WithinStays
  <2>2. p.url \in Within[p.depth] BY <1>1, <1>2 DEF CrawlInv, AtDistance
  <2>3. ASSUME NEW i \in DOMAIN frontier', frontier'[i].url \in site.scope
        PROVE  frontier'[i].url \in Within[frontier'[i].depth]
    <3>1. CASE i \in 1 .. Len(frontier) - 1 BY <1>6, <2>3, <3>1 DEF CrawlInv, AtDistance
    <3>2. CASE i \in added
      <4>1. frontier'[i].url \in site.links[p.url] /\ p.url \notin site.broken BY <1>4, <1>7, <3>2
      <4>2. p.depth \in 0 .. site.depth - 1
        <5>1. p.depth + 1 \in 0 .. site.depth BY <1>4, <1>7, <3>2
        <5> QED BY <1>2, <1>3, <5>1
      <4>3. frontier'[i].url \in Within[p.depth + 1] BY <1>3, <2>2, <2>3, <4>1, <4>2, WithinIs
      <4> QED BY <1>7, <3>2, <4>3
    <3> QED BY <1>6, <3>1, <3>2
  <2>4. ~refused' /\ p.depth > 0 => p.url \notin Within[p.depth - 1]
    <3> SUFFICES ASSUME ~refused, p.depth > 0, p.url \in Within[p.depth - 1] PROVE FALSE BY <1>8
    <3>1. p.depth - 1 \in 0 .. site.depth BY <1>2, <1>3
    <3>2. ASSUME NEW i \in DOMAIN frontier PROVE frontier[i].depth \in Nat /\ p.depth <= frontier[i].depth
      <4>1. 1 <= i BY <1>2
      <4>2. p.depth <= frontier[i].depth BY <1>2, <3>2, <4>1 DEF CrawlInv, Ordered
      <4>3. frontier[i].depth \in 0 .. site.depth BY <1>1, <3>2, PagesTyped
      <4> QED BY <1>3, <4>2, <4>3
    <3>3. \A i \in DOMAIN frontier : frontier[i].depth >= p.depth - 1 /\ ~(frontier[i].depth <= p.depth - 1)
      BY <1>2, <3>2
    <3>4. Met(p.url, p.depth - 1) BY <1>1, <3>1, <3>3, WithinIsMet
    <3> QED BY <1>1, <3>3, <3>4 DEF Met
  <2>5. ASSUME NEW i \in DOMAIN fetched'
        PROVE  /\ fetched'[i].url \in Within[fetched'[i].depth]
               /\ ~refused' /\ fetched'[i].depth > 0 => fetched'[i].url \notin Within[fetched'[i].depth - 1]
    <3>1. CASE i \in DOMAIN fetched BY <1>8, <1>11, <3>1 DEF CrawlInv, AtDistance
    <3>2. CASE i = Len(fetched) + 1 BY <1>11, <2>2, <2>4, <3>2
    <3> QED BY <1>11, <3>1, <3>2
  <2> QED BY <1>1, <2>1, <2>3, <2>5 DEF AtDistance
<1>18. LinksMet'
  <2>1. \A u \in ToSet(Seeds) : Met(u, 0)' BY <1>1, <1>10 DEF CrawlInv, LinksMet
  <2>2. ASSUME ~refused', NEW i \in DOMAIN fetched', fetched'[i].url \notin site.broken,
               fetched'[i].depth < site.depth, NEW u \in site.links[fetched'[i].url],
               NEW d, d = fetched'[i].depth + 1
        PROVE  Met(u, d)'
    <3>1. CASE i \in DOMAIN fetched BY <1>8, <1>10, <1>11, <2>2, <3>1 DEF CrawlInv, LinksMet
    <3>2. CASE fetched'[i] = p
      <4>1. u \in LinksOf(p) BY <1>4, <2>2, <3>2
      <4>2. CASE \E j \in added : frontier'[j].url = u
        <5>1. PICK j \in added : frontier'[j].url = u BY <4>2
        <5>2. j \in DOMAIN frontier' /\ frontier'[j].depth <= p.depth + 1 BY <1>2, <1>6, <1>7, <5>1
        <5> QED BY <2>2, <3>2, <5>1, <5>2 DEF Met
      <4>3. CASE u \in queued
        <5>1. u \in visited \/ Waits(u) BY <4>3 DEF CrawlInv, Accounted
        <5>2. \A j \in DOMAIN frontier : frontier[j].depth <= p.depth + 1
          <6>1. \A j \in DOMAIN frontier : 1 <= j BY <1>2
          <6> QED BY <1>2, <6>1 DEF CrawlInv, Ordered
        <5>3. Met(u, p.depth + 1) BY <5>1, <5>2 DEF Met, Waits
        <5> QED BY <1>10, <2>2, <3>2, <5>3
      <4> QED BY <1>8, <2>2, <4>1, <4>2, <4>3
    <3> QED BY <1>11, <3>1, <3>2
  <2> QED BY <1>1, <2>1, <2>2 DEF LinksMet
<1> QED BY <1>12, <1>13, <1>16, <1>17, <1>18 DEF CrawlInv

\* Every step of the crawl keeps the invariant.
LEMMA CrawlInvKept ==
  ASSUME CrawlInv, [CrawlNext]_crawlVars
  PROVE  CrawlInv'
<1>1. CASE StartCrawl
  <2>1. /\ frontier' = [i \in DOMAIN Seeds |-> Page(Seeds[i], 0)] /\ queued' = ToSet(Seeds)
        /\ crawling = "new" /\ crawling' = "on" /\ UNCHANGED <<site, visited, fetched, refused>>
        /\ CrawlTyped /\ frontier = <<>> /\ visited = {} /\ fetched = <<>>
    BY <1>1 DEF StartCrawl, CrawlInv, CrawlTyped
  <2>2. Seeds \in Seq(Urls) /\ DOMAIN Seeds = 1 .. Len(Seeds) /\ Len(Seeds) \in Nat BY SiteOK, LenProperties
  <2>3. /\ DOMAIN frontier' = DOMAIN Seeds
        /\ \A i \in DOMAIN Seeds : /\ frontier'[i] = Page(Seeds[i], 0) /\ frontier'[i].url = Seeds[i]
                                   /\ frontier'[i].depth = 0
    BY <2>1 DEF Page
  <2>4. site.depth \in Nat /\ \A i \in DOMAIN Seeds : Seeds[i] \in Urls
    BY <2>1, <2>2, ElementOfSeq DEF CrawlTyped
  <2>5. CrawlTyped'
    <3> DEFINE R == [url : Urls, depth : 0 .. site.depth]
    <3>1. \A i \in 1 .. Len(Seeds) : Page(Seeds[i], 0) \in R BY <2>2, <2>4 DEF Page
    <3> HIDE DEF R
    <3>2. frontier' \in [1 .. Len(Seeds) -> R] BY <2>1, <2>2, <3>1
    <3>3. frontier' \in Seq(R) BY <2>2, <3>2
    <3> QED BY <2>1, <3>3 DEF CrawlTyped, R
  <2>6. Ordered' BY <2>3 DEF Ordered
  <2>7. Accounted'
    <3>1. \A u \in queued' : Waits(u)' BY <2>1, <2>3 DEF Waits, ToSet
    <3>2. \A u : Fetched(u)' <=> Fetched(u) BY <2>1 DEF Fetched
    <3> QED BY <2>1, <3>1, <3>2 DEF CrawlInv, Accounted
  <2>8. AtDistance'
    <3>1. Within[0] = ToSet(Seeds) \cap site.scope BY <2>4, WithinIs
    <3>2. \A i \in DOMAIN Seeds : Seeds[i] \in ToSet(Seeds) BY DEF ToSet
    <3>3. Within' = Within BY <2>1, WithinStays
    <3> QED BY <2>1, <2>3, <3>1, <3>2, <3>3 DEF CrawlInv, AtDistance
  <2>9. LinksMet'
    <3>1. \A u \in ToSet(Seeds) : Met(u, 0)' BY <2>3 DEF Met, ToSet
    <3>2. DOMAIN fetched = {} BY <2>1
    <3> QED BY <2>1, <3>1, <3>2 DEF LinksMet
  <2> QED BY <2>5, <2>6, <2>7, <2>8, <2>9 DEF CrawlInv
<1>2. ASSUME UNCHANGED <<site, frontier, queued, visited, fetched, refused>>,
             crawling' = "new" => crawling = "new", crawling' # "new" => crawling # "new"
      PROVE  CrawlInv'
  <2>1. CrawlTyped' /\ Ordered' BY <1>2 DEF CrawlInv, CrawlTyped, Ordered
  <2>2. Accounted' BY <1>2 DEF CrawlInv, Accounted, Waits, Fetched
  <2>3. AtDistance' BY <1>2, WithinStays DEF CrawlInv, AtDistance
  <2>4. LinksMet' BY <1>2 DEF CrawlInv, LinksMet, Met
  <2> QED BY <2>1, <2>2, <2>3, <2>4 DEF CrawlInv
<1>3. CASE AbortCrawl BY <1>2, <1>3 DEF AbortCrawl, More
<1>4. CASE EndCrawl BY <1>2, <1>4 DEF EndCrawl
<1>5. CASE UNCHANGED crawlVars BY <1>2, <1>5 DEF crawlVars
<1> QED BY <1>1, <1>3, <1>4, <1>5, SkipKeeps, VisitKeeps DEF CrawlNext

\* The invariant holds throughout.
LEMMA CrawlInvHolds == CrawlSpec => []CrawlInv
<1>1. CrawlInit => CrawlInv
  <2> SUFFICES ASSUME CrawlInit PROVE CrawlInv OBVIOUS
  <2>1. /\ site \in Sites /\ frontier = <<>> /\ queued = {} /\ visited = {} /\ fetched = <<>> /\ crawling = "new"
    BY DEF CrawlInit
  <2>2. CrawlTyped
    <3>1. /\ site \in [links : [Urls -> SUBSET Urls], scope : SUBSET Urls, broken : SUBSET Urls,
                       depth : Nat, maxPages : Nat, maxQueue : Nat]
          /\ \A u \in Urls : IsFiniteSet(site.links[u])
      BY <2>1, SiteOK
    <3>2. Len(<<>>) = 0 /\ <<>> \in Seq([url : Urls, depth : 0 .. site.depth]) BY EmptySeq
    <3> QED BY <2>1, <3>1, <3>2 DEF CrawlTyped
  <2>3. DOMAIN frontier = {} /\ DOMAIN fetched = {} BY <2>1
  <2> QED BY <2>1, <2>2, <2>3 DEF CrawlInv, Ordered, Accounted, AtDistance, LinksMet, Fetched, IsInjective
<1> QED BY <1>1, CrawlInvKept, PTL DEF CrawlSpec

\* No page is fetched twice, however often it is linked or configured, and unless the
\* full queue refused a link each page is fetched at its distance from the seeds,
\* although the loop of WebConnector.sync takes links in page order (web.py:194-252).
THEOREM FetchedOnceAtDistanceHolds == CrawlSpec => []FetchedOnceAtDistance
<1>1. CrawlInv => FetchedOnceAtDistance
  <2> SUFFICES ASSUME CrawlInv PROVE FetchedOnceAtDistance OBVIOUS
  <2>1. IsInjective([i \in DOMAIN fetched |-> fetched[i].url]) BY DEF CrawlInv, Accounted
  <2>2. CrawlTyped /\ site.depth \in Nat BY DEF CrawlInv, CrawlTyped
  <2>3. \A i \in DOMAIN fetched : fetched[i].depth <= site.depth
    <3>1. \A i \in DOMAIN fetched : fetched[i].depth \in 0 .. site.depth BY <2>2, PagesTyped
    <3> QED BY <2>2, <3>1
  <2> QED BY <2>1, <2>3 DEF CrawlInv, AtDistance, FetchedOnceAtDistance
<1> QED BY <1>1, CrawlInvHolds, PTL

\* A crawl ends with an empty queue or at the limit of pages.
CrawlDone == crawling = "done" => frontier = <<>> \/ Len(fetched) = site.maxPages

\* A crawl that ends by itself has fetched every page in scope within max_depth and no
\* other, unless it used up max_pages or the full queue refused a link
\* (web.py:194-252).
THEOREM CrawlCompleteHolds == CrawlSpec => []CrawlComplete
<1>1. CrawlDone /\ CrawlInv => CrawlComplete
  <2> SUFFICES ASSUME CrawlDone, CrawlInv, crawling = "done", ~refused, Len(fetched) # site.maxPages
               PROVE  {fetched[i].url : i \in DOMAIN fetched} = Within[site.depth]
    BY DEF CrawlComplete
  <2>1. CrawlTyped /\ site.depth \in Nat /\ site.depth \in 0 .. site.depth BY DEF CrawlInv, CrawlTyped
  <2>2. frontier = <<>> BY DEF CrawlDone
  <2>3. DOMAIN frontier = {} BY <2>2
  <2>4. \A u \in Within[site.depth] : u \in visited BY <2>1, <2>3, WithinIsMet DEF Met
  <2>5. \A u \in Within[site.depth] : Fetched(u) BY <2>1, <2>4, WithinGrows DEF CrawlInv, Accounted
  <2>6. ASSUME NEW i \in DOMAIN fetched PROVE fetched[i].url \in Within[site.depth]
    <3>1. fetched[i].depth \in 0 .. site.depth BY <2>1, <2>6, PagesTyped
    <3>2. Within[fetched[i].depth] \subseteq Within[site.depth] BY <2>1, <3>1, WithinGrows
    <3> QED BY <2>6, <3>2 DEF CrawlInv, AtDistance
  <2> QED BY <2>5, <2>6 DEF Fetched
<1>2. CrawlInit => CrawlDone BY DEF CrawlInit, CrawlDone
<1>3. CrawlInv /\ CrawlDone /\ [CrawlNext]_crawlVars => CrawlDone'
  <2> SUFFICES ASSUME CrawlInv, CrawlDone, [CrawlNext]_crawlVars, crawling' = "done"
               PROVE  (frontier = <<>> \/ Len(fetched) = site.maxPages)'
    BY DEF CrawlDone
  <2>1. CASE EndCrawl
    <3>1. frontier' = frontier /\ fetched' = fetched /\ site' = site /\ (frontier = <<>> \/ ~(Len(fetched) < site.maxPages))
      BY <2>1 DEF EndCrawl, More
    <3>2. Len(fetched) <= site.maxPages /\ site.maxPages \in Nat /\ Len(fetched) \in Nat
      BY LenProperties DEF CrawlInv, CrawlTyped
    <3> QED BY <3>1, <3>2
  <2>2. CASE UNCHANGED crawlVars BY <2>2 DEF crawlVars, CrawlDone
  <2> QED BY <2>1, <2>2 DEF CrawlNext, StartCrawl, Visit, Skip, AbortCrawl, More
<1> QED BY <1>1, <1>2, <1>3, CrawlInvHolds, PTL DEF CrawlSpec

-----------------------------------------------------------------------------
(* Retrieval: places *)

\* What a search answers with.
Records == [id : Chunks, score : Int]

\* The places of results in k lists.
LEMMA PlacesIs ==
  ASSUME NEW k \in Nat, NEW b \in Nat, NEW ls, DOMAIN ls = 1 .. k,
         \A i \in 1 .. k : ls[i] \in Seq(Records) /\ Len(ls[i]) <= b
  PROVE  /\ IsFiniteSet(Places(ls)) /\ Places(ls) \subseteq Nat \X Nat
         /\ \A p \in Places(ls) : /\ p[1] \in 1 .. k /\ p[2] \in DOMAIN ls[p[1]] /\ p = <<p[1], p[2]>>
                                  /\ At(ls, p) \in Records
         /\ \A i \in 1 .. k : \A r \in DOMAIN ls[i] : <<i, r>> \in Places(ls)
<1>1. \A i \in 1 .. k : DOMAIN ls[i] \subseteq 1 .. b /\ \A r \in DOMAIN ls[i] : ls[i][r] \in Records
  <2> SUFFICES ASSUME NEW i \in 1 .. k
               PROVE  DOMAIN ls[i] \subseteq 1 .. b /\ \A r \in DOMAIN ls[i] : ls[i][r] \in Records
    OBVIOUS
  <2>1. ls[i] \in Seq(Records) /\ Len(ls[i]) \in Nat /\ DOMAIN ls[i] = 1 .. Len(ls[i]) /\ Len(ls[i]) <= b
    BY LenProperties
  <2>2. \A r \in 1 .. Len(ls[i]) : ls[i][r] \in Records BY <2>1, ElementOfSeq
  <2> QED BY <2>1, <2>2
<1>2. \A p \in Places(ls) : /\ p[1] \in 1 .. k /\ p[2] \in DOMAIN ls[p[1]] /\ p = <<p[1], p[2]>>
  BY DEF Places
<1>3. \A i \in 1 .. k : \A r \in DOMAIN ls[i] : <<i, r>> \in Places(ls) BY DEF Places
<1>4. Places(ls) \subseteq (1 .. k) \X (1 .. b) BY <1>1, <1>2
<1>5. IsFiniteSet((1 .. k) \X (1 .. b))
  <2>1. 1 \in Int /\ k \in Int /\ b \in Int OBVIOUS
  <2>2. IsFiniteSet(1 .. k) /\ IsFiniteSet(1 .. b) BY <2>1, FS_Interval
  <2> QED BY <2>2, FS_Product
<1>6. IsFiniteSet(Places(ls))
  <2> DEFINE Q == (1 .. k) \X (1 .. b)
  <2>1. Places(ls) \in SUBSET Q BY <1>4
  <2> HIDE DEF Q
  <2> QED BY <1>5, <2>1, FS_Subset DEF Q
<1>7. Places(ls) \subseteq Nat \X Nat
  <2>1. (1 .. k) \X (1 .. b) \subseteq Nat \X Nat OBVIOUS
  <2> QED BY <1>4, <2>1
<1>8. \A p \in Places(ls) : At(ls, p) \in Records BY <1>1, <1>2 DEF At
<1> QED BY <1>2, <1>3, <1>6, <1>7, <1>8

\* Places are pairs of numbers: that of a list, and a rank in it.
FinitePlaces(P) == IsFiniteSet(P) /\ P \in SUBSET (Nat \X Nat)
\* o is P by descending scores s, equals in the order of their places.
InOrder(o, P, s) ==
  /\ Cardinality(P) \in Nat /\ DOMAIN o = 1 .. Cardinality(P)
  /\ \A i \in 1 .. Cardinality(P) : o[i] \in P
  /\ \A p \in P : LET i == Cardinality({q \in P : s[q] > s[p] \/ (s[q] = s[p] /\ Earlier(q, p))}) + 1
                  IN i \in 1 .. Cardinality(P) /\ o[i] = p
  /\ \A i, j \in 1 .. Cardinality(P) : i < j =>
       s[o[i]] > s[o[j]] \/ (s[o[i]] = s[o[j]] /\ Earlier(o[i], o[j]))

\* sorted(): descending scores, and equals in the order of their places.
LEMMA OrderIs ==
  ASSUME NEW P, FinitePlaces(P), NEW s, s \in [P -> Int]
  PROVE  InOrder(Order(s), P, s)
<1> DEFINE Over(p, q) == s[p] > s[q] \/ (s[p] = s[q] /\ Earlier(p, q))
           R == {pq \in P \X P : Over(pq[1], pq[2])}
<1> USE DEF FinitePlaces
<1>1. Order(s) = Arranged(P, R) BY DEF Order
<1>2. \A p \in P : s[p] \in Int /\ p[1] \in Nat /\ p[2] \in Nat /\ p = <<p[1], p[2]>> OBVIOUS
<1>3. \A p \in P : ~Over(p, p) BY <1>2 DEF Earlier
<1>4. \A p, q \in P : p = q \/ Over(p, q) \/ Over(q, p)
  <2> SUFFICES ASSUME NEW p \in P, NEW q \in P, p # q PROVE Over(p, q) \/ Over(q, p) OBVIOUS
  <2>1. p[1] # q[1] \/ p[2] # q[2] BY <1>2
  <2> QED BY <1>2, <2>1 DEF Earlier
<1>5. \A p, q, u \in P : Over(p, q) /\ Over(q, u) => Over(p, u) BY <1>2 DEF Earlier
<1> HIDE DEF Over
<1>6. \A p, q \in P : <<p, q>> \in R <=> Over(p, q) OBVIOUS
<1> HIDE DEF R
<1>7. /\ \A p \in P : ~(<<p, p>> \in R)
      /\ \A p, q \in P : p = q \/ <<p, q>> \in R \/ <<q, p>> \in R
      /\ \A p, q, u \in P : <<p, q>> \in R /\ <<q, u>> \in R => <<p, u>> \in R
  BY <1>3, <1>4, <1>5, <1>6
<1> DEFINE o == Arranged(P, R)
           n == Cardinality(P)
<1>8. /\ n \in Nat /\ DOMAIN o = 1 .. n
      /\ \A i \in 1 .. n : o[i] \in P
      /\ \A p \in P : LET i == Cardinality({q \in P : <<q, p>> \in R}) + 1 IN i \in 1 .. n /\ o[i] = p
      /\ \A i, j \in 1 .. n : i < j => <<o[i], o[j]>> \in R
  BY <1>7, ArrangedIs
<1> HIDE DEF o, n
<1>9. \A p \in P : {q \in P : <<q, p>> \in R} = {q \in P : Over(q, p)} BY <1>6
<1>10. \A p \in P : LET i == Cardinality({q \in P : Over(q, p)}) + 1 IN i \in 1 .. n /\ o[i] = p BY <1>8, <1>9
<1>11. \A i, j \in 1 .. n : i < j => Over(o[i], o[j]) BY <1>6, <1>8
<1> QED BY <1>1, <1>8, <1>10, <1>11 DEF o, n, Over, InOrder

\* m is the results at places P of some lists, in the order of the scores s, and with them.
SortedBy(m, ls, P, s) ==
  /\ m \in Seq(Records) /\ Len(m) = Cardinality(P) /\ Cardinality(P) \in Nat
  /\ \A i \in 1 .. Cardinality(P) : m[i].id = At(ls, Order(s)[i]).id /\ m[i].score = s[Order(s)[i]]

\* The results at places P of some lists, by the scores s.
LEMMA SortedIs ==
  ASSUME NEW P, FinitePlaces(P), NEW s, s \in [P -> Int],
         NEW ls, \A p \in P : At(ls, p).id \in Chunks
  PROVE  SortedBy(Sorted(ls, s), ls, P, s)
<1> DEFINE o == Order(s)
           n == Cardinality(P)
           m == Sorted(ls, s)
<1>1. n \in Nat /\ DOMAIN o = 1 .. n /\ \A i \in 1 .. n : o[i] \in P BY OrderIs DEF InOrder
<1>2. m = [i \in DOMAIN o |-> Scored(At(ls, o[i]).id, s[o[i]])] BY DEF Sorted
<1> HIDE DEF o, n, m
<1>3. \A i \in 1 .. n : Scored(At(ls, o[i]).id, s[o[i]]) \in Records BY <1>1 DEF Scored, Records
<1>4. m \in [1 .. n -> Records] BY <1>1, <1>2, <1>3
<1>5. m \in Seq(Records) /\ Len(m) = n BY <1>1, <1>4
<1>6. \A i \in 1 .. n : m[i].id = At(ls, o[i]).id /\ m[i].score = s[o[i]] BY <1>1, <1>2 DEF Scored
<1> QED BY <1>1, <1>5, <1>6 DEF o, n, m, SortedBy

-----------------------------------------------------------------------------
(* Retrieval: what rank fusion sums up *)

\* The lists of k searches: of at most TopK results, none of them twice.
Lists(ls, k) ==
  /\ ls \in [1 .. k -> Seq(Records)]
  /\ \A i \in 1 .. k : /\ Len(ls[i]) <= TopK
                       /\ \A q, r \in DOMAIN ls[i] : ls[i][q].id = ls[i][r].id => q = r

\* What a list adds to the score of a chunk.
LEMMA ShareIs ==
  ASSUME NEW l \in Seq(Records), NEW c
  PROVE  /\ Share(l, c) \in Int
         /\ (\A r \in DOMAIN l : l[r].id # c) => Share(l, c) = 0
         /\ \A r \in DOMAIN l : l[r].id = c /\ (\A q \in DOMAIN l : l[q].id = c => q = r)
              => Share(l, c) = Unit \div (RrfK + r)
<1>1. DOMAIN l \subseteq Nat \ {0}
  <2>1. DOMAIN l = 1 .. Len(l) /\ Len(l) \in Nat BY LenProperties
  <2> QED BY <2>1
<1> DEFINE r == CHOOSE r \in DOMAIN l : l[r].id = c
<1>2. CASE \E q \in DOMAIN l : l[q].id = c
  <2>1. r \in DOMAIN l /\ l[r].id = c BY <1>2
  <2>2. Share(l, c) = Unit \div (RrfK + r) BY <1>2 DEF Share
  <2> HIDE DEF r
  <2>3. Unit \div (RrfK + r) \in Int
    <3>1. Unit \in Nat /\ RrfK + r \in Nat \ {0} BY <1>1, <2>1, RetrievalBounds
    <3> DEFINE d == RrfK + r
    <3> HIDE DEF d
    <3>2. Unit \div d \in Int BY <3>1 DEF d
    <3> QED BY <3>2 DEF d
  <2> QED BY <1>2, <2>1, <2>2, <2>3
<1>3. CASE ~\E q \in DOMAIN l : l[q].id = c
  <2>1. Share(l, c) = 0 BY <1>3 DEF Share
  <2> QED BY <1>3, <2>1
<1> QED BY <1>2, <1>3

\* What rank fusion sums up.
LEMMA FusedIs ==
  ASSUME NEW k \in Nat, NEW ls, Lists(ls, k), NEW c
  PROVE  \E sum : /\ sum[0] = 0 /\ Fused(ls, c) = sum[k]
                  /\ \A i \in 0 .. k : sum[i] \in Int
                  /\ \A i \in 1 .. k : sum[i] = sum[i - 1] + Share(ls[i], c)
<1>1. Len(ls) = k /\ \A i \in 1 .. k : ls[i] \in Seq(Records)
  <2>1. ls \in [1 .. k -> Seq(Records)] BY DEF Lists
  <2> QED BY <2>1
<1> DEFINE Step(f, m) == [i \in 0 .. m |-> IF i = 0 THEN 0 ELSE f[i - 1] + Share(ls[i], c)]
           S == {m \in Nat : \E f : f = Step(f, m)}
<1>2. 0 \in S
  <2> DEFINE f == [i \in 0 .. 0 |-> 0]
  <2>1. f = Step(f, 0) OBVIOUS
  <2> QED BY <2>1
<1>3. ASSUME NEW m \in Nat, m \in S PROVE m + 1 \in S
  <2>1. PICK f : f = Step(f, m) BY <1>3
  <2> DEFINE g == Step(f, m + 1)
  <2>2. \A i \in 0 .. m : f[i] = g[i]
    <3>1. ASSUME NEW i \in 0 .. m PROVE f[i] = g[i]
      <4>1. f[i] = IF i = 0 THEN 0 ELSE f[i - 1] + Share(ls[i], c) BY <2>1
      <4>2. i \in 0 .. m + 1 OBVIOUS
      <4> QED BY <4>1, <4>2
    <3> QED BY <3>1
  <2>3. \A i \in 0 .. m + 1 : i # 0 => f[i - 1] = g[i - 1]
    <3>1. \A i \in 0 .. m + 1 : i # 0 => i - 1 \in 0 .. m OBVIOUS
    <3> HIDE DEF g
    <3> QED BY <2>2, <3>1
  <2>4. g = Step(g, m + 1) BY <2>3
  <2> HIDE DEF g, Step
  <2> QED BY <2>4
<1> HIDE DEF S
<1>4. k \in S BY <1>2, <1>3, NumbersByStep
<1>5. \E f : f = Step(f, k) BY <1>4 DEF S
<1> DEFINE sum == CHOOSE f : f = Step(f, k)
<1>6. sum = Step(sum, k) BY <1>5
<1>7. Fused(ls, c) = sum[k] BY <1>1 DEF Fused
<1> HIDE DEF sum
<1>8. \A i \in 0 .. k : sum[i] = IF i = 0 THEN 0 ELSE sum[i - 1] + Share(ls[i], c) BY <1>6
<1> HIDE DEF Step
<1>9. sum[0] = 0 /\ \A i \in 1 .. k : sum[i] = sum[i - 1] + Share(ls[i], c)
  <2>1. 0 \in 0 .. k /\ \A i \in 1 .. k : i \in 0 .. k /\ i # 0 OBVIOUS
  <2> QED BY <1>8, <2>1
<1>10. \A i \in 0 .. k : sum[i] \in Int
  <2> DEFINE T == {i \in Nat : i <= k => sum[i] \in Int}
  <2>1. 0 \in T BY <1>9
  <2>2. ASSUME NEW i \in Nat, i \in T PROVE i + 1 \in T
    <3> SUFFICES ASSUME i + 1 <= k PROVE sum[i + 1] \in Int OBVIOUS
    <3>1. i <= k /\ i + 1 \in 1 .. k /\ (i + 1) - 1 = i OBVIOUS
    <3>2. sum[i] \in Int BY <2>2, <3>1
    <3>3. sum[i + 1] = sum[i] + Share(ls[i + 1], c) BY <1>9, <3>1
    <3>4. Share(ls[i + 1], c) \in Int BY <1>1, <3>1, ShareIs
    <3> QED BY <3>2, <3>3, <3>4
  <2> HIDE DEF T
  <2>3. Nat \subseteq T BY <2>1, <2>2, NumbersByStep
  <2> QED BY <2>3 DEF T
<1> QED BY <1>7, <1>9, <1>10

\* A chunk that one list only has found: its score is that of its place there.
LEMMA FusedOnce ==
  ASSUME NEW k \in Nat, NEW ls, Lists(ls, k), NEW i \in 1 .. k, NEW r \in DOMAIN ls[i],
         \A j \in 1 .. k : \A q \in DOMAIN ls[j] : ls[j][q].id = ls[i][r].id => j = i
  PROVE  Fused(ls, ls[i][r].id) = Unit \div (RrfK + r)
<1> DEFINE c == ls[i][r].id
<1>1. PICK sum : /\ sum[0] = 0 /\ Fused(ls, c) = sum[k]
                 /\ \A j \in 0 .. k : sum[j] \in Int
                 /\ \A j \in 1 .. k : sum[j] = sum[j - 1] + Share(ls[j], c)
  BY FusedIs
<1>2. \A j \in 1 .. k : ls[j] \in Seq(Records) BY DEF Lists
<1>3. \A j \in 1 .. k : j # i => Share(ls[j], c) = 0 BY <1>2, ShareIs
<1>4. Share(ls[i], c) = Unit \div (RrfK + r) BY <1>2, ShareIs DEF Lists
<1>5. Share(ls[i], c) \in Int BY <1>2, ShareIs
<1> DEFINE v == Share(ls[i], c)
           T == {j \in Nat : j <= k => sum[j] = IF j < i THEN 0 ELSE v}
<1> HIDE DEF v, c
<1>6. 0 \in T BY <1>1
<1>7. ASSUME NEW j \in Nat, j \in T PROVE j + 1 \in T
  <2> SUFFICES ASSUME j + 1 <= k PROVE sum[j + 1] = IF j + 1 < i THEN 0 ELSE v OBVIOUS
  <2>1. j <= k /\ j + 1 \in 1 .. k /\ (j + 1) - 1 = j OBVIOUS
  <2>2. sum[j] = IF j < i THEN 0 ELSE v BY <1>7, <2>1
  <2>3. sum[j + 1] = sum[j] + Share(ls[j + 1], c) BY <1>1, <2>1
  <2>4. CASE j + 1 = i
    <3>1. sum[j] = 0 /\ Share(ls[j + 1], c) = v BY <2>2, <2>4 DEF v
    <3> QED BY <1>5, <2>3, <2>4, <3>1 DEF v
  <2>5. CASE j + 1 # i
    <3>1. Share(ls[j + 1], c) = 0 BY <1>3, <2>1, <2>5
    <3>2. (j + 1 < i <=> j < i) BY <2>5
    <3>3. sum[j] \in Int BY <1>1, <2>1
    <3>4. sum[j + 1] = sum[j] BY <2>3, <3>1, <3>3
    <3> QED BY <2>2, <3>2, <3>4
  <2> QED BY <2>4, <2>5
<1> HIDE DEF T
<1>8. k \in T BY <1>6, <1>7, NumbersByStep
<1>9. sum[k] = v
  <2>1. k <= k /\ ~(k < i) OBVIOUS
  <2> QED BY <1>8, <2>1 DEF T
<1> QED BY <1>1, <1>4, <1>9 DEF v, c

\* A search answers with at most TopK chunks, all of its own knowledge base and none twice.
LEMMA RankedIs ==
  ASSUME score \in [Chunks -> Int], vectors \subseteq Chunks, NEW kb
  PROVE  /\ Ranked(kb) \in Seq(Records) /\ Len(Ranked(kb)) <= TopK
         /\ \A r \in DOMAIN Ranked(kb) : Ranked(kb)[r].id.kb = kb
         /\ \A q, r \in DOMAIN Ranked(kb) : Ranked(kb)[q].id = Ranked(kb)[r].id => q = r
<1> DEFINE here == {c \in vectors : c.kb = kb}
           R == {p \in here \X here : Above(p[1], p[2])}
           all == Arranged(here, R)
           n == Cardinality(here)
           l == [i \in DOMAIN all |-> Scored(all[i], score[all[i]])]
<1>1. Ranked(kb) = Cut(l, TopK) BY DEF Ranked
<1>2. /\ IsFiniteSet(here) /\ here \subseteq Chunks /\ \A c \in here : c.kb = kb
      /\ \A c, d \in here : c.no = d.no => c = d
      /\ \A c \in here : c.no \in Int /\ score[c] \in Int
  <2>1. here \in SUBSET Chunks /\ \A c \in here : c.kb = kb OBVIOUS
  <2> HIDE DEF here
  <2> QED BY <2>1, RetrievalBounds, FS_Subset
<1> HIDE DEF here
<1>3. \A c, d \in here : <<c, d>> \in R <=> Above(c, d) OBVIOUS
<1> HIDE DEF R
<1>4. /\ \A c \in here : ~(<<c, c>> \in R)
      /\ \A c, d \in here : c = d \/ <<c, d>> \in R \/ <<d, c>> \in R
      /\ \A c, d, e \in here : <<c, d>> \in R /\ <<d, e>> \in R => <<c, e>> \in R
  <2>1. \A c \in here : ~Above(c, c) BY <1>2 DEF Above
  <2>2. \A c, d \in here : c = d \/ Above(c, d) \/ Above(d, c) BY <1>2 DEF Above
  <2>3. \A c, d, e \in here : Above(c, d) /\ Above(d, e) => Above(c, e) BY <1>2 DEF Above
  <2> QED BY <1>3, <2>1, <2>2, <2>3
<1>5. /\ n \in Nat /\ DOMAIN all = 1 .. n
      /\ \A i \in 1 .. n : all[i] \in here
      /\ \A i, j \in 1 .. n : i < j => <<all[i], all[j]>> \in R
  BY <1>2, <1>4, ArrangedIs
<1> HIDE DEF n, all
<1>6. \A i \in 1 .. n : l[i] \in Records /\ l[i].id = all[i] BY <1>2, <1>5 DEF Scored, Records
<1>7. \A i, j \in 1 .. n : l[i].id = l[j].id => i = j
  <2> SUFFICES ASSUME NEW i \in 1 .. n, NEW j \in 1 .. n, i # j PROVE l[i].id # l[j].id OBVIOUS
  <2>1. i < j \/ j < i OBVIOUS
  <2>2. all[i] # all[j] BY <1>4, <1>5, <2>1
  <2> QED BY <1>6, <2>2
<1>8. l \in Seq(Records) /\ Len(l) = n
  <2>1. DOMAIN l = 1 .. n BY <1>5
  <2>2. l \in [1 .. n -> Records] BY <1>5, <1>6
  <2> HIDE DEF l
  <2> QED BY <1>5, <2>1, <2>2
<1> HIDE DEF l
<1> DEFINE m == IF Len(l) < TopK THEN Len(l) ELSE TopK
           c == Cut(l, TopK)
<1>9. /\ c \in Seq(Records) /\ Len(c) = m /\ m \in Nat /\ DOMAIN c = 1 .. m
      /\ \A i \in 1 .. m : c[i] = l[i] /\ i \in DOMAIN l
  BY <1>8, CutIs, RetrievalBounds
<1>10. m <= TopK /\ \A i \in 1 .. m : i \in 1 .. n BY <1>5, <1>8, RetrievalBounds
<1> HIDE DEF c, m
<1>11. \A r \in 1 .. m : c[r].id.kb = kb BY <1>2, <1>5, <1>6, <1>9, <1>10
<1>12. \A q, r \in 1 .. m : c[q].id = c[r].id => q = r BY <1>7, <1>9, <1>10
<1> QED BY <1>1, <1>9, <1>10, <1>11, <1>12 DEF c

-----------------------------------------------------------------------------
(* Retrieval: the merge *)

\* The places among which the merge of the lists chooses, and the scores they are given.
MergedPlaces(ls, similar) == IF similar THEN Places(ls) ELSE Firsts(ls)
MergedScores(ls, similar) ==
  IF similar THEN [p \in Places(ls) |-> At(ls, p).score] ELSE FusedScores(ls)
MergedOf(ls, similar) == Cut(IF similar THEN ByScore(ls) ELSE RrfMerge(ls), TopK)

\* m is the best TopK of the results at places P, which o has in the order of their scores s.
BestOf(m, o, P, s, ls) ==
  LET n == Cardinality(P) IN
  /\ FinitePlaces(P) /\ P \subseteq Places(ls) /\ s \in [P -> Int]
  /\ n \in Nat /\ DOMAIN o = 1 .. n /\ \A i \in 1 .. n : o[i] \in P
  /\ \A p \in P : \E i \in 1 .. n : o[i] = p
  /\ \A i, j \in 1 .. n : i < j =>
       s[o[i]] > s[o[j]] \/ (s[o[i]] = s[o[j]] /\ Earlier(o[i], o[j]))
  /\ m \in Seq(Records) /\ Len(m) = (IF n < TopK THEN n ELSE TopK) /\ DOMAIN m = 1 .. Len(m)
  /\ Len(m) \in Nat
  /\ \A i \in 1 .. Len(m) : i \in 1 .. n /\ m[i].id = At(ls, o[i]).id /\ m[i].score = s[o[i]]

\* The merge takes the best TopK of those places.
LEMMA MergedIs ==
  ASSUME NEW k \in Nat, NEW ls, Lists(ls, k), NEW similar \in BOOLEAN
  PROVE  BestOf(MergedOf(ls, similar), Order(MergedScores(ls, similar)),
                MergedPlaces(ls, similar), MergedScores(ls, similar), ls)
<1> DEFINE P == MergedPlaces(ls, similar)
           s == MergedScores(ls, similar)
           o == Order(s)
           n == Cardinality(P)
           m == MergedOf(ls, similar)
           u == Sorted(ls, s)
<1>1. DOMAIN ls = 1 .. k /\ \A i \in 1 .. k : ls[i] \in Seq(Records) /\ Len(ls[i]) <= TopK
  BY DEF Lists
<1>2. /\ IsFiniteSet(Places(ls)) /\ Places(ls) \subseteq Nat \X Nat
      /\ \A p \in Places(ls) : At(ls, p) \in Records
  BY <1>1, PlacesIs, RetrievalBounds
<1>3. P \in SUBSET Places(ls) BY DEF MergedPlaces, Firsts
<1>4. s \in [P -> Int]
  <2>1. CASE similar
    <3>1. \A p \in Places(ls) : At(ls, p).score \in Int BY <1>2 DEF Records
    <3> QED BY <2>1, <3>1 DEF MergedPlaces, MergedScores
  <2>2. CASE ~similar
    <3>1. ASSUME NEW c PROVE Fused(ls, c) \in Int
      <4>1. PICK sum : Fused(ls, c) = sum[k] /\ \A i \in 0 .. k : sum[i] \in Int BY FusedIs
      <4>2. k \in 0 .. k OBVIOUS
      <4> QED BY <4>1, <4>2
    <3>2. FusedScores(ls) \in [Firsts(ls) -> Int] BY <3>1 DEF FusedScores
    <3> QED BY <2>2, <3>2 DEF MergedPlaces, MergedScores
  <2> QED BY <2>1, <2>2
<1>5. m = Cut(u, TopK)
  BY DEF MergedOf, MergedScores, ByScore, RrfMerge
<1> HIDE DEF P, s, m
<1>6. FinitePlaces(P) /\ \A p \in P : At(ls, p).id \in Chunks
  <2>1. \A p \in Places(ls) : At(ls, p).id \in Chunks BY <1>2 DEF Records
  <2>2. IsFiniteSet(P) BY <1>2, <1>3, FS_Subset
  <2>3. P \in SUBSET (Nat \X Nat) BY <1>2, <1>3
  <2> QED BY <1>3, <2>1, <2>2, <2>3 DEF FinitePlaces
<1>7. InOrder(o, P, s) BY <1>4, <1>6, OrderIs
<1>8. SortedBy(u, ls, P, s) BY <1>4, <1>6, SortedIs
<1> HIDE DEF u
<1>14. u \in Seq(Records) /\ Len(u) = n /\ \A i \in 1 .. n : u[i].id = At(ls, o[i]).id /\ u[i].score = s[o[i]]
  BY <1>8 DEF SortedBy
<1> HIDE DEF o
<1>15. /\ n \in Nat /\ DOMAIN o = 1 .. n /\ \A i \in 1 .. n : o[i] \in P
       /\ \A p \in P : \E i \in 1 .. n : o[i] = p
       /\ \A i, j \in 1 .. n : i < j =>
            s[o[i]] > s[o[j]] \/ (s[o[i]] = s[o[j]] /\ Earlier(o[i], o[j]))
  BY <1>7 DEF InOrder
<1> HIDE DEF n
<1> DEFINE z == IF Len(u) < TopK THEN Len(u) ELSE TopK
<1>9. /\ m \in Seq(Records) /\ Len(m) = z /\ z \in Nat /\ DOMAIN m = 1 .. z
      /\ \A i \in 1 .. z : m[i] = u[i] /\ i \in DOMAIN u
  BY <1>5, <1>14, CutIs, RetrievalBounds
<1>10. DOMAIN u = 1 .. n BY <1>14, LenProperties
<1>12. P \subseteq Places(ls) BY <1>3
<1>13. /\ m \in Seq(Records) /\ Len(m) = (IF n < TopK THEN n ELSE TopK) /\ DOMAIN m = 1 .. Len(m)
       /\ Len(m) \in Nat
       /\ \A i \in 1 .. Len(m) : i \in 1 .. n /\ m[i].id = At(ls, o[i]).id /\ m[i].score = s[o[i]]
  BY <1>9, <1>10, <1>14
<1>16. BestOf(m, o, P, s, ls) BY <1>4, <1>6, <1>12, <1>13, <1>15 DEF BestOf, n
<1> QED BY <1>16 DEF P, s, o, m

\* What is sorted is left in its order.
LEMMA SortedKept ==
  ASSUME NEW l \in Seq(Records), \A i, j \in DOMAIN l : i < j => l[i].score >= l[j].score
  PROVE  ByScore(<<l>>) = l
<1> DEFINE n == Len(l)
           ls == <<l>>
           P == Places(ls)
           s == [p \in P |-> At(ls, p).score]
           at == [i \in 1 .. n |-> <<1, i>>]
<1>1. n \in Nat /\ DOMAIN l = 1 .. n /\ \A i \in 1 .. n : l[i] \in Records BY LenProperties, ElementOfSeq
<1>2. DOMAIN ls = 1 .. 1 /\ ls[1] = l OBVIOUS
<1> HIDE DEF n, ls
<1>3. \A i \in 1 .. 1 : ls[i] \in Seq(Records) /\ Len(ls[i]) <= n BY <1>1, <1>2 DEF n
<1>4. 1 \in Nat OBVIOUS
<1>5. /\ IsFiniteSet(P) /\ P \subseteq Nat \X Nat
      /\ \A p \in P : /\ p[1] \in 1 .. 1 /\ p[2] \in DOMAIN ls[p[1]] /\ p = <<p[1], p[2]>>
                      /\ At(ls, p) \in Records
      /\ \A i \in 1 .. 1 : \A r \in DOMAIN ls[i] : <<i, r>> \in P
  BY <1>1, <1>2, <1>3, <1>4, PlacesIs
<1> HIDE DEF P
<1>6. \A p \in P : p = <<1, p[2]>> /\ p[2] \in 1 .. n
  <2>1. \A i \in 1 .. 1 : i = 1 OBVIOUS
  <2> QED BY <1>1, <1>2, <1>5, <2>1
<1>7. \A i \in 1 .. n : <<1, i>> \in P /\ At(ls, <<1, i>>) = l[i]
  <2>1. 1 \in 1 .. 1 OBVIOUS
  <2> QED BY <1>1, <1>2, <1>5, <2>1 DEF At
<1>8. at \in Bijection(1 .. n, P)
  <2>1. at \in [1 .. n -> P] BY <1>7
  <2>2. \A p \in P : \E i \in 1 .. n : at[i] = p BY <1>6
  <2>3. \A i, j \in 1 .. n : at[i] = at[j] => i = j OBVIOUS
  <2> HIDE DEF at
  <2> QED BY <2>1, <2>2, <2>3 DEF Bijection, Injection, Surjection, IsInjective
<1>9. Cardinality(P) = n
  <2>1. IsFiniteSet(1 .. n) /\ Cardinality(1 .. n) = n BY <1>1, UpToCardinality
  <2>2. ExistsBijection(1 .. n, P) BY <1>8 DEF ExistsBijection
  <2> QED BY <2>1, <2>2, FS_Bijection
<1>10. s \in [P -> Int] BY <1>5 DEF Records
<1>11. \A i \in 1 .. n : s[<<1, i>>] = l[i].score /\ l[i].score \in Int BY <1>1, <1>7 DEF Records
<1> HIDE DEF s
<1> DEFINE o == Order(s)
<1>12. /\ DOMAIN o = 1 .. n /\ \A i \in 1 .. n : o[i] \in P
       /\ \A p \in P : LET i == Cardinality({q \in P : s[q] > s[p] \/ (s[q] = s[p] /\ Earlier(q, p))}) + 1
                       IN i \in 1 .. n /\ o[i] = p
  <2>1. FinitePlaces(P) BY <1>5 DEF FinitePlaces
  <2>2. InOrder(o, P, s) BY <1>10, <2>1, OrderIs
  <2> HIDE DEF o
  <2> QED BY <1>9, <2>2 DEF InOrder
<1> HIDE DEF o
<1>13. ASSUME NEW i \in 1 .. n PROVE o[i] = <<1, i>>
  <2> DEFINE Q == {q \in P : s[q] > s[<<1, i>>] \/ (s[q] = s[<<1, i>>] /\ Earlier(q, <<1, i>>))}
             below == [j \in 1 .. i - 1 |-> <<1, j>>]
  <2>1. ASSUME NEW j \in 1 .. n PROVE <<1, j>> \in Q <=> j < i
    <3>1. <<1, j>> \in P /\ <<1, i>> \in P BY <1>7
    <3>2. Earlier(<<1, j>>, <<1, i>>) <=> j < i BY DEF Earlier
    <3>3. s[<<1, j>>] = l[j].score /\ s[<<1, i>>] = l[i].score /\ l[i].score \in Int /\ l[j].score \in Int
      BY <1>11
    <3>4. (j < i => l[j].score >= l[i].score) /\ (i < j => l[i].score >= l[j].score) BY <1>1
    <3>5. j < i \/ i < j \/ i = j BY <1>1
    <3> QED BY <3>1, <3>2, <3>3, <3>4, <3>5
  <2>2. Q \subseteq P /\ (\A q \in Q : q = <<1, q[2]>> /\ q[2] \in 1 .. n) BY <1>6
  <2> HIDE DEF Q
  <2>3. \A q \in Q : q = <<1, q[2]>> /\ q[2] \in 1 .. i - 1
    <3>1. \A q \in Q : q[2] \in 1 .. n /\ q[2] < i BY <2>1, <2>2
    <3>2. \A j \in 1 .. n : j < i => j \in 1 .. i - 1 OBVIOUS
    <3> QED BY <2>2, <3>1, <3>2
  <2>4. \A j \in 1 .. i - 1 : <<1, j>> \in Q
    <3>1. \A j \in 1 .. i - 1 : j \in 1 .. n /\ j < i BY <1>1
    <3> QED BY <2>1, <3>1
  <2>5. below \in Bijection(1 .. i - 1, Q)
    <3>1. below \in [1 .. i - 1 -> Q] BY <2>4
    <3>2. \A q \in Q : \E j \in 1 .. i - 1 : below[j] = q BY <2>3
    <3>3. \A a, b \in 1 .. i - 1 : below[a] = below[b] => a = b OBVIOUS
    <3> HIDE DEF below
    <3> QED BY <3>1, <3>2, <3>3 DEF Bijection, Injection, Surjection, IsInjective
  <2>6. Cardinality(Q) = i - 1
    <3>1. i - 1 \in Nat OBVIOUS
    <3>2. IsFiniteSet(1 .. i - 1) /\ Cardinality(1 .. i - 1) = i - 1 BY <3>1, UpToCardinality
    <3>3. ExistsBijection(1 .. i - 1, Q) BY <2>5 DEF ExistsBijection
    <3> QED BY <3>2, <3>3, FS_Bijection
  <2>7. (i - 1) + 1 = i OBVIOUS
  <2>8. <<1, i>> \in P BY <1>7
  <2>9. o[Cardinality(Q) + 1] = <<1, i>> BY <1>12, <2>8 DEF Q
  <2> QED BY <2>6, <2>7, <2>9
<1>14. ByScore(ls) = [i \in 1 .. n |-> Scored(At(ls, o[i]).id, s[o[i]])]
  BY <1>12 DEF ByScore, Sorted, o, s, P
<1>15. \A i \in 1 .. n : Scored(At(ls, o[i]).id, s[o[i]]) = l[i]
  <2> SUFFICES ASSUME NEW i \in 1 .. n PROVE Scored(At(ls, o[i]).id, s[o[i]]) = l[i] OBVIOUS
  <2>1. At(ls, o[i]) = l[i] /\ s[o[i]] = l[i].score BY <1>7, <1>11, <1>13
  <2>2. l[i] \in Records BY <1>1
  <2> QED BY <2>1, <2>2 DEF Scored, Records
<1>16. ByScore(ls) = [i \in 1 .. n |-> l[i]] BY <1>14, <1>15
<1>17. l = [i \in 1 .. n |-> l[i]]
  <2>1. l \in [1 .. n -> Records] BY <1>1, LenProperties DEF n
  <2> QED BY <2>1
<1> QED BY <1>16, <1>17 DEF ls

-----------------------------------------------------------------------------
(* Retrieval: the requests *)

\* What one search answers: the best of its own knowledge base, each chunk once.
Answers(l, kb) ==
  /\ l \in Seq(Records) /\ Len(l) <= TopK
  /\ \A r \in DOMAIN l : l[r].id.kb = kb
  /\ \A q, r \in DOMAIN l : l[q].id = l[r].id => q = r
Descending(l) ==
  l \in Seq(Records) /\ \A i, j \in DOMAIN l : i < j => l[i].score >= l[j].score

\* The lists are those of the searches that answered, the merge is that of all lists, and what
\* the filter kept of it is in its order.
RetrievalInv ==
  /\ score \in [Chunks -> Int] /\ vectors \subseteq Chunks
  /\ \E k \in Nat : DOMAIN request.kbs = 1 .. k
  /\ lists = [i \in DOMAIN lists |-> lists[i]] /\ DOMAIN lists \subseteq DOMAIN request.kbs
  /\ \A i \in DOMAIN lists : Answers(lists[i], request.kbs[i])
  /\ asking = "new" => DOMAIN lists = {}
  /\ IF asking \in {"new", "query"} THEN merged = <<>>
     ELSE DOMAIN lists = DOMAIN request.kbs /\ merged = MergedOf(lists, request.mode = "similarity")
  /\ Descending(kept)
  /\ asking = "fallback" => answer = Cut(ByScore(<<kept>>), TopN)

\* When every search has answered there is a list for each knowledge base of the request.
LEMMA ListsAre ==
  ASSUME RetrievalInv, DOMAIN lists = DOMAIN request.kbs
  PROVE  \E k \in Nat : Lists(lists, k) /\ DOMAIN request.kbs = 1 .. k
<1>1. PICK k \in Nat : DOMAIN request.kbs = 1 .. k BY DEF RetrievalInv
<1>2. DOMAIN lists = 1 .. k BY <1>1
<1>3. \A i \in 1 .. k : Answers(lists[i], request.kbs[i]) BY <1>2 DEF RetrievalInv
<1>4. \A i \in 1 .. k : lists[i] \in Seq(Records) BY <1>3 DEF Answers
<1>5. lists = [i \in DOMAIN lists |-> lists[i]] BY DEF RetrievalInv
<1>6. lists = [i \in 1 .. k |-> lists[i]] BY <1>2, <1>5
<1>7. lists \in [1 .. k -> Seq(Records)] BY <1>4, <1>6
<1>8. Lists(lists, k) BY <1>3, <1>7 DEF Lists, Answers
<1> QED BY <1>1, <1>8

\* The merge of a request, taken apart.
LEMMA MergedApart ==
  ASSUME RetrievalInv, asking \notin {"new", "query"}
  PROVE  \E k \in Nat, similar \in BOOLEAN :
           /\ Lists(lists, k) /\ DOMAIN request.kbs = 1 .. k
           /\ similar = (request.mode = "similarity")
           /\ BestOf(merged, Order(MergedScores(lists, similar)),
                     MergedPlaces(lists, similar), MergedScores(lists, similar), lists)
<1>1. DOMAIN lists = DOMAIN request.kbs /\ merged = MergedOf(lists, request.mode = "similarity")
  BY DEF RetrievalInv
<1>2. PICK k \in Nat : Lists(lists, k) /\ DOMAIN request.kbs = 1 .. k BY <1>1, ListsAre
<1> DEFINE similar == (request.mode = "similarity")
<1>3. similar \in BOOLEAN OBVIOUS
<1>4. merged = MergedOf(lists, similar) BY <1>1
<1> HIDE DEF similar
<1>5. BestOf(MergedOf(lists, similar), Order(MergedScores(lists, similar)),
             MergedPlaces(lists, similar), MergedScores(lists, similar), lists)
  BY <1>2, <1>3, MergedIs
<1>6. BestOf(merged, Order(MergedScores(lists, similar)),
             MergedPlaces(lists, similar), MergedScores(lists, similar), lists)
  BY <1>4, <1>5
<1> QED BY <1>2, <1>3, <1>6 DEF similar

\* The merge answers in descending scores.
LEMMA BestOfDescends ==
  ASSUME NEW m, NEW o, NEW P, NEW s, NEW ls, BestOf(m, o, P, s, ls)
  PROVE  Descending(m)
<1>1. /\ s \in [P -> Int] /\ m \in Seq(Records) /\ DOMAIN m = 1 .. Len(m) /\ Len(m) \in Nat
      /\ \A i \in 1 .. Len(m) : i \in 1 .. Cardinality(P) /\ m[i].score = s[o[i]]
      /\ \A i \in 1 .. Cardinality(P) : o[i] \in P
      /\ \A i, j \in 1 .. Cardinality(P) : i < j =>
           s[o[i]] > s[o[j]] \/ (s[o[i]] = s[o[j]] /\ Earlier(o[i], o[j]))
  BY DEF BestOf
<1>2. ASSUME NEW i \in 1 .. Len(m), NEW j \in 1 .. Len(m), i < j PROVE m[i].score >= m[j].score
  <2>1. s[o[i]] \in Int /\ s[o[j]] \in Int BY <1>1
  <2>2. s[o[i]] > s[o[j]] \/ s[o[i]] = s[o[j]] BY <1>1, <1>2
  <2>3. s[o[i]] >= s[o[j]] BY <2>1, <2>2
  <2> QED BY <1>1, <2>3
<1> QED BY <1>1, <1>2 DEF Descending

\* Dropping what has no row leaves the order of the rest.
LEMMA FilterDescends ==
  ASSUME NEW m, Descending(m), NEW good, good \subseteq DOMAIN m, NEW places,
         places = Arranged(good, {p \in good \X good : p[1] < p[2]})
  PROVE  Descending([i \in DOMAIN places |-> m[places[i]]])
<1>1. m \in Seq(Records) /\ Len(m) \in Nat /\ DOMAIN m = 1 .. Len(m) /\ \A i \in 1 .. Len(m) : m[i] \in Records
  BY LenProperties, ElementOfSeq DEF Descending
<1>2. IsFiniteSet(good)
  <2>1. IsFiniteSet(1 .. Len(m)) BY <1>1, UpToCardinality
  <2> QED BY <1>1, <2>1, FS_Subset
<1> DEFINE R == {p \in good \X good : p[1] < p[2]}
           n == Cardinality(good)
           l == [i \in DOMAIN places |-> m[places[i]]]
<1>3. \A x, y \in good : <<x, y>> \in R <=> x < y OBVIOUS
<1>4. \A x \in good : x \in Int BY <1>1
<1>5. places = Arranged(good, R) OBVIOUS
<1> HIDE DEF R
<1>6. /\ \A x \in good : ~(<<x, x>> \in R)
      /\ \A x, y \in good : x = y \/ <<x, y>> \in R \/ <<y, x>> \in R
      /\ \A x, y, z \in good : <<x, y>> \in R /\ <<y, z>> \in R => <<x, z>> \in R
  BY <1>3, <1>4
<1>7. /\ n \in Nat /\ DOMAIN places = 1 .. n
      /\ \A i \in 1 .. n : places[i] \in good
      /\ \A i, j \in 1 .. n : i < j => <<places[i], places[j]>> \in R
  BY <1>2, <1>5, <1>6, ArrangedIs
<1> HIDE DEF n
<1>8. l \in Seq(Records) /\ DOMAIN l = 1 .. n
  <2>1. \A i \in 1 .. n : m[places[i]] \in Records BY <1>1, <1>7
  <2>2. l \in [1 .. n -> Records] BY <1>7, <2>1
  <2> QED BY <1>7, <2>2
<1>9. ASSUME NEW i \in 1 .. n, NEW j \in 1 .. n, i < j PROVE l[i].score >= l[j].score
  <2>1. places[i] \in good /\ places[j] \in good /\ places[i] < places[j] BY <1>3, <1>7, <1>9
  <2>2. m[places[i]].score >= m[places[j]].score BY <2>1 DEF Descending
  <2> QED BY <1>7, <2>2
<1> QED BY <1>8, <1>9 DEF Descending

\* Nothing is in any order.
LEMMA EmptyDescends == Descending(<<>>)
<1>1. <<>> \in Seq(Records) /\ DOMAIN <<>> = {} OBVIOUS
<1> QED BY <1>1 DEF Descending

\* A new search has no lists.
LEMMA RetrievalStarts == RetrievalInit => RetrievalInv
<1> SUFFICES ASSUME RetrievalInit PROVE RetrievalInv OBVIOUS
<1>1. score \in [Chunks -> Int] /\ vectors \subseteq Chunks BY RetrievalBounds DEF RetrievalInit
<1>2. DOMAIN request.kbs = {} /\ DOMAIN lists = {} /\ lists = [i \in DOMAIN lists |-> lists[i]]
  BY DEF RetrievalInit
<1>3. 0 \in Nat /\ 1 .. 0 = {} OBVIOUS
<1>4. Descending(kept) BY EmptyDescends DEF RetrievalInit
<1> QED BY <1>1, <1>2, <1>3, <1>4 DEF RetrievalInit, RetrievalInv

\* Every answer, failure, merge, filter, purge and rerank keeps the lists and what was made of them.
LEMMA RetrievalSteps == RetrievalInv /\ [RetrievalNext]_retrievalVars => RetrievalInv'
<1> SUFFICES ASSUME RetrievalInv, [RetrievalNext]_retrievalVars PROVE RetrievalInv' OBVIOUS
<1> USE DEF RetrievalInv, results
<1>1. CASE Ask
  <2>1. DOMAIN lists = {} BY <1>1 DEF Ask
  <2>2. PICK kbs \in KbLists, mode \in {"hybrid", "similarity"} : request' = [kbs |-> kbs, mode |-> mode]
    BY <1>1 DEF Ask
  <2>3. request'.kbs = kbs BY <2>2
  <2>4. \E k \in Nat : DOMAIN kbs = 1 .. k
    <3>1. kbs \in Seq(ToSet(kbs)) BY RetrievalBounds
    <3> QED BY <3>1, LenProperties
  <2>5. UNCHANGED <<score, vectors, lists, merged, kept, answer>> /\ asking = "new" /\ asking' = "query"
    BY <1>1 DEF Ask
  <2> QED BY <2>1, <2>3, <2>4, <2>5
<1>2. ASSUME NEW i \in Unanswered, NEW l, Answers(l, request.kbs[i]), Record(i, l),
             UNCHANGED <<score, vectors, request, merged, kept, answer, asking>>
      PROVE RetrievalInv'
  <2>1. i \in DOMAIN request.kbs /\ asking = "query" BY DEF Unanswered
  <2>2. DOMAIN lists' = DOMAIN lists \cup {i} /\ \A j \in DOMAIN lists' : lists'[j] = IF j = i THEN l ELSE lists[j]
    BY <1>2 DEF Record
  <2>3. lists' = [j \in DOMAIN lists' |-> lists'[j]] BY <1>2 DEF Record
  <2>4. \A j \in DOMAIN lists' : Answers(lists'[j], request.kbs[j]) BY <1>2, <2>2
  <2> HIDE DEF RetrievalInv
  <2>5. DOMAIN lists' \subseteq DOMAIN request.kbs BY <2>1, <2>2 DEF RetrievalInv
  <2>6. asking' = "query" /\ merged' = <<>> BY <1>2, <2>1 DEF RetrievalInv
  <2> QED BY <1>2, <2>3, <2>4, <2>5, <2>6 DEF RetrievalInv
<1>3. ASSUME NEW i \in Unanswered, QueryKb(i) PROVE RetrievalInv'
  <2>1. Answers(Ranked(request.kbs[i]), request.kbs[i]) BY RankedIs DEF Answers
  <2> QED BY <1>2, <1>3, <2>1 DEF QueryKb
<1>4. ASSUME NEW i \in Unanswered, QueryKbFails(i) PROVE RetrievalInv'
  <2>1. <<>> \in Seq(Records) /\ DOMAIN <<>> = {} /\ Len(<<>>) = 0 OBVIOUS
  <2>2. Answers(<<>>, request.kbs[i]) BY <2>1, RetrievalBounds DEF Answers
  <2> QED BY <1>2, <1>4, <2>2 DEF QueryKbFails
<1>5. CASE Merge
  <2>1. asking = "query" /\ DOMAIN lists = DOMAIN request.kbs BY <1>5 DEF Merge, Unanswered
  <2>2. UNCHANGED <<score, vectors, request, lists, kept, answer>> /\ asking' = "filter" BY <1>5 DEF Merge
  <2>3. merged' = MergedOf(lists, request.mode = "similarity") BY <1>5 DEF Merge, MergedOf
  <2> QED BY <2>1, <2>2, <2>3
<1>6. CASE Filter
  <2>1. asking = "filter" /\ asking' = "rerank" /\ UNCHANGED <<score, vectors, request, lists, merged, answer>>
    BY <1>6 DEF Filter
  <2>2. Descending(merged)
    <3>1. PICK k \in Nat, similar \in BOOLEAN :
            BestOf(merged, Order(MergedScores(lists, similar)),
                   MergedPlaces(lists, similar), MergedScores(lists, similar), lists)
      BY <2>1, MergedApart
    <3> QED BY <3>1, BestOfDescends
  <2> DEFINE good == {i \in DOMAIN merged : merged[i].id.doc \in rowed}
             places == Arranged(good, {p \in good \X good : p[1] < p[2]})
  <2>3. kept' = [i \in DOMAIN places |-> merged[places[i]]] BY <1>6 DEF Filter
  <2>4. good \subseteq DOMAIN merged OBVIOUS
  <2> HIDE DEF good
  <2>5. places = Arranged(good, {p \in good \X good : p[1] < p[2]}) OBVIOUS
  <2> HIDE DEF places
  <2>6. Descending([i \in DOMAIN places |-> merged[places[i]]]) BY <2>2, <2>4, <2>5, FilterDescends
  <2>7. Descending(kept') BY <2>3, <2>6
  <2>8. Descending(kept)' BY <2>7 DEF Descending
  <2> QED BY <2>1, <2>8
<1>7. ASSUME NEW p \in purging, Purge(p[1], p[2]) PROVE RetrievalInv'
  <2>1. vectors' \subseteq Chunks BY <1>7 DEF Purge
  <2>2. UNCHANGED <<score, request, lists, merged, kept, answer, asking>> BY <1>7 DEF Purge
  <2> QED BY <2>1, <2>2
<1>8. CASE Rerank \/ NoRerank
  <2>1. UNCHANGED <<score, vectors, request, lists, merged, kept>> /\ asking = "rerank" /\ asking' = "done"
    BY <1>8 DEF Rerank, NoRerank
  <2> QED BY <2>1
<1>9. CASE RerankFails
  <2>1. /\ UNCHANGED <<score, vectors, request, lists, merged, kept>>
        /\ asking = "rerank" /\ asking' \in {"fallback", "error"}
        /\ asking' = "fallback" => answer' = Cut(ByScore(<<kept>>), TopN)
    BY <1>9 DEF RerankFails
  <2>2. (asking = "fallback" => answer = Cut(ByScore(<<kept>>), TopN))' BY <2>1
  <2>3. asking' \notin {"new", "query"} BY <2>1
  <2> QED BY <2>1, <2>2, <2>3
<1>10. ASSUME NEW d \in rowed, LoseRow(d) PROVE RetrievalInv'
  <2>1. UNCHANGED <<score, vectors, request, lists, merged, kept, answer, asking>> BY <1>10 DEF LoseRow
  <2> QED BY <2>1
<1>11. CASE UNCHANGED retrievalVars BY <1>11 DEF retrievalVars
<1> QED BY <1>1, <1>3, <1>4, <1>5, <1>6, <1>7, <1>8, <1>9, <1>10, <1>11 DEF RetrievalNext

\* The inductive invariant of a search.
LEMMA RetrievalInvHolds == RetrievalSpec => []RetrievalInv
BY RetrievalStarts, RetrievalSteps, PTL DEF RetrievalSpec

\* (reranker.py:64) Without its reranker a search answers with the first results it would have
\* answered without reranking: sorting what is in order again leaves it as it is.
THEOREM FallbackIsPrefixHolds == RetrievalSpec => []FallbackIsPrefix
<1>1. ASSUME RetrievalInv PROVE FallbackIsPrefix
  <2>1. ByScore(<<kept>>) = kept BY <1>1, SortedKept DEF RetrievalInv, Descending
  <2> QED BY <1>1, <2>1 DEF RetrievalInv, FallbackIsPrefix
<1>2. RetrievalInv => FallbackIsPrefix BY <1>1
<1> QED BY <1>2, RetrievalInvHolds, PTL

\* The first of the places at which an id is found.
LEMMA FirstExists ==
  ASSUME NEW P, FinitePlaces(P), NEW ls, NEW p \in P
  PROVE  \E q \in P : At(ls, q).id = At(ls, p).id /\ \A u \in P : Earlier(u, q) => At(ls, u).id # At(ls, q).id
<1> DEFINE S == {q \in P : At(ls, q).id = At(ls, p).id}
           R == {pq \in S \X S : Earlier(pq[1], pq[2])}
           n == Cardinality(S)
           a == Arranged(S, R)
<1>1. p \in S /\ S \in SUBSET P OBVIOUS
<1>2. IsFiniteSet(S) /\ \A q \in S : q[1] \in Nat /\ q[2] \in Nat /\ q = <<q[1], q[2]>>
  <2>1. IsFiniteSet(P) /\ \A q \in P : q[1] \in Nat /\ q[2] \in Nat /\ q = <<q[1], q[2]>> BY DEF FinitePlaces
  <2> HIDE DEF S
  <2> QED BY <1>1, <2>1, FS_Subset
<1>3. \A q \in P : q \in S <=> At(ls, q).id = At(ls, p).id OBVIOUS
<1> HIDE DEF S
<1>4. \A x, y \in S : <<x, y>> \in R <=> Earlier(x, y) OBVIOUS
<1> HIDE DEF R
<1>5. /\ \A x \in S : ~(<<x, x>> \in R)
      /\ \A x, y \in S : x = y \/ <<x, y>> \in R \/ <<y, x>> \in R
      /\ \A x, y, z \in S : <<x, y>> \in R /\ <<y, z>> \in R => <<x, z>> \in R
  <2>1. \A x \in S : ~Earlier(x, x) BY <1>2 DEF Earlier
  <2>2. \A x, y \in S : x = y \/ Earlier(x, y) \/ Earlier(y, x)
    <3> SUFFICES ASSUME NEW x \in S, NEW y \in S, x # y PROVE Earlier(x, y) \/ Earlier(y, x) OBVIOUS
    <3>1. x[1] # y[1] \/ x[2] # y[2] BY <1>2
    <3> QED BY <1>2, <3>1 DEF Earlier
  <2>3. \A x, y, z \in S : Earlier(x, y) /\ Earlier(y, z) => Earlier(x, z) BY <1>2 DEF Earlier
  <2> QED BY <1>4, <2>1, <2>2, <2>3
<1>6. /\ n \in Nat
      /\ \A i \in 1 .. n : a[i] \in S
      /\ \A x \in S : \E i \in 1 .. n : a[i] = x
      /\ \A i, j \in 1 .. n : i < j => <<a[i], a[j]>> \in R
  <2>1. \A x \in S : LET i == Cardinality({y \in S : <<y, x>> \in R}) + 1 IN i \in 1 .. n /\ a[i] = x
    BY <1>2, <1>5, ArrangedIs
  <2>2. /\ n \in Nat
        /\ \A i \in 1 .. n : a[i] \in S
        /\ \A i, j \in 1 .. n : i < j => <<a[i], a[j]>> \in R
    BY <1>2, <1>5, ArrangedIs
  <2> HIDE DEF n, a
  <2>3. \A x \in S : \E i \in 1 .. n : a[i] = x BY <2>1
  <2> QED BY <2>2, <2>3
<1> HIDE DEF n, a
<1>7. 1 \in 1 .. n BY <1>1, <1>6
<1>8. a[1] \in S BY <1>6, <1>7
<1>9. ASSUME NEW u \in S, Earlier(u, a[1]) PROVE FALSE
  <2>1. PICK i \in 1 .. n : a[i] = u BY <1>6
  <2>2. i = 1 \/ 1 < i BY <1>6
  <2>3. CASE i = 1
    <3>1. ~Earlier(u, u) BY <1>2 DEF Earlier
    <3> QED BY <1>9, <2>1, <2>3, <3>1
  <2>4. CASE 1 < i
    <3>1. Earlier(a[1], u) BY <1>4, <1>6, <1>7, <1>8, <2>1, <2>4
    <3>2. Earlier(u, u) BY <1>2, <1>8, <1>9, <3>1 DEF Earlier
    <3>3. ~Earlier(u, u) BY <1>2 DEF Earlier
    <3> QED BY <3>2, <3>3
  <2> QED BY <2>2, <2>3, <2>4
<1>10. \A u \in P : Earlier(u, a[1]) => At(ls, u).id # At(ls, a[1]).id
  <2> SUFFICES ASSUME NEW u \in P, Earlier(u, a[1]), At(ls, u).id = At(ls, a[1]).id PROVE FALSE OBVIOUS
  <2>1. At(ls, u).id = At(ls, p).id BY <1>1, <1>3, <1>8
  <2>2. u \in S BY <1>3, <2>1
  <2> QED BY <1>9, <2>2
<1> QED BY <1>1, <1>3, <1>8, <1>10

\* The places of the lists of k searches, and what is found at them.
LEMMA ListPlaces ==
  ASSUME NEW k \in Nat, NEW ls, Lists(ls, k)
  PROVE  /\ DOMAIN ls = 1 .. k /\ FinitePlaces(Places(ls))
         /\ \A p \in Places(ls) : /\ p[1] \in 1 .. k /\ p[2] \in DOMAIN ls[p[1]] /\ p = <<p[1], p[2]>>
                                  /\ p[1] \in Nat /\ p[2] \in 1 .. TopK
                                  /\ At(ls, p) = ls[p[1]][p[2]] /\ At(ls, p) \in Records
         /\ \A i \in 1 .. k : \A r \in DOMAIN ls[i] : <<i, r>> \in Places(ls) /\ At(ls, <<i, r>>) = ls[i][r]
<1>1. DOMAIN ls = 1 .. k /\ \A i \in 1 .. k : ls[i] \in Seq(Records) /\ Len(ls[i]) <= TopK BY DEF Lists
<1>2. /\ IsFiniteSet(Places(ls)) /\ Places(ls) \subseteq Nat \X Nat
      /\ \A p \in Places(ls) : /\ p[1] \in 1 .. k /\ p[2] \in DOMAIN ls[p[1]] /\ p = <<p[1], p[2]>>
                               /\ At(ls, p) \in Records
      /\ \A i \in 1 .. k : \A r \in DOMAIN ls[i] : <<i, r>> \in Places(ls)
  BY <1>1, PlacesIs, RetrievalBounds
<1>3. FinitePlaces(Places(ls)) BY <1>2 DEF FinitePlaces
<1>4. ASSUME NEW p \in Places(ls) PROVE p[1] \in Nat /\ p[2] \in 1 .. TopK /\ At(ls, p) = ls[p[1]][p[2]]
  <2>1. p[1] \in 1 .. k /\ p[2] \in DOMAIN ls[p[1]] BY <1>2
  <2>2. ls[p[1]] \in Seq(Records) /\ Len(ls[p[1]]) <= TopK BY <1>1, <2>1
  <2>3. Len(ls[p[1]]) \in Nat /\ p[2] \in 1 .. Len(ls[p[1]]) BY <2>1, <2>2, LenProperties
  <2>4. p[2] \in 1 .. TopK BY <2>2, <2>3, RetrievalBounds
  <2> QED BY <2>1, <2>4 DEF At
<1>5. \A i \in 1 .. k : \A r \in DOMAIN ls[i] : At(ls, <<i, r>>) = ls[i][r] BY DEF At
<1> QED BY <1>1, <1>2, <1>3, <1>4, <1>5

\* No two places at which a merge may choose hold the same id, unless it is a merge by
\* similarity of a request that names a knowledge base twice.
LEMMA PlacesDiffer ==
  ASSUME RetrievalInv, NEW k \in Nat, Lists(lists, k), DOMAIN request.kbs = 1 .. k, NEW similar \in BOOLEAN,
         ~similar \/ Once
  PROVE  \A p, q \in MergedPlaces(lists, similar) : At(lists, p).id = At(lists, q).id => p = q
<1> SUFFICES ASSUME NEW p \in MergedPlaces(lists, similar), NEW q \in MergedPlaces(lists, similar),
                    At(lists, p).id = At(lists, q).id
             PROVE  p = q
  OBVIOUS
<1>1. p \in Places(lists) /\ q \in Places(lists) BY DEF MergedPlaces, Firsts
<1>2. /\ p[1] \in 1 .. k /\ p[2] \in DOMAIN lists[p[1]] /\ p = <<p[1], p[2]>>
      /\ p[1] \in Nat /\ p[2] \in 1 .. TopK /\ At(lists, p) = lists[p[1]][p[2]]
      /\ q[1] \in 1 .. k /\ q[2] \in DOMAIN lists[q[1]] /\ q = <<q[1], q[2]>>
      /\ q[1] \in Nat /\ q[2] \in 1 .. TopK /\ At(lists, q) = lists[q[1]][q[2]]
      /\ DOMAIN lists = 1 .. k
  BY <1>1, ListPlaces
<1>3. CASE Once
  <2>1. At(lists, p).id.kb = request.kbs[p[1]] /\ At(lists, q).id.kb = request.kbs[q[1]]
    BY <1>2 DEF RetrievalInv, Answers
  <2>2. p[1] = q[1] BY <1>2, <1>3, <2>1 DEF Once, IsInjective
  <2>3. lists[p[1]][p[2]].id = lists[p[1]][q[2]].id BY <1>2, <2>2
  <2>4. p[2] = q[2] BY <1>2, <2>2, <2>3 DEF Lists
  <2> QED BY <1>2, <2>2, <2>4
<1>4. CASE ~similar
  <2>1. p \in Firsts(lists) /\ q \in Firsts(lists) BY <1>4 DEF MergedPlaces
  <2>2. ~Earlier(p, q) /\ ~Earlier(q, p) BY <1>1, <2>1 DEF Firsts
  <2>3. p[1] = q[1] /\ p[2] = q[2] BY <1>2, <2>2 DEF Earlier
  <2> QED BY <1>2, <2>3
<1> QED BY <1>3, <1>4

\* What a search found and the merge left out: its first place is beyond the TopK that it took.
LEMMA LeftOut ==
  ASSUME RetrievalInv, asking \notin {"new", "query"}, NEW r \in Found,
         r.id \notin {q.id : q \in ToSet(merged)}
  PROVE  Len(merged) = TopK /\ (request.mode = "similarity" => \A m \in ToSet(merged) : m.score >= r.score)
<1>1. PICK k \in Nat, similar \in BOOLEAN :
        /\ Lists(lists, k) /\ DOMAIN request.kbs = 1 .. k
        /\ similar = (request.mode = "similarity")
        /\ BestOf(merged, Order(MergedScores(lists, similar)),
                  MergedPlaces(lists, similar), MergedScores(lists, similar), lists)
  BY MergedApart
<1> DEFINE P == MergedPlaces(lists, similar)
           s == MergedScores(lists, similar)
           o == Order(s)
           n == Cardinality(P)
<1>2. /\ s \in [P -> Int] /\ n \in Nat /\ \A i \in 1 .. n : o[i] \in P
      /\ \A p \in P : \E i \in 1 .. n : o[i] = p
      /\ \A i, j \in 1 .. n : i < j => s[o[i]] > s[o[j]] \/ (s[o[i]] = s[o[j]] /\ Earlier(o[i], o[j]))
      /\ merged \in Seq(Records) /\ Len(merged) = (IF n < TopK THEN n ELSE TopK)
      /\ DOMAIN merged = 1 .. Len(merged) /\ Len(merged) \in Nat
      /\ \A i \in 1 .. Len(merged) :
           i \in 1 .. n /\ merged[i].id = At(lists, o[i]).id /\ merged[i].score = s[o[i]]
  BY <1>1 DEF BestOf
<1>3. /\ DOMAIN lists = 1 .. k /\ FinitePlaces(Places(lists))
      /\ \A i \in 1 .. k : \A x \in DOMAIN lists[i] : <<i, x>> \in Places(lists) /\ At(lists, <<i, x>>) = lists[i][x]
      /\ \A p \in Places(lists) : At(lists, p) \in Records
  BY <1>1, ListPlaces
<1>4. PICK p \in Places(lists) : At(lists, p) = r
  <2>1. PICK i \in DOMAIN lists : r \in ToSet(lists[i]) BY DEF Found
  <2>2. PICK x \in DOMAIN lists[i] : lists[i][x] = r BY <2>1 DEF ToSet
  <2> QED BY <1>3, <2>1, <2>2
<1>5. PICK q \in P : At(lists, q).id = r.id /\ (similar => s[q] = r.score)
  <2>1. CASE similar
    <3>1. p \in P BY <2>1 DEF MergedPlaces
    <3>2. s[p] = r.score BY <1>4, <2>1 DEF MergedScores
    <3> QED BY <1>4, <3>1, <3>2
  <2>2. CASE ~similar
    <3>1. PICK q \in Places(lists) :
            /\ At(lists, q).id = At(lists, p).id
            /\ \A u \in Places(lists) : Earlier(u, q) => At(lists, u).id # At(lists, q).id
      BY <1>3, FirstExists
    <3>2. q \in P BY <2>2, <3>1 DEF MergedPlaces, Firsts
    <3> QED BY <1>4, <2>2, <3>1, <3>2
  <2> QED BY <2>1, <2>2
<1> HIDE DEF P, s, o, n
<1>6. PICK i \in 1 .. n : o[i] = q BY <1>2
<1>7. ~(i \in 1 .. Len(merged))
  <2> SUFFICES ASSUME i \in 1 .. Len(merged) PROVE FALSE OBVIOUS
  <2>1. merged[i].id = r.id /\ merged[i] \in ToSet(merged) BY <1>2, <1>5, <1>6 DEF ToSet
  <2> QED BY <2>1
<1>8. Len(merged) = TopK /\ Len(merged) < i
  <2>1. i \in Nat /\ 1 <= i /\ i <= n BY <1>2, <1>6
  <2>2. Len(merged) < i BY <1>2, <1>7, <2>1
  <2>3. Len(merged) < n BY <1>2, <2>1, <2>2
  <2> QED BY <1>2, <2>2, <2>3
<1>9. ASSUME request.mode = "similarity", NEW m \in ToSet(merged) PROVE m.score >= r.score
  <2>1. PICK j \in 1 .. Len(merged) : merged[j] = m BY <1>2 DEF ToSet
  <2>2. j \in 1 .. n /\ m.score = s[o[j]] BY <1>2, <2>1
  <2>3. j < i
    <3>1. j <= Len(merged) /\ j \in Nat /\ i \in Nat BY <1>2, <2>1
    <3> QED BY <1>2, <1>8, <3>1
  <2>4. s[o[j]] > s[o[i]] \/ s[o[j]] = s[o[i]] BY <1>2, <1>6, <2>2, <2>3
  <2>5. s[o[i]] \in Int /\ s[o[j]] \in Int BY <1>2, <2>2
  <2>6. s[o[i]] = r.score BY <1>1, <1>5, <1>6, <1>9
  <2>7. s[o[j]] >= s[o[i]] BY <2>4, <2>5
  <2> QED BY <2>2, <2>6, <2>7
<1> QED BY <1>8, <1>9

\* A merge of different ids holds as many of them as results.
LEMMA MergedOnce ==
  ASSUME RetrievalInv, asking \notin {"new", "query"}, request.mode = "hybrid" \/ Once
  PROVE  Cardinality({q.id : q \in ToSet(merged)}) = Len(merged)
<1>1. PICK k \in Nat, similar \in BOOLEAN :
        /\ Lists(lists, k) /\ DOMAIN request.kbs = 1 .. k
        /\ similar = (request.mode = "similarity")
        /\ BestOf(merged, Order(MergedScores(lists, similar)),
                  MergedPlaces(lists, similar), MergedScores(lists, similar), lists)
  BY MergedApart
<1> DEFINE P == MergedPlaces(lists, similar)
           s == MergedScores(lists, similar)
           o == Order(s)
           n == Cardinality(P)
           z == Len(merged)
           ids == {q.id : q \in ToSet(merged)}
           f == [i \in 1 .. z |-> merged[i].id]
<1>2. /\ s \in [P -> Int] /\ n \in Nat /\ \A i \in 1 .. n : o[i] \in P
      /\ \A i, j \in 1 .. n : i < j => s[o[i]] > s[o[j]] \/ (s[o[i]] = s[o[j]] /\ Earlier(o[i], o[j]))
      /\ DOMAIN merged = 1 .. z /\ z \in Nat
      /\ \A i \in 1 .. z : i \in 1 .. n /\ merged[i].id = At(lists, o[i]).id
      /\ FinitePlaces(P)
  BY <1>1 DEF BestOf
<1>3. \A p, q \in P : At(lists, p).id = At(lists, q).id => p = q
  <2>1. ~similar \/ Once BY <1>1
  <2> QED BY <1>1, <2>1, PlacesDiffer
<1> HIDE DEF P, s, o, n
<1>4. \A p \in P : ~Earlier(p, p) /\ s[p] \in Int BY <1>2 DEF FinitePlaces, Earlier
<1>5. \A i, j \in 1 .. n : i < j => o[i] # o[j] BY <1>2, <1>4
<1>6. ASSUME NEW i \in 1 .. z, NEW j \in 1 .. z, f[i] = f[j] PROVE i = j
  <2>1. i \in 1 .. n /\ j \in 1 .. n /\ At(lists, o[i]).id = At(lists, o[j]).id BY <1>2, <1>6
  <2>2. o[i] = o[j] BY <1>2, <1>3, <2>1
  <2>3. i < j \/ j < i \/ i = j BY <2>1
  <2> QED BY <1>5, <2>1, <2>2, <2>3
<1>7. ids = {merged[i].id : i \in 1 .. z} BY <1>2 DEF ToSet
<1>8. f \in Bijection(1 .. z, ids)
  <2>1. f \in [1 .. z -> ids] BY <1>7
  <2>2. \A c \in ids : \E i \in 1 .. z : f[i] = c BY <1>7
  <2> HIDE DEF f, ids, z
  <2> QED BY <1>6, <2>1, <2>2 DEF Bijection, Injection, Surjection, IsInjective
<1>9. IsFiniteSet(1 .. z) /\ Cardinality(1 .. z) = z BY <1>2, UpToCardinality
<1>10. ExistsBijection(1 .. z, ids) BY <1>8 DEF ExistsBijection
<1> HIDE DEF f, ids, z
<1>11. Cardinality(ids) = z BY <1>9, <1>10, FS_Bijection
<1> QED BY <1>11 DEF ids, z

\* (retriever.py:322-333, merger.py:17) What is left out of a merge is no better than top_k
\* other results, and unless a merge by similarity is asked the same knowledge base twice, no
\* chunk takes two of the places.
THEOREM LeftOutIsOutrankedHolds == RetrievalSpec => []LeftOutIsOutranked
<1>1. RetrievalInv => LeftOutIsOutranked
  <2> SUFFICES ASSUME RetrievalInv PROVE LeftOutIsOutranked OBVIOUS
  <2> DEFINE ids == {r.id : r \in ToSet(merged)}
  <2>1. ASSUME asking \notin {"new", "query"}, NEW r \in Found, r.id \notin ids
        PROVE  Len(merged) = TopK /\ (request.mode = "similarity" => \A m \in ToSet(merged) : m.score >= r.score)
    BY <2>1, LeftOut
  <2>2. ASSUME asking \notin {"new", "query"}, request.mode = "hybrid" \/ Once
        PROVE  Cardinality(ids) = Len(merged)
    BY <2>2, MergedOnce
  <2> HIDE DEF ids
  <2>3. asking \notin {"new", "query"} =>
          /\ \A r \in Found : r.id \notin ids =>
               Len(merged) = TopK /\ (request.mode = "similarity" => \A m \in ToSet(merged) : m.score >= r.score)
          /\ request.mode = "hybrid" \/ Once => Cardinality(ids) = Len(merged)
    BY <2>1, <2>2
  <2> QED BY <2>3 DEF LeftOutIsOutranked, ids
<1> QED BY <1>1, RetrievalInvHolds, PTL

\* Where no knowledge base is named twice a result is fused by its one rank, and a worse
\* rank is worth less.
LEMMA FusedByRank ==
  ASSUME RetrievalInv, NEW k \in Nat, Lists(lists, k), DOMAIN request.kbs = 1 .. k, Once
  PROVE  /\ \A p \in Places(lists) : Fused(lists, At(lists, p).id) = Unit \div (RrfK + p[2])
         /\ \A p, q \in Places(lists) : LET a == Unit \div (RrfK + p[2])
                                           b == Unit \div (RrfK + q[2])
                                       IN (a > b => p[2] < q[2]) /\ (a = b => p[2] = q[2])
<1>1. \A p \in Places(lists) :
        /\ p[1] \in 1 .. k /\ p[2] \in DOMAIN lists[p[1]] /\ p = <<p[1], p[2]>>
        /\ p[2] \in 1 .. TopK /\ At(lists, p) = lists[p[1]][p[2]]
  BY ListPlaces
<1>2. DOMAIN lists = 1 .. k BY ListPlaces
<1>3. ASSUME NEW p \in Places(lists) PROVE Fused(lists, At(lists, p).id) = Unit \div (RrfK + p[2])
  <2>1. ASSUME NEW j \in 1 .. k, NEW x \in DOMAIN lists[j], lists[j][x].id = lists[p[1]][p[2]].id
        PROVE  j = p[1]
    <3>1. lists[j][x].id.kb = request.kbs[j] /\ lists[p[1]][p[2]].id.kb = request.kbs[p[1]]
      BY <1>1, <1>2 DEF RetrievalInv, Answers
    <3> QED BY <1>1, <2>1, <3>1 DEF Once, IsInjective
  <2>2. p[1] \in 1 .. k /\ p[2] \in DOMAIN lists[p[1]] BY <1>1
  <2>3. Fused(lists, lists[p[1]][p[2]].id) = Unit \div (RrfK + p[2]) BY <2>1, <2>2, FusedOnce
  <2> QED BY <1>1, <2>3
<1> DEFINE share(x) == Unit \div (RrfK + x)
<1>4. \A x \in 1 .. TopK : share(x) \in Int
  <2>1. \A u \in Nat : \A d \in Nat \ {0} : u \div d \in Int OBVIOUS
  <2>2. \A x \in 1 .. TopK : RrfK + x \in Nat \ {0} BY RetrievalBounds
  <2> QED BY <2>1, <2>2, RetrievalBounds
<1>5. \A x, y \in 1 .. TopK : x < y => share(x) > share(y) BY RetrievalBounds
<1> HIDE DEF share
<1>6. \A x, y \in 1 .. TopK : (share(x) > share(y) => x < y) /\ (share(x) = share(y) => x = y)
  <2> SUFFICES ASSUME NEW x \in 1 .. TopK, NEW y \in 1 .. TopK
               PROVE  (share(x) > share(y) => x < y) /\ (share(x) = share(y) => x = y)
    OBVIOUS
  <2>1. x < y \/ y < x \/ x = y OBVIOUS
  <2>2. (x < y => share(x) > share(y)) /\ (y < x => share(y) > share(x)) BY <1>5
  <2>3. share(x) \in Int /\ share(y) \in Int BY <1>4
  <2> QED BY <2>1, <2>2, <2>3
<1>7. ASSUME NEW p \in Places(lists), NEW q \in Places(lists)
      PROVE  (share(p[2]) > share(q[2]) => p[2] < q[2]) /\ (share(p[2]) = share(q[2]) => p[2] = q[2])
  BY <1>1, <1>6
<1> QED BY <1>3, <1>7 DEF share

\* A merged result is found at one place.
LEMMA PlaceIs ==
  ASSUME RetrievalInv, NEW k \in Nat, Lists(lists, k), DOMAIN request.kbs = 1 .. k, Once, NEW p \in Places(lists)
  PROVE  Place(At(lists, p).id) = <<p[2], p[1]>>
<1> DEFINE c == At(lists, p).id
           Q == {q \in (1 .. TopK) \X DOMAIN lists : q[1] \in DOMAIN lists[q[2]] /\ lists[q[2]][q[1]].id = c}
<1>1. /\ DOMAIN lists = 1 .. k
      /\ p[1] \in 1 .. k /\ p[2] \in DOMAIN lists[p[1]] /\ p[2] \in 1 .. TopK /\ At(lists, p) = lists[p[1]][p[2]]
      /\ \A i \in 1 .. k : \A r \in DOMAIN lists[i] : <<i, r>> \in Places(lists) /\ At(lists, <<i, r>>) = lists[i][r]
      /\ p = <<p[1], p[2]>>
  BY ListPlaces
<1>2. \A q \in Places(lists) : At(lists, q).id = c => q = p
  <2>1. TRUE \in BOOLEAN /\ MergedPlaces(lists, TRUE) = Places(lists) BY DEF MergedPlaces
  <2> QED BY <2>1, PlacesDiffer
<1>3. <<p[2], p[1]>> \in Q BY <1>1
<1>4. ASSUME NEW q \in Q PROVE q = <<p[2], p[1]>>
  <2>1. q = <<q[1], q[2]>> /\ q[2] \in 1 .. k /\ q[1] \in DOMAIN lists[q[2]] /\ lists[q[2]][q[1]].id = c BY <1>1
  <2>2. <<q[2], q[1]>> \in Places(lists) /\ At(lists, <<q[2], q[1]>>).id = c BY <1>1, <2>1
  <2>3. <<q[2], q[1]>> = p BY <1>2, <2>2
  <2>4. q[2] = p[1] /\ q[1] = p[2] BY <2>3
  <2> QED BY <2>1, <2>4
<1>5. Place(c) = CHOOSE q \in (1 .. TopK) \X DOMAIN lists : q \in Q BY DEF Place
<1> HIDE DEF Q, c
<1>6. <<p[2], p[1]>> \in (1 .. TopK) \X DOMAIN lists BY <1>1
<1>7. Place(c) \in Q BY <1>3, <1>5, <1>6
<1> QED BY <1>4, <1>7 DEF c

\* (merger.py:17) Fusing the lists of different knowledge bases takes them in turn: all first
\* places in the order of kb_ids, then all second ones.
THEOREM FusionTakesTurnsHolds == RetrievalSpec => []FusionTakesTurns
<1>1. RetrievalInv => FusionTakesTurns
  <2> SUFFICES ASSUME RetrievalInv, merged # <<>>, request.mode = "hybrid", Once, NEW i \in 1 .. Len(merged) - 1
               PROVE  LET p == Place(merged[i].id) q == Place(merged[i + 1].id)
                      IN p[1] < q[1] \/ (p[1] = q[1] /\ p[2] < q[2])
    BY DEF FusionTakesTurns
  <2>1. asking \notin {"new", "query"} BY DEF RetrievalInv
  <2>2. PICK k \in Nat, similar \in BOOLEAN :
          /\ Lists(lists, k) /\ DOMAIN request.kbs = 1 .. k
          /\ similar = (request.mode = "similarity")
          /\ BestOf(merged, Order(MergedScores(lists, similar)),
                    MergedPlaces(lists, similar), MergedScores(lists, similar), lists)
    BY <2>1, MergedApart
  <2>3. ~similar BY <2>2
  <2> DEFINE P == Firsts(lists)
             s == FusedScores(lists)
             o == Order(s)
             n == Cardinality(P)
  <2>4. MergedPlaces(lists, similar) = P /\ MergedScores(lists, similar) = s
    BY <2>3 DEF MergedPlaces, MergedScores
  <2>5. BestOf(merged, o, P, s, lists) BY <2>2, <2>4
  <2>6. \A p \in P : s[p] = Fused(lists, At(lists, p).id) BY DEF FusedScores
  <2> HIDE DEF P, s, o
  <2>7. /\ P \subseteq Places(lists) /\ \A j \in 1 .. n : o[j] \in P
        /\ \A a, b \in 1 .. n : a < b => s[o[a]] > s[o[b]] \/ (s[o[a]] = s[o[b]] /\ Earlier(o[a], o[b]))
        /\ Len(merged) \in Nat /\ \A j \in 1 .. Len(merged) : j \in 1 .. n /\ merged[j].id = At(lists, o[j]).id
    BY <2>5 DEF BestOf
  <2> HIDE DEF n
  <2>8. i \in 1 .. Len(merged) /\ i + 1 \in 1 .. Len(merged) /\ i < i + 1 BY <2>7
  <2> DEFINE p == o[i]
             q == o[i + 1]
  <2>9. /\ p \in P /\ q \in P /\ p \in Places(lists) /\ q \in Places(lists)
        /\ s[p] > s[q] \/ (s[p] = s[q] /\ Earlier(p, q))
        /\ merged[i].id = At(lists, p).id /\ merged[i + 1].id = At(lists, q).id
    BY <2>7, <2>8
  <2> HIDE DEF p, q
  <2>10. (s[p] > s[q] => p[2] < q[2]) /\ (s[p] = s[q] => p[2] = q[2])
    <3>1. s[p] = Unit \div (RrfK + p[2]) /\ s[q] = Unit \div (RrfK + q[2])
      BY <2>2, <2>6, <2>9, FusedByRank
    <3> DEFINE a == Unit \div (RrfK + p[2])
               b == Unit \div (RrfK + q[2])
    <3>2. (a > b => p[2] < q[2]) /\ (a = b => p[2] = q[2]) BY <2>2, <2>9, FusedByRank
    <3>3. s[p] = a /\ s[q] = b BY <3>1
    <3> HIDE DEF a, b
    <3> QED BY <3>2, <3>3
  <2>11. Place(merged[i].id) = <<p[2], p[1]>> /\ Place(merged[i + 1].id) = <<q[2], q[1]>>
    BY <2>2, <2>9, PlaceIs
  <2>12. p[2] < q[2] \/ (p[2] = q[2] /\ p[1] < q[1])
    <3>1. p[1] \in Nat /\ q[1] \in Nat /\ p[2] \in 1 .. TopK /\ q[2] \in 1 .. TopK BY <2>2, <2>9, ListPlaces
    <3>2. Earlier(p, q) /\ p[2] = q[2] => p[1] < q[1] BY <3>1 DEF Earlier
    <3> QED BY <2>9, <2>10, <3>2
  <2> QED BY <2>11, <2>12
<1> QED BY <1>1, RetrievalInvHolds, PTL
=============================================================================
