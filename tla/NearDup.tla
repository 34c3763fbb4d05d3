-------------------------------- MODULE NearDup --------------------------------
(***************************************************************************)
(* Duplicate detection (pipeline/steps/dedup) and the index it searches.      *)
(* Ingests run side by side; a detection with its verdict is one step, since   *)
(* DocSystem models what happens between the two.  A hash is the set of its    *)
(* one bits, a signature a function of positions, a score a percentage.       *)
(***************************************************************************)
EXTENDS Integers, FiniteSets

CONSTANTS
  Docs,
  Texts,      \* bound: file contents, records as in DedupSettings
  Created,    \* doc_created_at of each document; 0 for none
  NumBits, NumBands, IdenticalDistance, SimilarDistance,  \* SimHash
  RowsPerBand, LshBands, JaccardMin, TitleFloor,          \* MinHash, in equal positions
  SimilarScore, IdenticalScore, CompareAll                \* chunk comparison

Bits == 0 .. NumBits - 1
Positions == 0 .. RowsPerBand * LshBands - 1
\* title: what the fuzzy title index tells apart, and the rest; parts: the chunks.
\* The documents are finitely many.
ASSUME DedupSettings ==
  /\ IsFiniteSet(Docs)
  /\ NumBits \in Nat /\ NumBands \in Nat \ {0}
  /\ IdenticalDistance \in Nat /\ SimilarDistance \in Nat
  /\ \A t \in Texts : t.hash \subseteq Bits

VARIABLES
  text,     \* the file of each document, and what the last detection put in its row
  status,   \* "none", "running", "new" (after the verdict), "indexed", "failed", "outdated"
  bands, sigs,  \* rows of simhash_bands and minhash_bands; {} for none
  chunks,   \* parts in the vector store
  twinOf,   \* duplicate_of
  raced, lost  \* history: have two ingests overlapped?  has one failed or replaced a text?
dedupVars == <<text, status, bands, sigs, chunks, twinOf, raced, lost>>

-----------------------------------------------------------------------------
(* simhash.py *)

Differing(a, b) == (a \ b) \cup (b \ a)
Hamming(a, b) == Cardinality(Differing(a, b))

BandBits == NumBits \div NumBands
BandRange(i) == i * BandBits .. (i + 1) * BandBits - 1
\* Mutant: as many slices as fit below the top bit.
BandsShort(h) == {<<i, {b - i * BandBits : b \in h \cap BandRange(i)}>> : i \in 0 .. NumBands - 2}

Bands(h) == {<<i, {b - i * BandBits : b \in h \cap BandRange(i)}>> : i \in 0 .. NumBands - 1}

\* Mutant: a candidate must have the date that the verdict compares.
IndexedDated == {c \in Docs : status[c] = "indexed" /\ Created[c] # 0}

Indexed == {c \in Docs : status[c] = "indexed"}
\* find_simhash_candidates
Sharing(h) == {c \in Indexed : bands[c] \cap Bands(h) # {}}
Distance(d, c) == Hamming(text[d].hash, text[c].hash)
Close(d) == {c \in Sharing(text[d].hash) \ {d} : Distance(d, c) <= SimilarDistance}

-----------------------------------------------------------------------------
(* minhash.py *)

Same(s, t) == {p \in Positions : s[p] = t[p]}
LshMatch(s, t) == \E k \in 0 .. LshBands - 1 : RowsPerBand * k .. RowsPerBand * (k + 1) - 1 \subseteq Same(s, t)
Signed == {c \in Indexed : sigs[c] # {}}
Jaccard(d, c) == CHOOSE n \in 0 .. RowsPerBand * LshBands :
                   \A s \in sigs[c] : n = Cardinality(Same(text[d].sig, s))
Alike(d, c) == text[d].title[1] = text[c].title[1]
\* Candidates by signature or by title, of which those count that are close enough.
Passing(d) ==
  {c \in Signed \ {d} :
     \/ Jaccard(d, c) >= JaccardMin /\ (Alike(d, c) \/ \E s \in sigs[c] : LshMatch(text[d].sig, s))
     \/ Jaccard(d, c) >= TitleFloor /\ Alike(d, c)}

-----------------------------------------------------------------------------
(* chunk_compare.py: the share of the incoming chunks found in the candidate's, *)
(* scaled by the ratio of the counts; the count is the row's chunk_count.        *)

Count(c) == Cardinality(text[c].parts)
Least(m, n) == IF m < n THEN m ELSE n
ScoreAtLeast(d, c, percent) ==
  LET n == Count(d) m == Count(c) most == n + m - Least(n, m) IN
  /\ n > 0 /\ m > 0
  /\ 100 * Least(n, m) >= SimilarScore * most
  /\ 100 * Cardinality(text[d].parts \cap chunks[c]) * Least(n, m) >= percent * n * most

\* Neither is less like the incoming document than any other candidate.
Best(d, cands) ==
  {c \in cands : \A e \in cands \ {c}, p \in 1 .. 100 : ScoreAtLeast(d, e, p) => ScoreAtLeast(d, c, p)}

Finding(level, c) == [level |-> level, dup |-> c]
Compare(d, cands, first) ==
  {Finding(IF ScoreAtLeast(d, c, IdenticalScore) THEN "identical"
          ELSE IF ScoreAtLeast(d, c, SimilarScore) THEN "similar" ELSE "none", c) :
     c \in Best(d, IF CompareAll THEN cands ELSE {first})}

-----------------------------------------------------------------------------
(* verdict.py: what becomes of the rows, given the rows the detection wrote. *)

Newer(d, c) == Created[c] = 0 \/ Created[d] > Created[c]

Outdate(d, c) ==
  /\ status' = [status EXCEPT ![d] = "outdated"]
  /\ twinOf' = [twinOf EXCEPT ![d] = c]
  /\ UNCHANGED chunks

None(d, B, S) ==
  /\ status' = [status EXCEPT ![d] = "new"]
  /\ bands' = B /\ sigs' = S
  /\ UNCHANGED <<chunks, twinOf>>

TitleChanged(d, c, B, S) ==
  IF Newer(d, c)
  THEN /\ status' = [status EXCEPT ![c] = "outdated", ![d] = "indexed"]
       /\ chunks' = [chunks EXCEPT ![d] = @ \cup chunks[c], ![c] = {}]
       /\ twinOf' = [twinOf EXCEPT ![c] = d]
       /\ bands' = [B EXCEPT ![c] = {}] /\ sigs' = [S EXCEPT ![c] = {}]
  ELSE Outdate(d, c) /\ bands' = B /\ sigs' = S

Identical(d, c, B, S) ==
  \/ /\ text[d].title = text[c].title
     /\ Outdate(d, c) /\ bands' = B /\ sigs' = S
  \/ text[d].title # text[c].title /\ TitleChanged(d, c, B, S)

\* Mutant: both rows are retired.
SimilarTakesBoth(d, c, B, S) ==
  /\ status' = [status EXCEPT ![c] = "outdated", ![d] = "outdated"]
  /\ chunks' = [chunks EXCEPT ![c] = {}]
  /\ twinOf' = [twinOf EXCEPT ![c] = d, ![d] = c]
  /\ bands' = [B EXCEPT ![c] = {}] /\ sigs' = [S EXCEPT ![c] = {}]

Similar(d, c, B, S) ==
  \/ /\ Newer(d, c)
     /\ status' = [status EXCEPT ![c] = "outdated", ![d] = "new"]
     /\ chunks' = [chunks EXCEPT ![c] = {}]
     /\ twinOf' = [twinOf EXCEPT ![c] = d]
     /\ bands' = [B EXCEPT ![c] = {}] /\ sigs' = [S EXCEPT ![c] = {}]
  \/ /\ ~Newer(d, c)
     /\ Outdate(d, c)
     /\ bands' = [B EXCEPT ![d] = {}] /\ sigs' = [S EXCEPT ![d] = {}]

Verdict(d, r, B, S) ==
  \/ r.level = "none" /\ None(d, B, S)
  \/ r.level = "identical" /\ Identical(d, r.dup, B, S)
  \/ r.level = "similar" /\ Similar(d, r.dup, B, S)

-----------------------------------------------------------------------------
(* run_dedup_pipeline *)

Nearest(d, cands) == {c \in cands : \A e \in cands : Distance(d, c) <= Distance(d, e)}

\* SimHash has found a candidate: nothing is added to the index.
DetectClose(d) ==
  /\ status[d] = "running"
  /\ \E c \in Nearest(d, Close(d)) :
       IF Distance(d, c) <= IdenticalDistance
       THEN Verdict(d, Finding("identical", c), bands, sigs)
       ELSE \E r \in Compare(d, Close(d), c) : Verdict(d, r, bands, sigs)
  /\ UNCHANGED <<text, raced, lost>>

\* SimHash has found none: both detectors add the document to their index.
DetectOther(d) ==
  LET B == [bands EXCEPT ![d] = Bands(text[d].hash)]
      S == [sigs EXCEPT ![d] = {text[d].sig}]
      first == {c \in Passing(d) : \A e \in Passing(d) : Jaccard(d, e) <= Jaccard(d, c)}
  IN /\ status[d] = "running" /\ Close(d) = {}
     /\ \/ Passing(d) = {} /\ None(d, B, S)
        \/ \E c \in first : \E r \in Compare(d, Passing(d), c) : Verdict(d, r, B, S)
     /\ UNCHANGED <<text, raced, lost>>

Busy == {d \in Docs : status[d] \in {"running", "new"}}
\* Upload or reindex of a document at rest.
Ingest(d, t) ==
  /\ d \notin Busy
  /\ status' = [status EXCEPT ![d] = "running"]
  /\ text' = [text EXCEPT ![d] = t]
  /\ raced' = (raced \/ Busy # {})
  /\ lost' = (lost \/ (text[d] # t /\ status[d] = "indexed"))
  /\ UNCHANGED <<bands, sigs, chunks, twinOf>>

Embed(d) ==
  /\ status[d] = "new"
  /\ status' = [status EXCEPT ![d] = "indexed"]
  /\ chunks' = [chunks EXCEPT ![d] = text[d].parts]
  /\ UNCHANGED <<text, bands, sigs, twinOf, raced, lost>>

\* A failure (of parsing, or of embedding after the verdict) purges the document.
FailIngest(d) ==
  /\ d \in Busy
  /\ status' = [status EXCEPT ![d] = "failed"]
  /\ chunks' = [chunks EXCEPT ![d] = {}]
  /\ bands' = [bands EXCEPT ![d] = {}] /\ sigs' = [sigs EXCEPT ![d] = {}]
  /\ lost' = TRUE
  /\ UNCHANGED <<text, twinOf, raced>>

DedupNext == \E d \in Docs :
  \/ \E t \in Texts : Ingest(d, t)
  \/ DetectClose(d) \/ DetectOther(d) \/ Embed(d) \/ FailIngest(d)

DedupInit ==
  /\ text \in {[d \in Docs |-> t] : t \in Texts}
  /\ status = [d \in Docs |-> "none"]
  /\ bands = [d \in Docs |-> {}] /\ sigs = [d \in Docs |-> {}]
  /\ chunks = [d \in Docs |-> {}] /\ twinOf = [d \in Docs |-> d]
  /\ raced = FALSE /\ lost = FALSE

-----------------------------------------------------------------------------
Banded(d) == bands[d] = Bands(text[d].hash)

\* Splitting hashes into bands (simhash.py:65) misses no indexed document whose
\* hash differs in fewer bits than there are bands, if its bands are those of
\* its hash.  (The default threshold of 10 with 4 bands is beyond that.)
CloseShareBand ==
  \A d \in Docs, c \in Indexed :
    Banded(c) /\ Distance(d, c) < NumBands => c \in Sharing(text[d].hash)

\* Two indexed documents of one text: one of them is not in the SimHash index
\* under its hash, or they were ingested at the same time (known-issues.md:213).
TwinsLeftIndex ==
  \A d, c \in Docs :
    d # c /\ status[d] = "indexed" /\ status[c] = "indexed" /\ text[d] = text[c]
      => ~Banded(d) \/ ~Banded(c) \/ raced

\* Retiring documents in favour of one another never leaves a text without a
\* document: from an outdated one, duplicate_of leads to one that is indexed or
\* in work, unless an ingest failed or put another text in the place of one.
RetiredForLiving ==
  ~lost => \A d \in Docs :
    status[d] = "outdated" =>
      LET next[n \in 0 .. Cardinality(Docs)] ==
            [e \in Docs |-> IF n = 0 \/ status[e] # "outdated" THEN e ELSE next[n - 1][twinOf[e]]]
      IN status[next[Cardinality(Docs)][d]] \in {"indexed", "new", "running"}

\* design/dedup.md:207: the SimHash of every existing document is in
\* simhash_bands, so that later documents are compared with it.
IndexedIsBanded == \A d \in Indexed : Banded(d)
=============================================================================
