-------------------------------- MODULE WebCrawl --------------------------------
(***************************************************************************)
(* What connectors/web.py visits in one sync: the breadth-first search of    *)
(* WebConnector.sync.  ConnectorSync models what a visited page does to the  *)
(* documents; here a page is only fetched.                                   *)
(***************************************************************************)
EXTENDS Integers, Sequences, FiniteSets, SequencesExt

CONSTANTS
  Urls,      \* normalized URLs
  Seeds,     \* the connector's seed_urls, as configured: a sequence
  Sites      \* bound: the websites and crawl limits, records as in SiteOK

\* A page has finitely many links.
ASSUME SiteOK ==
  /\ Seeds \in Seq(Urls)
  /\ \A s \in Sites, u \in Urls : IsFiniteSet(s.links[u])
  /\ Sites \subseteq [links : [Urls -> SUBSET Urls], scope : SUBSET Urls, broken : SUBSET Urls,
                      depth : Nat, maxPages : Nat, maxQueue : Nat]

VARIABLES
  site,      \* the website and the limits of this crawl
  frontier,  \* the queue of pages with their depths; <<>> and idle before the sync
  queued, visited,
  fetched,   \* the pages processed, in order, with their depths
  refused,   \* history: was a link not queued because the queue was full?
  crawling   \* "new", "on", "done", "aborted"

crawlVars == <<site, frontier, queued, visited, fetched, refused, crawling>>

Page(u, d) == [url |-> u, depth |-> d]

StartCrawl ==
  /\ crawling = "new"
  /\ frontier' = [i \in DOMAIN Seeds |-> Page(Seeds[i], 0)]
  /\ queued' = ToSet(Seeds)
  /\ crawling' = "on"
  /\ UNCHANGED <<site, visited, fetched, refused>>

More == crawling = "on" /\ frontier # <<>> /\ Len(fetched) < site.maxPages

\* New links go to the end of the queue, in some order, as long as there is room;
\* a link that is queued already, or that finds the queue full, is dropped.
Discover(rest, links, d) ==
  LET new   == SetToSeq(links \ queued)
      room  == IF Len(rest) < site.maxQueue THEN site.maxQueue - Len(rest) ELSE 0
      taken == SubSeq(new, 1, IF Len(new) < room THEN Len(new) ELSE room)
  IN [list |-> rest \o [i \in DOMAIN taken |-> Page(taken[i], d)],
      seen |-> queued \cup ToSet(taken),
      full |-> refused \/ room < Len(new)]

\* Mutant: the last page at the limit still adds its links.
DeeperLinks(p) == IF p.url \in site.broken \/ p.depth > site.depth THEN {} ELSE site.links[p.url]

\* A page that could not be fetched or is no HTML, or at the depth limit, has none.
LinksOf(p) == IF p.url \in site.broken \/ p.depth >= site.depth THEN {} ELSE site.links[p.url]

\* Mutant: links are marked visited when they are queued.
VisitMarksLinks ==
  LET p == Head(frontier) q == Discover(Tail(frontier), LinksOf(p), p.depth + 1) IN
  /\ More /\ p.url \notin visited /\ p.url \in site.scope
  /\ visited' = visited \cup q.seen
  /\ fetched' = Append(fetched, p)
  /\ frontier' = q.list /\ queued' = q.seen /\ refused' = q.full
  /\ UNCHANGED <<site, crawling>>

Visit ==
  LET p == Head(frontier) q == Discover(Tail(frontier), LinksOf(p), p.depth + 1) IN
  /\ More /\ p.url \notin visited /\ p.url \in site.scope
  /\ visited' = visited \cup {p.url}
  /\ fetched' = Append(fetched, p)
  /\ frontier' = q.list /\ queued' = q.seen /\ refused' = q.full
  /\ UNCHANGED <<site, crawling>>

\* A second copy of a seed, and a page out of scope or excluded, cost no fetch.
Skip ==
  LET u == Head(frontier).url IN
  /\ More /\ (u \in visited \/ u \notin site.scope)
  /\ visited' = visited \cup {u}
  /\ frontier' = Tail(frontier)
  /\ UNCHANGED <<site, queued, fetched, refused, crawling>>

\* is_abort_requested, before each page.
AbortCrawl == More /\ crawling' = "aborted" /\ UNCHANGED <<site, frontier, queued, visited, fetched, refused>>
EndCrawl ==
  /\ crawling = "on" /\ ~More
  /\ crawling' = "done"
  /\ UNCHANGED <<site, frontier, queued, visited, fetched, refused>>

CrawlNext == StartCrawl \/ Visit \/ Skip \/ AbortCrawl \/ EndCrawl

CrawlInit ==
  /\ site \in Sites
  /\ frontier = <<>> /\ queued = {} /\ visited = {} /\ fetched = <<>>
  /\ refused = FALSE /\ crawling = "new"

-----------------------------------------------------------------------------
(* The reference: distances from the seeds along fetched pages. *)

\* What the pages us link to, as far as they could be fetched.
LinkedFrom(us) == UNION {site.links[u] : u \in us \ site.broken}

Within == LET near[d \in 0 .. site.depth] ==
                IF d = 0 THEN ToSet(Seeds) \cap site.scope
                ELSE near[d - 1] \cup (LinkedFrom(near[d - 1]) \cap site.scope)
          IN near

\* No page is fetched twice, however often it is linked or configured, and a page
\* is fetched at its distance from the seeds although links are taken in page
\* order (web.py:194-252), unless a full queue has refused a link.
FetchedOnceAtDistance ==
  /\ IsInjective([i \in DOMAIN fetched |-> fetched[i].url])
  /\ \A i \in DOMAIN fetched :
       LET p == fetched[i] IN
         /\ p.depth <= site.depth /\ p.url \in Within[p.depth]
         /\ ~refused /\ p.depth > 0 => p.url \notin Within[p.depth - 1]

\* A crawl that was not aborted and did not meet a limit has fetched every page
\* in scope within the depth; one that met max_pages has used it up.
CrawlComplete ==
  crawling = "done" =>
    \/ {fetched[i].url : i \in DOMAIN fetched} = Within[site.depth]
    \/ refused
    \/ Len(fetched) = site.maxPages

=============================================================================
