---------------------------- MODULE FetchLadder ----------------------------
(***************************************************************************)
(* Page fetches of one question: fetch_page (bot/scrapers/fetch.py) and    *)
(* the registry of claimed URLs with its page cache                        *)
(* (bot/scrapers/crawler/crawl.py).                                        *)
(*                                                                         *)
(* The first fetch of a canonical URL claims it and climbs the ladder: the *)
(* site adapter, Firecrawl, Crawl4AI, a Firecrawl render, the Wayback      *)
(* snapshot, and then the longest thin text that any of them returned.     *)
(* Every text goes into the cache, and every later fetch of the URL is     *)
(* served from there, or not at all.  Fetches interleave at every rung.    *)
(*                                                                         *)
(* What a rung returns is a size: 0 is nothing, Full is adequate, and      *)
(* between them the text is thin.  FirecrawlBudget models a Firecrawl rung *)
(* from within; here it returns anything.                                  *)
(***************************************************************************)
EXTENDS Integers, FiniteSets

CONSTANTS
    Fetches,            \* calls of fetch_page
    Urls,
    Key,                \* canonical_scrape_url: a URL's key
    HasAdapter,         \* URLs that a site adapter reads
    Full                \* the size of adequate text

ASSUME UrlsAssumption == HasAdapter \subseteq Urls /\ DOMAIN Key = Urls
ASSUME FullAssumption == Full \in Nat \ {0}

Keys == {Key[u] : u \in Urls}
TextSizes == 0..Full
Thin(size) == size > 0 /\ size < Full
NoUrl == "no url"
NoPage == [url |-> NoUrl, size |-> 0]       \* a page is whose text, and how much

VARIABLES
    claimed,    \* _SCRAPED_URL_KEYS
    cache,      \* _SCRAPED_URL_CONTENT
    url,        \* what each fetch fetches
    place,         \* its next rung
    best,       \* its longest thin text so far
    seen,       \* the sizes its rungs returned
    result      \* the FetchedPage: which page, with a warning, and from where

ladderVars == <<claimed, cache, url, place, best, seen, result>>

Rungs == {"adapter", "firecrawl", "crawl", "render", "wayback", "thin"}
Climbing(f) == place[f] \in Rungs

NoResult == [page |-> NoPage, banner |-> FALSE, from |-> "none"]

-----------------------------------------------------------------------------
LadderInit ==
    /\ claimed = {}
    /\ cache = [k \in Keys |-> NoPage]
    /\ url = [f \in Fetches |-> NoUrl]
    /\ place = [f \in Fetches |-> "idle"]
    /\ best = [f \in Fetches |-> 0]
    /\ seen = [f \in Fetches |-> {}]
    /\ result = [f \in Fetches |-> NoResult]

Return(f, page, banner, from) ==
    /\ place' = [place EXCEPT ![f] = "done"]
    /\ result' = [result EXCEPT ![f] = [page |-> page, banner |-> banner, from |-> from]]

Page(f, size) == [url |-> url[f], size |-> size]

\* record_scrape_content: the last text that is not blank.
RecordText(f, size) ==
    cache' = IF size > 0 THEN [cache EXCEPT ![Key[url[f]]] = Page(f, size)] ELSE cache

\* Mutant: the URL is claimed once its page is there.
ClaimMutant(f, u) ==
    /\ place[f] = "idle" /\ cache[Key[u]] = NoPage
    /\ claimed' = claimed \cup {Key[u]}
    /\ url' = [url EXCEPT ![f] = u]
    /\ place' = [place EXCEPT ![f] = IF u \in HasAdapter THEN "adapter" ELSE "firecrawl"]
    /\ UNCHANGED <<cache, best, seen, result>>

\* claim_scrape_url: nobody else fetched this URL.
Claim(f, u) ==
    /\ place[f] = "idle" /\ Key[u] \notin claimed
    /\ claimed' = claimed \cup {Key[u]}
    /\ url' = [url EXCEPT ![f] = u]
    /\ place' = [place EXCEPT ![f] = IF u \in HasAdapter THEN "adapter" ELSE "firecrawl"]
    /\ UNCHANGED <<cache, best, seen, result>>

\* Mutant: what is in the cache passes for the page.
DuplicateMutant(f, u) ==
    /\ place[f] = "idle" /\ Key[u] \in claimed
    /\ url' = [url EXCEPT ![f] = u]
    /\ LET text == cache[Key[u]]
       IN  IF text.size > 0
           THEN Return(f, text, FALSE, "cache")
           ELSE Return(f, NoPage, FALSE, "duplicate")
    /\ UNCHANGED <<claimed, cache, best, seen>>

\* An earlier fetch of this run claimed the URL.
Duplicate(f, u) ==
    /\ place[f] = "idle" /\ Key[u] \in claimed
    /\ url' = [url EXCEPT ![f] = u]
    /\ LET text == cache[Key[u]]
       IN  IF text.size > 0
           THEN Return(f, text, Thin(text.size), "cache")
           ELSE Return(f, NoPage, FALSE, "duplicate")
    /\ UNCHANGED <<claimed, cache, best, seen>>

\* The adapter's text is kept however short it is.
Adapter(f, size) ==
    /\ place[f] = "adapter"
    /\ RecordText(f, size)
    /\ seen' = [seen EXCEPT ![f] = @ \cup {size}]
    /\ IF size > 0
       THEN Return(f, Page(f, size), FALSE, "adapter")
       ELSE place' = [place EXCEPT ![f] = "firecrawl"] /\ UNCHANGED result
    /\ UNCHANGED <<claimed, url, best>>

\* Mutants: the last thin text is kept, not the longest; all are kept.
LongerMutant(f, size) == IF size > 0 THEN size ELSE best[f]
LongerSumMutant(f, size) == best[f] + size

Longer(f, size) == IF size > best[f] THEN size ELSE best[f]

\* accept(): the page if this rung's text is adequate; else note it as thin.
TryRung(f, rung, size, next) ==
    /\ place[f] = rung
    /\ RecordText(f, size)
    /\ seen' = [seen EXCEPT ![f] = @ \cup {size}]
    /\ IF size = Full
       THEN Return(f, Page(f, size), FALSE, "ladder") /\ UNCHANGED best
       ELSE /\ best' = [best EXCEPT ![f] = Longer(f, size)]
            /\ place' = [place EXCEPT ![f] = next]
            /\ UNCHANGED result
    /\ UNCHANGED <<claimed, url>>

Firecrawl(f, size) == TryRung(f, "firecrawl", size, "crawl")

\* The render rung is for pages that came back thin.
Crawl(f, size) ==
    TryRung(f, "crawl", size, IF Longer(f, size) > 0 THEN "render" ELSE "wayback")

Render(f, size) == TryRung(f, "render", size, "wayback")

Wayback(f, size) == TryRung(f, "wayback", size, "thin")

\* Mutant: the best text is returned without being recorded again.
BestAttemptMutant(f) ==
    /\ place[f] = "thin"
    /\ cache' = cache
    /\ IF best[f] > 0
       THEN Return(f, Page(f, best[f]), TRUE, "ladder")
       ELSE Return(f, NoPage, FALSE, "failed")
    /\ UNCHANGED <<claimed, url, best, seen>>

\* Every rung came back thin, or empty.
BestAttempt(f) ==
    /\ place[f] = "thin"
    /\ RecordText(f, best[f])
    /\ IF best[f] > 0
       THEN Return(f, Page(f, best[f]), TRUE, "ladder")
       ELSE Return(f, NoPage, FALSE, "failed")
    /\ UNCHANGED <<claimed, url, best, seen>>

\* The task is cancelled, or a rung raises HardLimitExceededError.
Stop(f) ==
    /\ Climbing(f)
    /\ Return(f, NoPage, FALSE, "stopped")
    /\ UNCHANGED <<claimed, cache, url, best, seen>>

LadderDone ==
    /\ \A f \in Fetches : place[f] = "done"
    /\ UNCHANGED ladderVars

LadderNext ==
    \/ \E f \in Fetches :
          \/ \E u \in Urls : Claim(f, u) \/ Duplicate(f, u)
          \/ \E size \in TextSizes : \/ Adapter(f, size) \/ Firecrawl(f, size)
                                 \/ Crawl(f, size) \/ Render(f, size) \/ Wayback(f, size)
          \/ BestAttempt(f) \/ Stop(f)
    \/ LadderDone

LadderSpec == LadderInit /\ [][LadderNext]_ladderVars

-----------------------------------------------------------------------------
(* Properties.                                                             *)

Pages == [url : Urls \cup {NoUrl}, size : TextSizes]

LadderTypeOK ==
    /\ claimed \subseteq Keys
    /\ cache \in [Keys -> Pages]
    /\ url \in [Fetches -> Urls \cup {NoUrl}]
    /\ place \in [Fetches -> Rungs \cup {"idle", "done"}]
    /\ best \in [Fetches -> TextSizes]
    /\ seen \in [Fetches -> SUBSET TextSizes]
    /\ result \in [Fetches -> [page : Pages, banner : BOOLEAN,
                     from : {"none", "cache", "duplicate", "adapter", "ladder",
                             "failed", "stopped"}]]

Fetched(f) == result[f].from \in {"adapter", "ladder"}

\* A URL is fetched once: of all fetches of one key, however they interleave, end
\* or are cancelled, only one ever called a rung.
OneFetchPerKey ==
    \A f, g \in Fetches :
        f # g /\ seen[f] # {} /\ seen[g] # {} => Key[url[f]] # Key[url[g]]

\* A page that some fetch returned stays in the cache as it was returned, though
\* thinner texts of it were recorded on the way: no later fetch gets less.
FetchedPageIsCached ==
    \A f \in Fetches : Fetched(f) => cache[Key[url[f]]] = result[f].page

\* A fetch gives up on no text that a rung returned: what it returns is the longest
\* of them, whatever came after it, and only a fetch that saw nothing fails.
LongestTextIsReturned ==
    \A f \in Fetches :
        /\ Fetched(f) => \A size \in seen[f] : size <= result[f].page.size
        /\ result[f].from = "failed" => seen[f] \subseteq {0}

\* "The ABSENCE of a value here is NOT evidence": thin text is never passed on
\* without its warning, except an adapter's own answer.
ThinIsMarked ==
    \A f \in Fetches : result[f].from \in {"ladder", "cache"} =>
        result[f].banner = Thin(result[f].page.size)

\* "The same URL receives the already-fetched content": what the cache serves for
\* a URL is that URL's page.
CacheServesTheUrl ==
    \A f \in Fetches : result[f].from = "cache" => result[f].page.url = url[f]

\* What a fetch returns and leaves in the cache is the best that it saw, and says so.
BestPageIsServed == LadderTypeOK /\ FetchedPageIsCached /\ LongestTextIsReturned /\ ThinIsMarked
=============================================================================
