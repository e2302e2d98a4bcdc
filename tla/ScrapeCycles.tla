---------------------------- MODULE ScrapeCycles ----------------------------
(***************************************************************************)
(* research_from_hits: the results of one engine are listed, ranked into   *)
(* groups, and scraped and extracted in cycles, until nothing is lacking.  *)
(* A group is [group |-> its name, urls |-> its pages, best first].        *)
(***************************************************************************)
EXTENDS Naturals, Sequences, SequencesExt, FiniteSets, Listings

CONSTANTS Urls,        \* canonical links
          Rankings,    \* what the ranking model may answer
          MaxRanked,   \* DEFAULT_MAX_RANKED_URLS
          MaxCycles,   \* max_scrape_cycles
          MinTargets   \* _MIN_CYCLE_TARGETS

ASSUME RankingsAssumption ==
  /\ \A r \in Rankings : r \in Seq([group : {r[i].group : i \in DOMAIN r}, urls : Seq(Urls)])
  /\ MaxCycles \in Nat /\ MinTargets \in Nat

VARIABLES
  step,      \* hits, rank, cycle, scrape, extract, again; or how it ended
  retry,     \* the focused artifact retry, for which old pages are dropped
  old,       \* pages the run had attempted before a retry
  groups,    \* the ranked groups after the dedupe
  needed,    \* the groups that still lack evidence
  nextIndex, \* per group NAME
  batch,     \* the targets of the current cycle
  cycles     \* the validated cycles: [targets, ok, delta, lack]

scrapeVars == <<step, retry, old, groups, needed, nextIndex, batch, cycles>>

Names == UNION {{r[i].group : i \in DOMAIN r} : r \in Rankings}
NamesOf(gs) == {gs[i].group : i \in DOMAIN gs}
Finished == {"text", "poor", "limit"}
Smaller(a, b) == IF a <= b THEN a ELSE b

(***************************************************************************)
(* _dedupe_ranked_url_groups: the first mention of a page counts, capped.  *)
(***************************************************************************)
\* Where pages are mentioned: the group and the place in it.
Mentions(ranking) == UNION {{i} \X DOMAIN ranking[i].urls : i \in DOMAIN ranking}
Before(p, q) == p[1] < q[1] \/ (p[1] = q[1] /\ p[2] < q[2])

Dedupe(ranking, excluded) ==
  LET page(p) == ranking[p[1]].urls[p[2]]
      first == {p \in Mentions(ranking) :
                  /\ page(p) \notin excluded
                  /\ \A q \in Mentions(ranking) : Before(q, p) => page(q) # page(p)}
      kept == {p \in first :
                 Cardinality({q \in first : q = p \/ Before(q, p)}) <= MaxRanked}
      of(i) == Ascending({k \in DOMAIN ranking[i].urls : <<i, k>> \in kept})
      left == Ascending({i \in DOMAIN ranking : of(i) # <<>>})
  IN [n \in DOMAIN left |->
        [group |-> ranking[left[n]].group,
         urls |-> [k \in DOMAIN of(left[n]) |-> page(<<left[n], of(left[n])[k]>>)]]]

(***************************************************************************)
(* _cycle_targets: one page for every group in need, then more of them     *)
(* until the cycle has its minimum.                                        *)
(***************************************************************************)
Left(acc, g) == IF g.group \notin needed THEN 0
                ELSE IF acc.next[g.group] >= Len(g.urls) THEN 0
                ELSE Len(g.urls) - acc.next[g.group]
\* As if the pages taken were not counted.
TakeAgain(acc, g, n) ==
  [targets |-> acc.targets \o SubSeq(g.urls, 1, Smaller(n, Left(acc, g))),
   next |-> acc.next]

Take(acc, g, n) ==
  LET from == acc.next[g.group]
      m == Smaller(n, Left(acc, g))
  IN [targets |-> acc.targets \o SubSeq(g.urls, from + 1, from + m),
      next |-> [acc.next EXCEPT ![g.group] = @ + m]]
Missing(acc) == IF Len(acc.targets) >= MinTargets THEN 0
                ELSE MinTargets - Len(acc.targets)

OneEach[i \in 0..Len(groups)] ==
  IF i = 0 THEN [targets |-> <<>>, next |-> nextIndex]
  ELSE Take(OneEach[i - 1], groups[i], 1)
Filled[i \in 0..Len(groups)] ==
  IF i = 0 THEN OneEach[Len(groups)]
  ELSE LET acc == Filled[i - 1] IN Take(acc, groups[i], Missing(acc))
CycleTargets == Filled[Len(groups)]

(***************************************************************************)
(* The steps.                                                              *)
(***************************************************************************)
ScrapeInit ==
  /\ step = "hits" /\ retry = FALSE /\ old = {}
  /\ groups = <<>> /\ needed = {} /\ batch = <<>> /\ cycles = <<>>
  /\ nextIndex = [n \in Names |-> 0]

\* For the main pass, or for the retry with whatever was attempted before.
ListCandidates ==
  /\ step = "hits" /\ step' = "rank"
  /\ retry' \in BOOLEAN
  /\ old' \in IF retry' THEN SUBSET Urls ELSE {{}}
  /\ UNCHANGED <<groups, needed, nextIndex, batch, cycles>>

Excluded == IF retry THEN old ELSE {}

\* A failed call or an answer that is no ranking raises; results that are all
\* social pages are not ranked at all, and leave no group.
RankHits ==
  /\ step = "rank"
  /\ \/ \E r \in Rankings \cup {<<>>} :
          /\ groups' = Dedupe(r, Excluded)
          /\ needed' = NamesOf(groups')
          /\ step' = "cycle"
     \/ step' \in {"poor", "limit"} /\ UNCHANGED <<groups, needed>>
  /\ UNCHANGED <<retry, old, nextIndex, batch, cycles>>

\* The input reserve may be spent at any cycle.
StopCycling ==
  /\ step = "cycle" /\ step' = "text"
  /\ UNCHANGED <<retry, old, groups, needed, nextIndex, batch, cycles>>

\* As if a late cycle with one page were not worth an extract call.
CanCycleThick == /\ needed # {} /\ Len(cycles) < MaxCycles
                 /\ Len(CycleTargets.targets) > IF cycles = <<>> THEN 0 ELSE 1

CanCycle == /\ needed # {} /\ Len(cycles) < MaxCycles
            /\ CycleTargets.targets # <<>>

BeginCycle ==
  /\ step = "cycle" /\ CanCycle
  /\ batch' = CycleTargets.targets
  /\ nextIndex' = CycleTargets.next
  /\ step' = "extract"
  /\ UNCHANGED <<retry, old, groups, needed, cycles>>

\* Some pages could be read, two at a time; the extractor saw them, answered
\* with new findings or none, and named what is lacking (other names are
\* dropped; an answer without the list lacks nothing).
Validated(ok, delta, lack) ==
  Append(cycles, [targets |-> ToSet(batch), ok |-> ok, delta |-> delta, lack |-> lack])

ExtractSucceeds ==
  /\ step \in {"extract", "again"}
  /\ \E ok \in SUBSET ToSet(batch), delta \in BOOLEAN, lack \in SUBSET NamesOf(groups) :
       /\ cycles' = Validated(ok, delta, lack)
       /\ needed' = lack
  /\ step' = "cycle"
  /\ UNCHANGED <<retry, old, groups, nextIndex, batch>>

\* As if the last cycle's own findings were judged.
LastIsSalvageable ==
  /\ cycles # <<>> /\ Last(cycles).delta
  /\ Last(cycles).lack # NamesOf(groups)

\* The floor for keeping what there is: something found, some group filled.
Salvageable ==
  /\ \E i \in DOMAIN cycles : cycles[i].delta
  /\ Last(cycles).lack # NamesOf(groups)

\* As if every failure were answered with one more request.
ExtractRetried ==
  /\ \/ step = "extract" /\ step' = "again"
     \/ step = "again" /\ step' = "extract"
  /\ UNCHANGED <<retry, old, groups, needed, nextIndex, batch, cycles>>

ExtractFails ==
  /\ \/ step = "extract" /\ step' = "again"
     \/ step = "again" /\ step' = IF Salvageable THEN "text" ELSE "poor"
     \/ step \in {"extract", "again"} /\ step' = "limit"
  /\ UNCHANGED <<retry, old, groups, needed, nextIndex, batch, cycles>>

ScrapeNext == \/ ListCandidates \/ RankHits \/ StopCycling \/ BeginCycle
              \/ ExtractSucceeds \/ ExtractFails
ScrapeFairness == WF_scrapeVars(ScrapeNext /\ step # "hits")
ScrapeSpec == ScrapeInit /\ [][ScrapeNext]_scrapeVars /\ ScrapeFairness

(***************************************************************************)
(* The section of the results: a snippet is left out when its page was ok  *)
(* in a cycle that was kept.                                               *)
(***************************************************************************)
\* As if a page that could not be read counted.
SnippetsOfUnfetched == Urls \ (UNION {cycles[i].targets : i \in DOMAIN cycles})

ScrapedOk == UNION {cycles[i].ok : i \in DOMAIN cycles}
Snippets == Urls \ ScrapedOk

(***************************************************************************)
(* Properties.                                                             *)
(***************************************************************************)
Fetched == (UNION {cycles[i].targets : i \in DOMAIN cycles}) \cup ToSet(batch)

\* What the pipeline assumes of research_from_hits: the listing comes first, then
\* pages, and the work ends, once and for good (SearchSection).
Section == INSTANCE SearchSection WITH
  Pages <- Urls, read <- Fetched,
  stage <- CASE step = "hits" -> "asked"
             [] step \in Finished -> step
             [] OTHER -> "listed"
IsOnePass == Section!Spec

\* No hit is lost on the way: a usable section shows its snippet, or its page
\* went through an extraction that was kept (SNIPPET_OMITTED_NOTE).
NoHitIsLost ==
  step = "text" =>
    \A u \in Urls : \/ u \in Snippets
                    \/ \E i \in DOMAIN cycles : u \in cycles[i].ok

\* No page is fetched in two cycles, whatever the groups share, and a retry
\* fetches none that the run had tried: it cannot close the gap the retry is for.
PagesAreNew ==
  /\ retry => Fetched \cap old = {}
  /\ \A i, j \in DOMAIN cycles : i < j => cycles[i].targets \cap cycles[j].targets = {}

\* Findings of a kept cycle are not thrown away for a later malformed answer,
\* unless the last answer still lacked every group.
FindingsAreKept ==
  step = "poor" /\ cycles # <<>> =>
    \/ \A i \in DOMAIN cycles : ~cycles[i].delta
    \/ Last(cycles).lack = NamesOf(groups)

\* Groups of one name share one index: of the later one, pages are passed over
\* that nobody read (a group without a name is called "Research purpose").
OwnName(i) == \A j \in DOMAIN groups : groups[j].group = groups[i].group => j = i

\* While a group lacks evidence, cycles are left and a ranked page of it was
\* never fetched, another cycle is possible: the last page is not discarded
\* (the note at _MIN_CYCLE_TARGETS).
LackingPagesAreRead ==
  step = "cycle" /\ Len(cycles) < MaxCycles =>
    \A i \in DOMAIN groups :
      /\ OwnName(i) /\ groups[i].group \in needed
      /\ ~(ToSet(groups[i].urls) \subseteq Fetched)
      => CanCycle

\* Reading in cycles loses nothing and repeats nothing.
CyclesKeepWhatTheyRead == NoHitIsLost /\ PagesAreNew /\ FindingsAreKept /\ LackingPagesAreRead
=============================================================================
