-------------------------- MODULE ResolutionScrape --------------------------
(***************************************************************************)
(* scrape_resolution_sources: the pages a question resolves off are        *)
(* fetched with first claim on the Firecrawl credits, summarised in        *)
(* batches and announced, while a task reads the archive's history of the  *)
(* first of them.  A text is its length; a source is criteria or           *)
(* background, which decides how much of it is kept.                       *)
(***************************************************************************)
EXTENDS Integers, Sequences, SequencesExt, FiniteSets, Listings

CONSTANTS SourceLists,    \* the sources a question names: sequences of tiers
          PageLengths,  \* what a page may hold, 0 for a failed or empty one
          MaxInput,     \* _LLM_MAX_INPUT
          KeptOf,       \* per tier: how much of a page is kept
          Header,       \* what "## Source: url" takes in a prompt
          Overhead,     \* what a batch allows for it
          MaxCalls      \* _MAX_SUMMARY_CALLS

ASSUME ResolutionAssumption ==
  /\ SourceLists \subseteq Seq(DOMAIN KeptOf) /\ \A t \in DOMAIN KeptOf : KeptOf[t] \in Nat
  /\ PageLengths \subseteq Nat /\ MaxInput \in Nat \ {0} /\ MaxCalls \in Nat \ {0}
  /\ Header \in Nat /\ Overhead \in Nat /\ Header <= Overhead

VARIABLES
  rs,        \* start, scraping, series, summary, join; or how it ended
  cleaning,  \* use_llm_cleaning
  tiers,     \* the sources, the criteria's first
  sources,   \* their usable texts: [url, len]
  history,   \* the archive task: off, runs, done, limit, cancelled
  reserved,  \* the claim on the credits is held
  batchNo,   \* summaries made
  announced  \* what on_summary was called with

scrapVars == <<rs, cleaning, tiers, sources, history, reserved, batchNo, announced>>

ScrapEnds == {"done", "raised", "cancelled"}
Least(a, b) == IF a <= b THEN a ELSE b

ResolutionInit ==
  /\ rs = "start" /\ cleaning = FALSE /\ tiers = <<>> /\ sources = <<>>
  /\ history = "off" /\ reserved = TRUE /\ batchNo = 0 /\ announced = <<>>

\* As if the task were left to itself.
LeaveAlone(how) == rs' = how /\ history' = history

\* Whichever way the scrape is left, a history still being read is cancelled.
Leave(how) == rs' = how /\ history' = IF history = "runs" THEN "cancelled" ELSE history

FindUrls ==
  /\ rs = "start"
  /\ \E q \in SourceLists, llm \in BOOLEAN :
       /\ tiers' = q /\ cleaning' = llm
       /\ IF q = <<>> THEN rs' = "done" /\ reserved' = FALSE /\ UNCHANGED history
          ELSE /\ rs' = "scraping" /\ reserved' = TRUE
               /\ history' = IF llm THEN "runs" ELSE "off"
  /\ UNCHANGED <<sources, batchNo, announced>>

\* Captures or none, stamps or none: soft, but for the limit.
HistoryEnds ==
  /\ history = "runs" /\ history' \in {"done", "limit"}
  /\ UNCHANGED <<rs, cleaning, tiers, sources, reserved, batchNo, announced>>

\* As if the claim were given back after the pages, not whatever they came to.
ReleaseAfterSuccess == reserved' = (rs' # "series")

\* The finally of the fetches.
Release == reserved' = FALSE

ScrapePages ==
  /\ rs = "scraping"
  /\ \/ \E len \in [DOMAIN tiers -> PageLengths] :
          LET kept(i) == [url |-> i, len |-> Least(len[i], KeptOf[tiers[i]])]
              usable == Ascending({i \in DOMAIN tiers : kept(i).len > 0})
          IN sources' = [n \in DOMAIN usable |-> kept(usable[n])]
        /\ rs' = "series" /\ UNCHANGED history
     \/ Leave("raised") /\ UNCHANGED sources
  /\ Release
  /\ UNCHANGED <<cleaning, tiers, batchNo, announced>>

Announce(text) == announced' = Append(announced, text)

\* The measured series and the embedded tables are extra and never fail.
SeriesAndTables ==
  /\ rs = "series"
  /\ IF cleaning /\ sources # <<>> THEN rs' = "summary" /\ UNCHANGED announced
     ELSE rs' = "join" /\ Announce("none")
  /\ UNCHANGED <<cleaning, tiers, sources, history, reserved, batchNo>>

(***************************************************************************)
(* _batch_resolution_sources: a source longer than one input in parts, and *)
(* as many parts to a batch as fit.                                        *)
(***************************************************************************)
SourceParts(s) == [k \in 1..((s.len + MaxInput - 1) \div MaxInput) |->
                     [url |-> s.url, len |-> Least(MaxInput, s.len - (k - 1) * MaxInput)]]

Pieces == FlattenSeq([i \in DOMAIN sources |-> SourceParts(sources[i])])

\* What a batch takes with n more for every piece.
Extent(batch, n) == SumFunction([k \in DOMAIN batch |-> batch[k].len + n])

\* To the last batch if it still fits one input, or to a batch of its own.
AddPiece(bs, p) ==
  IF bs # <<>> /\ Extent(Append(Last(bs), p), Overhead) <= MaxInput
  THEN [bs EXCEPT ![Len(bs)] = Append(@, p)] ELSE Append(bs, <<p>>)

Batches ==
  LET upTo[n \in 0..Len(Pieces)] == IF n = 0 THEN <<>> ELSE AddPiece(upTo[n - 1], Pieces[n])
  IN upTo[Len(Pieces)]

\* As if every batch were summarised.
SummarisedAll == Batches

Summarised == SubSeq(Batches, 1, Least(MaxCalls, Len(Batches)))

\* As if the note were written after the list was cut.
OmittedAfterCut == {}

\* The sources the note under the summary names.
Omitted == {p.url : p \in UNION {ToSet(Batches[i]) : i \in (MaxCalls + 1)..Len(Batches)}}

\* The parts a prompt holds whole: it takes MaxInput of the batch with its headers.
ReadWhole(batch) == {k \in DOMAIN batch : Extent(SubSeq(batch, 1, k), Header) <= MaxInput}

\* One call per batch; a failure of any gives the cleaned texts themselves.
Summarise ==
  /\ rs = "summary"
  /\ \/ /\ batchNo' = batchNo + 1
        /\ IF batchNo' < Len(Summarised) THEN UNCHANGED <<rs, announced>>
           ELSE rs' = "join" /\ Announce("summary")
        /\ UNCHANGED history
     \/ rs' = "join" /\ Announce("none") /\ UNCHANGED <<history, batchNo>>
     \/ Leave("raised") /\ UNCHANGED <<announced, batchNo>>
  /\ UNCHANGED <<cleaning, tiers, sources, reserved>>

JoinHistory ==
  /\ rs = "join" /\ history # "runs"
  /\ Leave(IF history = "limit" THEN "raised" ELSE "done")
  /\ UNCHANGED <<cleaning, tiers, sources, reserved, batchNo, announced>>

CancelScrape ==
  /\ rs \notin ScrapEnds \cup {"start"} /\ Leave("cancelled") /\ Release
  /\ UNCHANGED <<cleaning, tiers, sources, batchNo, announced>>

ResolutionNext == \/ FindUrls \/ HistoryEnds \/ ScrapePages \/ SeriesAndTables
                  \/ Summarise \/ JoinHistory \/ CancelScrape
ResolutionSpec == ResolutionInit /\ [][ResolutionNext]_scrapVars

(***************************************************************************)
(* Properties.                                                             *)
(***************************************************************************)
\* The values the scrape's variables take.
ScrapTypeOK ==
  /\ rs \in ScrapEnds \cup {"start", "scraping", "series", "summary", "join"}
  /\ history \in {"off", "runs", "done", "limit", "cancelled"}
  /\ batchNo \in 0..MaxCalls

\* Once the pages are fetched, or given up in any way, the credits they had first
\* claim on are free for the research (release_resolution_reserve).
ReserveIsHandedOn == rs \notin {"start", "scraping"} => ~reserved

\* The history never outlives the scrape that started it, and a hard limit it met
\* is not lost with it.
HistoryIsJoined ==
  /\ rs \in ScrapEnds => history # "runs"
  /\ rs = "done" => history # "limit"

\* A usable source that leaves room for its header is in a summary as a whole,
\* or the note names it.
SourcesAreCovered ==
  announced = <<"summary">> =>
    \A s \in ToSet(sources) : s.len + Header <= MaxInput =>
      \/ s.url \in Omitted
      \/ \E i \in DOMAIN Summarised : \E k \in ReadWhole(Summarised[i]) :
           Summarised[i][k] = s

\* However the scrape of the resolution pages ends, what it held, started and left
\* out is accounted for.
ScrapeIsAccountedFor == ScrapTypeOK /\ ReserveIsHandedOn /\ HistoryIsJoined /\ SourcesAreCovered
=============================================================================
