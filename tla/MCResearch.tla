----------------------------- MODULE MCResearch -----------------------------
(***************************************************************************)
(* One question's research, and the work on one engine's results that the  *)
(* pipeline takes as a single step.  A behaviour exercises one of the two. *)
(* Two engines: a fallback; one market beside the scraper; five pages in   *)
(* two or three groups, two of which may share a name, for up to three     *)
(* cycles.                                                                 *)
(***************************************************************************)
EXTENDS ResearchPipeline, ScrapeCycles

MCEngines == <<"SerpAPI", "Tavily">>

G(name, urls) == [group |-> name, urls |-> urls]
MCRankings ==
  {<<G("facts", <<"a", "b", "c", "d">>), G("official", <<"b", "e">>)>>,
   <<G("facts", <<"a">>), G("official", <<"b">>), G("history", <<"c", "d">>)>>,
   <<G("facts", <<"a", "b">>), G("facts", <<"c", "a", "d">>)>>}

MCInit == ResearchInit /\ ScrapeInit
MCNext == \/ ResearchNext /\ step = "hits" /\ UNCHANGED scrapeVars
          \/ ScrapeNext /\ at = "start" /\ UNCHANGED vars
MCSpec == MCInit /\ [][MCNext]_<<vars, scrapeVars>> /\ Fairness /\ ScrapeFairness
=============================================================================
