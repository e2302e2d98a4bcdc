-------------------------- MODULE ResearchPipeline --------------------------
(***************************************************************************)
(* One run_research: the providers that run as tasks beside the question's *)
(* own coroutine, the chain of search engines, the check of the required   *)
(* artifact, the focused retry, the two ways to the source explorer, and   *)
(* what reaches the brief.  A section is "text" when it is usable, "poor"  *)
(* when its provider failed or found nothing, "limit" when the provider    *)
(* met the hard cost limit.                                                *)
(***************************************************************************)
EXTENDS Naturals, Sequences, SequencesExt

CONSTANTS Engines,     \* the enabled search engines, in the order they are tried
          Markets,     \* the prediction-market providers
          ExplorerOn   \* the explorer is enabled and the question names a URL

ASSUME EnginesAssumption == Engines \in Seq(STRING) /\ IsInjective(Engines)

VARIABLES
  at,        \* where run_research stands
  task,      \* each provider task: off, waits, listing, runs, done
  out,       \* what each provider handed back
  ready,     \* the futures that are set: "summary", "search"
  onPage,    \* the resolution summary: the value is there, or a gap (partly, no)
  asked,     \* <<engine, answer>> for every search sent
  exhausted, \* EXHAUSTED_ENGINES, shared by the questions of the process
  chosen,    \* the engine whose section the main pass kept
  label,     \* the engine picked for the focused retry
  degraded,  \* the failures the warning banner will name
  included,  \* the sections the check, the compiler and the raw view read
  verdict,   \* artifact_check
  judged,    \* the sections the last check that was tried read
  explored   \* how often the explorer was started

runVars == <<at, chosen, label, degraded, included, verdict, judged>>
vars == <<at, task, out, ready, onPage, asked, exhausted, chosen, label,
          degraded, included, verdict, judged, explored>>

Gathered == {"resolution"} \cup Markets
Tasks == Gathered \cup {"early", "api", "backstop"}
Sections == Tasks \cup {"asknews", "search", "retry"}
Result == {"text", "poor", "limit"}
Ended == {"done", "raised", "cancelled"}
Verdicts == {"complete", "gap"}   \* "gap": partial or missing
EngineSet == Range(Engines)
Stages == {"start", "asknews", "filter", "plan", "queries", "reading", "gather", "agent",
           "early", "check", "decide", "retry", "explore", "recheck", "compile"} \cup Ended

\* An engine's name is no other name, and so is a market's.
ASSUME NamesAssumption ==
  /\ EngineSet \cap (Stages \cup {"none"}) = {}
  /\ Markets \cap {"resolution", "early", "api", "backstop", "asknews", "search",
                   "retry"} = {}

After(e) == SelectInSeq(Engines, LAMBDA x : x = e) + 1

ResearchInit ==
  /\ at = "start" /\ ready = {} /\ onPage = "unknown" /\ asked = <<>>
  /\ task = [t \in Tasks |-> "off"]
  /\ out = [s \in Sections |-> "none"]
  /\ exhausted = {} /\ chosen = "none" /\ label = "none"
  /\ degraded = {} /\ included = {}
  /\ verdict = "none" /\ judged = {} /\ explored = 0

Usable(s) == out[s] = "text"
Raise == at' = "raised"

(***************************************************************************)
(* The tasks.                                                              *)
(***************************************************************************)
Return(t, o) == /\ task' = [task EXCEPT ![t] = "done"]
                /\ out' = [out EXCEPT ![t] = o]

\* A provider whose whole work is one call, or the explorer once it runs.
ProviderReturns(t) ==
  /\ task[t] = "runs"
  /\ \E o \in Result : Return(t, o)
  /\ UNCHANGED <<runVars, ready, onPage, asked, exhausted, explored>>


\* As if "partial" were not read as "partly" (only for the runs' mutants).
SummaryAsWritten ==
  /\ task["resolution"] = "runs" /\ "summary" \notin ready
  /\ ready' = ready \cup {"summary"}
  /\ onPage' \in {"yes", "gap", "partial"}
  /\ UNCHANGED <<runVars, task, out, asked, exhausted, explored>>

\* The scraper has its summary before it is done with its section.
SummaryIn ==
  /\ task["resolution"] = "runs" /\ "summary" \notin ready
  /\ ready' = ready \cup {"summary"}
  /\ onPage' \in {"yes", "gap"}
  /\ UNCHANGED <<runVars, task, out, asked, exhausted, explored>>


\* As if it waited for the summary alone.
EarlyWaitsForSummary == "summary" \in ready

\* The first of the summary and the end of the scraper.
EarlyMayWake == "summary" \in ready \/ task["resolution"] = "done"
EarlyWakes ==
  /\ task["early"] = "waits" /\ EarlyMayWake
  /\ IF "summary" \notin ready /\ out["resolution"] \in {"limit", "cancelled"}
     THEN Return("early", out["resolution"])
     ELSE IF onPage = "gap"
     THEN task' = [task EXCEPT !["early"] = "listing"] /\ out' = out
     ELSE Return("early", "none")
  /\ UNCHANGED <<runVars, ready, onPage, asked, exhausted, explored>>

\* wait_for the listing, or 600 seconds: the listing may be any time away.
EarlyExplores ==
  /\ task["early"] = "listing"
  /\ task' = [task EXCEPT !["early"] = "runs"]
  /\ explored' = explored + 1
  /\ UNCHANGED <<runVars, out, ready, onPage, asked, exhausted>>

(***************************************************************************)
(* The coroutine of run_research, up to the web search.                    *)
(***************************************************************************)
StartTasks ==
  /\ at = "start" /\ at' = "asknews"
  /\ task' = [task EXCEPT !["resolution"] = "runs", !["api"] = "runs",
                          !["early"] = IF ExplorerOn THEN "waits" ELSE "off"]
  /\ UNCHANGED <<label, out, ready, onPage, asked, exhausted, chosen, degraded,
                 included, verdict, judged, explored>>

AskNews ==
  /\ at = "asknews"
  /\ \E o \in Result :
       /\ out' = [out EXCEPT !["asknews"] = o]
       /\ at' = CASE o = "text" -> "filter" [] o = "poor" -> "plan"
                  [] OTHER -> "raised"
  /\ UNCHANGED <<label, task, ready, onPage, asked, exhausted, chosen, degraded,
                 included, verdict, judged, explored>>

\* A failed call or an unusable answer leaves the block as it was.
FilterAskNews ==
  /\ at = "filter" /\ at' \in {"plan", "raised"}
  /\ UNCHANGED <<label, task, out, ready, onPage, asked, exhausted, chosen,
                 degraded, included, verdict, judged, explored>>

\* A failed call gives the fallback plan, so there always is one; the markets
\* read it and start after it.
EvidencePlan ==
  /\ at = "plan"
  /\ \/ /\ at' = "queries"
        /\ task' = [t \in Tasks |-> IF t \in Markets THEN "runs" ELSE task[t]]
     \/ Raise /\ task' = task
  /\ UNCHANGED <<label, out, ready, onPage, asked, exhausted, chosen, degraded,
                 included, verdict, judged, explored>>

(***************************************************************************)
(* The chain of engines.  Whichever way it is left, the listing future is  *)
(* set (the finally of the caller).                                        *)
(***************************************************************************)
SearchOver(where) == at' = where /\ ready' = ready \cup {"search"}

\* No engine enabled, no input tokens to spare, or no plan; the limit raises.
PlanQueries ==
  /\ at = "queries"
  /\ \/ Engines # <<>> /\ at' = Engines[1] /\ UNCHANGED <<degraded, ready>>
     \/ SearchOver("gather") /\ degraded' = {"none searched"}
     \/ SearchOver("raised") /\ UNCHANGED degraded
  /\ UNCHANGED <<label, task, out, onPage, asked, exhausted, chosen, included,
                 verdict, judged, explored>>

NextEngine(e, why) ==
  /\ degraded' = degraded \cup {why}
  /\ IF After(e) > Len(Engines) THEN SearchOver("gather")
     ELSE at' = Engines[After(e)] /\ ready' = ready

SkipEngine(e) ==
  /\ at = e /\ e \in exhausted
  /\ NextEngine(e, e)
  /\ UNCHANGED <<label, task, out, onPage, asked, exhausted, chosen, included,
                 verdict, judged, explored>>


\* As if the memo were per question.
RememberNothing(e, answer) == exhausted' = exhausted

\* "hits"; "error" or no hits; "spent", an error that no later call recovers.
Remember(e, answer) ==
  exhausted' = IF answer = "spent" THEN exhausted \cup {e} ELSE exhausted

\* What one query of an engine may come to: SerpAPI answers 429 when the plan's
\* searches are used up, Tavily when it is asked too fast; SerpAPI and Firecrawl
\* also put errors into an answer that looks good.
SerpReplies == {"hits", "none", "reset", "credits", "429", "error in payload"}
TavilyReplies == {"hits", "none", "reset", "credits", "429"}
FirecrawlReplies == {"hits", "none", "reset", "credits", "error in payload"}
Replies(e) == CASE e = "SerpAPI" -> SerpReplies [] e = "Tavily" -> TavilyReplies
                [] OTHER -> FirecrawlReplies
Exhausting(e, reply) == reply = "credits" \/ (reply = "429" /\ e = "SerpAPI")

\* All queries or nothing: the first failure is the engine's, and the hits of
\* the other queries are lost with it.
SearchAnswers(e) ==
  LET Failed(q) == q \notin {"hits", "none"}
      Answer(p, q) == IF Failed(p) THEN IF Exhausting(e, p) THEN "spent" ELSE "error"
                      ELSE IF Failed(q) THEN IF Exhausting(e, q) THEN "spent" ELSE "error"
                      ELSE IF "hits" \in {p, q} THEN "hits" ELSE "error"
  IN {Answer(p, q) : p, q \in Replies(e)}

SearchWith(e) ==
  /\ at = e /\ e \notin exhausted
  /\ \E answer \in SearchAnswers(e) :
       /\ asked' = Append(asked, <<e, answer>>)
       /\ Remember(e, answer)
       /\ IF answer = "hits" THEN /\ at' = "reading" /\ chosen' = e
                                  /\ ready' = ready \cup {"search"}
                                  /\ UNCHANGED degraded
          ELSE NextEngine(e, e) /\ chosen' = chosen
  /\ UNCHANGED <<label, task, out, onPage, included, verdict, judged, explored>>


\* As if only the engines passed over were failures.
ResearchFailsSilently ==
  /\ at = "reading"
  /\ \E o \in Result :
       /\ out' = [out EXCEPT !["search"] = o]
       /\ at' = IF o = "limit" THEN "raised" ELSE "gather"
       /\ chosen' = IF o = "poor" THEN "none" ELSE chosen
       /\ degraded' = IF o = "poor" THEN degraded ELSE {}
  /\ UNCHANGED <<label, task, ready, onPage, asked, exhausted, included, verdict,
                 judged, explored>>

\* Ranking, scraping and extraction run once, on the winner's results.
ResearchFromHits ==
  /\ at = "reading"
  /\ \E o \in Result :
       /\ out' = [out EXCEPT !["search"] = o]
       /\ at' = IF o = "limit" THEN "raised" ELSE "gather"
       /\ chosen' = IF o = "poor" THEN "none" ELSE chosen
       /\ degraded' = IF o = "poor" THEN degraded \cup {chosen}
                      ELSE {}   \* a fallback that worked is not degraded
  /\ UNCHANGED <<label, task, ready, onPage, asked, exhausted, included, verdict,
                 judged, explored>>

(***************************************************************************)
(* Collecting the tasks: gather, then the agent, then the early explorer.  *)
(* gather raises as soon as one of its tasks does and leaves the others.   *)
(***************************************************************************)
Collect(ts, here, next) ==
  /\ at = here
  /\ \/ /\ \A t \in ts : task[t] \in {"off", "done"} /\ out[t] # "limit"
        /\ at' = next
     \/ (\E t \in ts : out[t] = "limit") /\ Raise
  /\ UNCHANGED <<label, task, out, ready, onPage, asked, exhausted, chosen, degraded,
                 verdict, judged, explored>>


\* As if the markets were not gathered, or exceptions came back as results.
GatherScraper == Collect({"resolution"}, "gather", "agent") /\ UNCHANGED included
GatherReturns ==
  /\ at = "gather" /\ \A t \in Gathered : task[t] = "done"
  /\ at' = "agent"
  /\ UNCHANGED <<label, task, out, ready, onPage, asked, exhausted, chosen,
                 degraded, verdict, judged, explored, included>>

Gather == Collect(Gathered, "gather", "agent") /\ UNCHANGED included
AwaitAgent == Collect({"api"}, "agent", "early") /\ UNCHANGED included
AwaitEarly == /\ Collect({"early"}, "early", "check")
              /\ included' = IF at' = "check" THEN {s \in Sections : Usable(s)}
                             ELSE included

(***************************************************************************)
(* The check, with the extra planners beside it, and what follows from it. *)
(* A check that fails ("none") counts as missing.                          *)
(***************************************************************************)
Gap == verdict \in {"none", "gap"}
RetryLabel ==
  LET left == {i \in DOMAIN Engines : Engines[i] \notin exhausted}
  IN IF chosen # "none" THEN chosen ELSE IF left = {} THEN "none" ELSE Engines[Min(left)]

VerifyArtifact ==
  /\ at = "check"
  /\ \/ /\ verdict' \in Verdicts \cup {"none"}
        /\ judged' = included /\ at' = "decide"
     \/ Raise /\ UNCHANGED <<verdict, judged>>
  /\ UNCHANGED <<label, task, out, ready, onPage, asked, exhausted, chosen, degraded,
                 included, explored>>


\* As if only the verdict decided.
BackstopOnGap == ExplorerOn /\ Gap

\* The explorer runs now if the early one did not (None is not "poor").
Backstop == ExplorerOn /\ Gap /\ out["early"] = "none"

\* No queries, no engine or no input tokens to spare: no retry.
Decide ==
  /\ at = "decide"
  /\ label' = RetryLabel
  /\ \/ RetryLabel # "none" /\ at' = "retry"
     \/ at' = "explore"
  /\ IF Backstop THEN /\ task' = [task EXCEPT !["backstop"] = "runs"]
                      /\ explored' = explored + 1
     ELSE UNCHANGED <<task, explored>>
  /\ UNCHANGED <<out, ready, onPage, asked, exhausted, chosen, degraded,
                 included, verdict, judged>>

\* The label is kept from before the retry's search: the engine may have been
\* exhausted since, and is then not asked.  150 seconds end it as "poor".
FocusedRetry ==
  /\ at = "retry"
  /\ LET e == label IN
     \E answer \in SearchAnswers(e), o \in Result :
       /\ (answer # "hits" \/ e \in exhausted) => o = "poor"
       /\ out' = [out EXCEPT !["retry"] = o]
       /\ IF e \in exhausted THEN UNCHANGED <<asked, exhausted>>
          ELSE asked' = Append(asked, <<e, answer>>) /\ Remember(e, answer)
       /\ at' = IF o = "limit" THEN "raised" ELSE "explore"
       /\ included' = IF o = "text" THEN included \cup {"retry"} ELSE included
       /\ degraded' = IF o = "poor" /\ chosen = "none"
                      THEN degraded \cup {"retry"} ELSE degraded
  /\ UNCHANGED <<label, task, ready, onPage, chosen, verdict, judged, explored>>

AwaitBackstop ==
  /\ Collect({"backstop"}, "explore", "recheck")
  /\ included' = IF at' = "recheck" /\ Usable("backstop")
                 THEN included \cup {"backstop"} ELSE included


\* As if only the retry's own section called for a second check.
RecheckRetry ==
  /\ at = "recheck"
  /\ IF "retry" \notin included THEN at' = "compile" /\ UNCHANGED <<verdict, judged>>
     ELSE /\ verdict' \in Verdicts \cup {verdict}
          /\ judged' = included /\ at' = "compile"
  /\ UNCHANGED <<label, task, out, ready, onPage, asked, exhausted, chosen,
                 degraded, included, explored>>

\* A second check that fails leaves the first verdict.
Recheck ==
  /\ at = "recheck"
  /\ IF included = judged THEN at' = "compile" /\ UNCHANGED <<verdict, judged>>
     ELSE \/ /\ verdict' \in Verdicts \cup {verdict}
             /\ judged' = included /\ at' = "compile"
          \/ Raise /\ UNCHANGED <<verdict, judged>>
  /\ UNCHANGED <<label, task, out, ready, onPage, asked, exhausted, chosen, degraded,
                 included, explored>>

\* The compiler, the two banners and the raw view.
CompileReport ==
  /\ at = "compile" /\ at' \in {"done", "raised"}
  /\ UNCHANGED <<label, task, out, ready, onPage, asked, exhausted, chosen, degraded,
                 included, verdict, judged, explored>>

(***************************************************************************)
(* The question's time-out cancels the coroutine where it stands, and with *)
(* it what it is awaiting; every other task lives on.  Another question of *)
(* the process may find an engine spent, at any time before this run looks *)
(* at the memo: the steps that do not look commute with it.                *)
(***************************************************************************)
Awaited == CASE at = "gather" -> Gathered
             [] at = "agent" -> {"api"}
             [] at = "early" -> {"early"}
             [] at = "explore" -> {"backstop"}
             [] OTHER -> {}
Searching == at \in {"queries", "reading"} \cup EngineSet

Cancel ==
  /\ at \notin Ended \cup {"start"} /\ at' = "cancelled"
  /\ LET hit == {t \in Awaited : task[t] \notin {"off", "done"}} IN
     /\ task' = [t \in Tasks |-> IF t \in hit THEN "done" ELSE task[t]]
     /\ out' = [s \in Sections |-> IF s \in hit THEN "cancelled" ELSE out[s]]
  /\ ready' = IF Searching THEN ready \cup {"search"} ELSE ready
  /\ UNCHANGED <<label, onPage, asked, exhausted, chosen, degraded, included, verdict,
                 judged, explored>>

OtherQuestionSpends ==
  /\ at \in EngineSet \cup {"decide", "retry"}
  /\ \E e \in EngineSet \ exhausted : exhausted' = exhausted \cup {e}
  /\ UNCHANGED <<runVars, task, out, ready, onPage, asked, explored>>

TaskStep == SummaryIn \/ EarlyWakes \/ EarlyExplores
            \/ \E t \in Tasks : ProviderReturns(t)
RunStep == \/ StartTasks \/ AskNews \/ FilterAskNews \/ EvidencePlan \/ PlanQueries
           \/ \E e \in EngineSet : SkipEngine(e) \/ SearchWith(e)
           \/ ResearchFromHits \/ Gather \/ AwaitAgent \/ AwaitEarly
           \/ VerifyArtifact \/ Decide \/ FocusedRetry \/ AwaitBackstop
           \/ Recheck \/ CompileReport
ResearchNext == TaskStep \/ RunStep \/ Cancel \/ OtherQuestionSpends

\* Every provider call has its time-out, the wait for the listing too.
Fairness == /\ WF_vars(RunStep /\ at # "start")
            /\ WF_vars(EarlyWakes) /\ WF_vars(EarlyExplores)
            /\ \A t \in Tasks : WF_vars(ProviderReturns(t))
ResearchSpec == ResearchInit /\ [][ResearchNext]_vars /\ Fairness

(***************************************************************************)
(* Properties.                                                             *)
(***************************************************************************)
\* The types of the variables.
ResearchTypeOK ==
  /\ at \in Stages \cup EngineSet
  /\ task \in [Tasks -> {"off", "waits", "listing", "runs", "done"}]
  /\ out \in [Sections -> Result \cup {"none", "cancelled"}]
  /\ ready \subseteq {"summary", "search"}
  /\ onPage \in {"unknown", "yes", "gap"}
  /\ asked \in Seq(EngineSet \X {"hits", "error", "spent"})
  /\ exhausted \subseteq EngineSet /\ {chosen, label} \subseteq EngineSet \cup {"none"}
  /\ included \subseteq Sections /\ judged \subseteq Sections
  /\ verdict \in Verdicts \cup {"none"} /\ explored \in Nat

\* A bundle is handed over only when none of the run's tasks is still working
\* (a late provider would spend and trace for a question already forecast).
NothingLeftRunning ==
  at = "done" => \A t \in Tasks : task[t] \in {"off", "done"}

\* Two places start the explorer; whatever the timing, it never runs twice, and
\* a bundle whose first verdict was a gap had it run (run_research 497-503).
GapIsExploredOnce ==
  /\ explored <= 1
  /\ at = "explore" /\ ExplorerOn /\ Gap => explored = 1

\* The verdict handed to the compiler was judged, or at least tried again, on
\* all the evidence the brief is made from (Stage 5.5).
VerdictIsFresh == at \in {"compile", "done"} => judged = included

\* The hard limit met by any provider ends the research; it is never turned into
\* a missing section (run_provider, gather with return_exceptions).
LimitReachesTheCaller == at = "done" => \A s \in Sections : out[s] # "limit"

\* The brief warns of a blind search exactly when the main chain brought
\* nothing (_apply_degradation_warning).
WarnedIffBlind ==
  at = "done" => (degraded = {} <=> out["search"] = "text")

\* An engine that said its credits are gone is not asked again, by the main pass
\* or by the retry; and the retry spends no second engine's credits.
SpentEngineRests ==
  \A i, j \in DOMAIN asked : i < j =>
    /\ asked[j][1] = asked[i][1] => asked[i][2] # "spent"
    /\ asked[i][2] = "hits" /\ out["search"] = "text" => asked[j][1] = asked[i][1]

\* A run that was started ends, and so does every task it made, those it
\* abandoned included.
ResearchEnds ==
  <>[](at \in Ended \cup {"start"} /\ \A t \in Tasks : task[t] \in {"off", "done"})

\* The bundle the compiler gets is final: nothing still adds to it or spends for it,
\* its verdict is on all of it, and what failed is told.
BundleIsFinal ==
  /\ ResearchTypeOK /\ NothingLeftRunning /\ GapIsExploredOnce /\ VerdictIsFresh
  /\ LimitReachesTheCaller /\ WarnedIffBlind /\ SpentEngineRests
=============================================================================
