# Verification of the Pirohuni forecast bot

TLA+ models of the bot in `src/`, checked with TLC on small instances and, for
the parts where it matters most, proved with TLAPS for every value of the
constants. File and line references are to `src/`.

## 1. The system

The bot forecasts Metaculus questions. One process runs one asyncio event loop;
blocking work (tournament listings, prediction-market clients, synchronous LLM
calls) runs in threads. A run lists tournaments, queues their open questions,
and forecasts them with a bounded set of worker tasks. Forecasting a question
is: fetch the post, research (a staged fan-out of providers), compile a report,
run an ensemble of LLM forecasts, aggregate, post forecast and comment to
Metaculus, and leave artifacts on disk that a separate program publishes.

| component | source | state it keeps | operations | what must be right |
|---|---|---|---|---|
| Run queue | `bot/run/orchestrator.py` 441-680 | heap, `known`, results, first failures, worker set, discovery lock and time | enqueue, refresh/discover, worker turn, top_up, report | no question lost, duplicated, started too late or tried three times; no lost wakeup; urgent first; the run ends |
| Question attempt | `bot/run/orchestrator.py` 170-438 | artifacts directory, forecast.json, what Metaculus has stored | fetch, skip, research, forecast, record, post forecast, post comment, time out | a skipped question is never re-posted; the comment follows the forecast; the record agrees with the server |
| Metaculus client | `bot/run/metaculus_client.py` | semaphore, retry counters | GET/POST with retries, list, post | a permit per call in flight, none leaked; bounded retries |
| Rate gate | `bot/llm/provider.py` 1195-1364 | next slot, stream slots, the gate table | reserve, wait, penalise, acquire/release, gate_for | slots distinct and spaced, streams bounded, one gate per endpoint |
| LLM client | `bot/llm/client.py`, `bot/llm/clients.py` | LLM semaphore, retry counter | call with retries, sync call | permits, retry bounds |
| Qwen ladder | `bot/llm/qwen_ladder.py` | per-question outage tally, effort ladder | run_async, ladder, retry, skip when down | an outage is declared once and every later call fails at once |
| Cost ledger | `bot/llm/cost_manager.py` | nested managers' rows, limits | start call, record its end, reserve gate | a call is charged to the attempt that made it; bounded overrun; the tail keeps its reserve |
| Firecrawl budget | `bot/scrapers/firecrawl_scrape.py` | credits spent per question, reserve flags, exhausted flag | charge, refund, top up, release, scrape | the cap; the resolution reserve |
| Scrape dedupe and fetch ladder | `bot/scrapers/fetch.py`, `bot/scrapers/crawler/crawl.py` | claimed URLs, page cache per question | claim, record, cache lookup, ladder of fetchers | one fetch per URL and question, no page lost |
| Scrape cycles | `bot/research/search/scrape_cycles.py` | ranked groups, places in them, kept cycles | rank, pick targets, scrape, extract, stop | no page read twice, none lost, no finding thrown away, the work ends |
| Research pipeline | `bot/research/pipeline.py` | provider tasks and their results, artifact-check verdict | staged fan-out, check, retry, re-check, compile | no provider's failure sinks the question; the last check describes the compiled research |
| Searches and query making | `bot/research/search/*` | query-plan cache, exhausted engines | plan, search with fallback, pool | one plan per prompt; a spent engine rests; caps drop nothing that should stay |
| News and markets | `bot/research/news`, `markets` | none beyond a call | query and format | - |
| Resolution sources | `bot/research/resolution` | scraped pages, the history task, the series, the explorer's conversation | scrape, summarise, announce, discover and reduce the series, explore | credits claimed and handed on; the series is the one in reach, up to its newest row; the conversation fits |
| Report compiler | `bot/brief/*` | sections, character budget | fit, condense, write, audit, fall back | nothing is lost without a mark; the resolution source is cut last; condensing ends clean |
| Forecasters | `bot/forecasters/*` | run values, guardrail flags | run ensemble, parse, aggregate, tiebreak | aggregate within range, monotone CDF, abstain only with no usable run |
| Trace and artifacts | `bot/trace/*`, `bot/run/artifacts.py` | files of one question | append, finalize | - |
| Publisher | `eval_tools/publish_runs.py` | storage blobs, library rows | publish a run, watch | "Files go up before rows" |
| Scoring and evaluation | `eval_tools/score_outcomes.py` and others | outcomes and scores in the library | look up, score page by page | every forecast of a resolved question is scored in the end |
| Diagnostics | `diagnostics/*` | none | read artifacts, report | - |
| apiagent-kit | `apiagent-kit/` (TypeScript) | an agent's conversation | adapters to public APIs | - |

How they interact: the queue calls the question attempt (`create_task` +
`wait_for`); the attempt opens a cost manager in its context, calls the research
pipeline, the forecasters and the Metaculus client; pipeline, compiler and
forecasters call the LLM client, which passes the rate gate, the cost ledger and
(for Qwen models) the ladder; scrape paths share the Firecrawl budget and the
dedupe table of the question's scope. The publisher shares only the files.

What is hard: tasks interleave at every `await`; worker threads interleave
everywhere; a timeout cancels a question at any `await` but not the child tasks
it has created; HTTP calls are retried when the answer was lost, so the server
may see a request twice; the job is killed at a fixed time; a listing may fail.

## 2. Modules

| module | models | checked in | proofs |
|---|---|---|---|
| `QuestionQueue` | `forecast_questions`: the run | `MCQuestionQueue`, `MCProgress` | `QuestionQueueProofs` |
| `QuestionAttempt` | the attempts at a question and their Metaculus calls | `MCPublish` | `PublishProofs` |
| `LlmCalls` | all LLM calls in flight: client, ladder, precompression | `MCLlmCalls`, `MCProgress` | `LlmCallsProofs` |
| `RateGate` | the request spacer of an endpoint, and the table of gates | `MCShared` | `SharedProofs` |
| `FirecrawlBudget` | the Firecrawl credits of a question | `MCShared` | `SharedProofs` |
| `CostLedger` | the token ledger: managers, contexts, limits | `MCShared` | `SharedProofs` |
| `FetchLadder` | the page fetches of a question, their registry and cache | `MCShared`, `MCFetchLadder` | `SharedProofs` |
| `ResearchPipeline` | `run_research`: tasks, engines, check, retry, explorer | `MCResearch` | `ResearchProofs` |
| `ScrapeCycles` | `research_from_hits`: ranking and scrape cycles | `MCResearch` | `ResearchProofs` |
| `SearchSection` | what the pipeline takes a search for (abstract) | refined by `ScrapeCycles` | `ResearchProofs` |
| `QueryPlans` | the shared query plans and their cache | `MCReport` | `ResearchProofs` |
| `Selections` | pooled retry queries, the caps on a plan, the check's sections | `MCReport` | `ReportProofs` |
| `ResolutionScrape` | `scrape_resolution_sources` | `MCReport` | `ReportProofs` |
| `MeasuredSeries` | discovery, reading and reduction of a series | `MCReport` (`MCSeries`) | `ResearchProofs` |
| `SourceExplorer` | `explore`: the model that browses the source | `MCReport` | `ReportProofs` |
| `ReportCompiler` | `compile_research_report` | `MCReport` | `ReportProofs` |
| `ForecastEnsemble` | the runs of a question and their aggregate | `MCReport` (`MCForecast`) | `ReportProofs` |
| `NumericCdf` | from numeric replies to the curve submitted | `MCReport` (`MCForecast`) | `NumericProofs` |
| `Publisher` | the run's files, the watcher, the last pass, the library | `MCPublish` | `PublishProofs` |
| `OutcomeScoring` | the daily pass over outcomes and scores | `MCPublish` | `PublishProofs` |
| `Listings` | a list made by going through indices in order; used by several modules | with them | `DataLemmas` |
| `DataLemmas` | no code: least counterexamples, sums, places, recursive functions, texts | - | itself |

**Composition.** Where one module needs another component it takes what that
component promises, and the other module shows the promise:

- `QuestionQueue` lets an attempt end at any time in any way; `QuestionAttempt` lets
  attempts at one question follow, never overlap, one another (`EachQuestionInOnePlace`).
- `ResearchPipeline` takes an engine's results to become a section in one step that
  ends once, in one of three ways; `ScrapeCycles` refines that step (`IsOnePass`).
- `LlmCalls` lets a rate slot come at some time (`RateGate`); `CostLedger` takes calls
  that answer or fail at any time (`LlmCalls`); `FetchLadder` and `ResolutionScrape` let
  the Firecrawl rung return anything (`FirecrawlBudget`).
- `Publisher` takes the files of attempts that follow one another (`QuestionAttempt`).

Several modules have no shared state; the MC modules run them side by side with a
variable `part` that a behaviour fixes at its start (or that its first step fixes), so
that the state space is the sum, not the product, of theirs. Wherever the code has no
`await` (and, for threads, no lock), a step of the model is one step.

Each module has operators whose comment begins "As if" or "A variant": plausible slips of
the code, a dropped guard or a swapped order. They are used by no action; substituted for
the definition that follows them they are caught by a property of the runs, which shows
that the property depends on the code it is about.

## 3. The models and the code

### 3.1 QuestionQueue

`queue`, `known`, `arrival`, `results`, `firstFailures`, `discoveryLock` with its
`waiters`, and `lastDiscovery` are the variables of `forecast_questions` of the same
names; `pc`, `job` and `startedAt` are the local state of each worker task, `scan` that of
the listing thread. `now` is the clock and `cpu` names the task that is inside a segment
without `await`: between popping an attempt's result and asking for the lock, and between
`top_up()` and the next question, no other task of the loop runs, and the model keeps it
so. `starts` counts the attempts that were begun at each question, a history variable that
no guard reads.

| code | action |
|---|---|
| `discover` in its thread | `ListTournament`, `ListingFails` |
| `refresh(force=True)` | `Init`, `FirstListingDone` |
| explicit questions, first `top_up()` | `EnqueueExplicit` |
| `worker` turn: `while queue`, deadline, pop | `QueueIsEmpty`, `StopStarting`, `StartQuestion`, `Discard` |
| the attempt's result | `AttemptSucceeds`, `AttemptFails`, `AttemptTimesOut` |
| `refresh()` in a worker, `top_up()` | `WaitForLock`, `SkipListing`, `StartListing`, `FinishListing` |
| `while workers`, the report | `Report` |

Abstractions: a question is an id with the tournaments that list it, an opening
and a closing time; the heap is a set with its order relation; what a forecast
does is left to the attempt (it ends at any time, in any way, and at its timeout
at the latest); two questions that one listing adds may come in either order.

### 3.2 QuestionAttempt

`attempt`, `stage`, `call`, `try` and `outcome` are the local state of
`forecast_individual_question` and of the retry loop it is in; `permits` and
`line` are the semaphore `METACULUS_API_RATE_LIMITER`; `record` is forecast.json.
`open`, `stored` and `comments` are Metaculus, `wire` and `answers` the network.

| code | action |
|---|---|
| `async with METACULUS_API_RATE_LIMITER` | `GetPermit`, `ReleasePermit` |
| the sleep and the request of a try | `Send` |
| `httpx.RequestError`, 429, other errors | `NetworkError`, `Refused` |
| fetch the post; closed, or forecast already made | `Begin`, `Fetched` |
| research and forecast raise; abstain; forecast | `WorkFails`, `Abstain`, `Forecast` |
| post the forecast, then the comment | `ForecastPosted`, `CommentPosted` |
| `wait_for`, or the job is killed | `TimeOut` |
| Metaculus and the network | `Close`, `Accept`, `Refuse`, `Lose` |

A request that nobody waits for any more stays on the wire: it may be accepted
during a later attempt. Such forecasts are marked `late`.

### 3.3 LlmCalls

A call is of one of four kinds. A `chat` is `_create_chat_completion_with_retries`
on a SoCLaaS model: it holds a permit of `llm_rate_limiter` through the whole
ladder. A `thread` is `sync_chat`, the ladder without a permit. A `compress` is a
precompression. An `other` goes to another endpoint and needs a permit only.
`permits` with `line`, `streams` and `marks` are the semaphore, the stream slots of
the SoCLaaS gate and the outage tally; `pc`, `model`, `rung`, `backoff` and `try`
are the place of a call in its chain.

| code | action |
|---|---|
| `wait_async`, the precompression's look at the tally | `Begin`, `RateSlot` |
| `async with llm_rate_limiter`, `_raise_if_down` | `GetPermit` (`Enter`) |
| the hard limit | `OverBudget` |
| `in_flight_async`, `in_flight_sync` | `GetStream` |
| deadline, broken stream, unusable answer | `LadderReply` (`RungFails`) |
| 408, 5xx, overload, no connection | `LadderReply` (`Unavailable`) |
| 400, 404, 422; access and quota | `LadderReply` (`Rejected`, `Refused`) |
| sleeps between requests | `Resume` |
| the client's answer, retry and last error | `Answered`, `TryAgain`, `GiveUp` |
| a precompression's answer | `CompressReply` |
| the question's timeout | `Cancel` |

### 3.4 RateGate

`table` is `_GATES` at one endpoint; `nextAt` is `_next_at` of each gate. `slots`
records all reservations. `pushedTo` is a history variable: the end of the longest
penalty of each gate. `LookUp` and `Create` are the two halves of `gate_for`, which a
thread can be interrupted between and a task cannot; `Reserve` is `_reserve`, under
its lock; `Send` ends `wait_async` or `wait_sync`; `RateLimited` is `note_failure`
with `penalise`.

### 3.5 FirecrawlBudget

`spent`, `prioritySpent`, `released` and `exhausted` are the module's dictionaries at
one scope and its process-wide flag. `Charge`, `Skip`, `RateLimited`, `Resend`,
`Rejected`, `NoAnswer`, `Scraped` and `Unusable` are the ways through
`firecrawl_scrape_page`; `Cancel` is a cancelled task, whose charge stays;
`ReleaseReserve` is the `finally` of the resolution scraper, `Retry` the question's
second attempt under the same scope. `Run` is Firecrawl, which runs and bills a
request whether anyone still waits or not.

### 3.6 FetchLadder

`claimed` and `cache` are the registry of a question's scope. A fetch claims its URL
(`Claim`) or is served from the cache (`Duplicate`), and then takes one action per
rung: `Adapter`, `Firecrawl`, `Crawl`, `Render`, `Wayback`, `BestAttempt`. `Stop` is a
cancellation or the hard limit. A text is its size; whose page it is is kept with it.


### 3.7 CostLedger

`current` is the manager of the attempt under way, manager 0 the run's; `calls` holds each
call's phase and the managers that were active where it was spawned (`contextvars` copies
them); `rows` are the rows of every manager. `Enter` and `Exit` are the `with`; `Gate` is
`would_breach_input_reserve`; `Start` is `start_openrouter_call` on the event loop,
`Check` and `AppendRow` its two halves in a thread; `Answer`, `Fail` and `FailUnrecorded`
the ends of a call, the last one that of `sync_chat` and the resolution scraper, which
record no failure.

### 3.8 ResearchPipeline, ScrapeCycles, SearchSection

`at` is where `run_research` awaits; `task`, `out` and `ready` are the provider tasks,
what they handed back and the two futures; `asked`, `exhausted`, `chosen` and `label` the
chain of engines; `verdict` and `judged` the artifact check and what it read; `explored`
counts starts of the explorer. `ProviderReturns`, `EarlyWakes` and `EarlyExplores` are
steps of tasks, everything else of the question's own coroutine: `StartTasks`, `AskNews`,
`EvidencePlan`, `PlanQueries`, `SearchAnswers`, `ResearchFromHits`, `Gather`,
`AwaitEarly`, `VerifyArtifact`, `Decide`, `FocusedRetry`, `Backstop`, `Recheck`,
`CompileReport`. `Cancel` is the question's timeout at any `await`: what `gather` awaits
is cancelled, other tasks go on. `OtherQuestionSpends` exhausts an engine from another
question.

`ScrapeCycles` keeps `groups`, `nextIndex` (per group *name*, as the code), `batch` and
`cycles`. `CycleTargets` is `_cycle_targets`; `ExtractSucceeds` and `ExtractFails` include
the one retry and the salvage. `SearchSection` is the step the pipeline takes it for.

### 3.9 QueryPlans and Selections

`plans` are the planning tasks, `cache` the table of `query_maker.py`; callers wait behind
a shield, so `CancelCaller` leaves the task alone. `Receive` hands out the result and
takes a failure out of the cache. `Selections` computes three pure selections of given
inputs: `PoolRetryQueries`, `CapQueries` (with `same_query`, which is not transitive) and
`FitSections` (weighted fair shares, lengths as numbers).

### 3.10 ResolutionScrape, MeasuredSeries, SourceExplorer

`ResolutionScrape` follows `scrape_resolution_sources`: `FindUrls` claims the credits and
starts the archive task, `ScrapePages` fetches and releases the claim, `SeriesAndTables`,
`Summarise` (batches of whole pages or parts) and `JoinHistory` follow; `HistoryEnds` is
the task's own step, `CancelScrape` may come at each `await`. `MeasuredSeries` has a web
of pages that may redirect, fail, hold rows or name others: `Climb` and `Discover` are the
ladder. A payload has one of the reader's four formats, an entity column that is named
(neither numeric nor a date) or not, and rows of a day, an entity and a value; `ReadTable`
sorts it unless `IsPanel`, which is `_find_group_column`: it is called for rows of JSON
and for CSV only, and looks at the first `SampleRows`. `DropOutages` and `ReduceSeries`
are `series_reduce.py`. `SourceExplorer` counts characters: `Visit` is one URL of a fetch,
`Trim` shortens the oldest results first.

### 3.11 ReportCompiler

A section is a sequence of lines, a line the set of values it states, so that a text
itself says what it lost. `Prepare`, `NextCandidate`, `StartChunk`, `ChunkAnswers`,
`JoinChunks` and `FitEnds` are `_fit_sections_to_budget` with its concurrent condensing;
`WriteBrief`, `Audit` (`missing_value_lines`: lines of too many values left out, shares of
the audit's lines) and `FallbackReport` write the brief. `conf` are the settings: the
condensing mode, Qwen or not, truncate or not.

### 3.12 ForecastEnsemble and NumericCdf

`runs` are the runs of `gather_forecast_runs` with their calls, one repair and one backup;
`nodes` what they write to the trace. `Aggregate` is the three `get_..._prediction`s after
the gather, `TiebreakAnswers` and `TiebreakFails` the binary tiebreak. In `NumericCdf` a
component is a block of twice its spread on the question's grid and probabilities are
integers, `Percent` to a hundredth, so that every comparison is exact: `Infer` (units),
`Guard` (folding, width floor, merging), `Draw` (support, rendering), `Witness` (what the
run itself declared), `Repair` (coarse mass functions), `Combine` (quantile average) and
`Submit` (`_standardize_cdf`). The shape of a density family is abstracted; its place, its
cut and all guards are kept.

### 3.13 Publisher and OutcomeScoring

`bot` and `disk` are the attempts and the versions of their files, `pub` the publisher
that runs, `done` the watcher's versions; `blobs`, `runRow`, `row`, `calls` and `log` the
library. `Look` reads the version before `ReadRecord` reads the record and `ReadFiles` the
files; `SendRequest` sends one request, `RequestFails` is one that failed for good,
applied or not; `LastPass` is the workflow's last pass after the bot and the watcher are
over. A version is the number of the attempt that wrote it. `OutcomeScoring` is the daily
job: `StartDay`, `Check`, `StartScoring` and `ScorePage` with its offset into a view that
shifts while rows are scored, published (`Publish`) and resolved (`Resolve`); `Miss` is a
lookup that fails.

## 4. Runs

| run | instance | shows |
|---|---|---|
| `queue_safety` | three questions, two tournaments, two workers at once | no question is lost, duplicated, started too late or tried three times; urgent first; no lost wakeup; failing listings, hard limits and retries included |
| `progress` | two questions of two tournaments; or two chats, a compression, another call behind one permit | the run ends; every call ends; an outage is met only by ladders already in flight |
| `publish` | one question, three attempts; or two folders, of which one is written twice, with one failed request; or four forecasts of three questions | comments follow forecasts, success means posted, no double forecast unless a request was overtaken; files before rows and keys, the last pass is complete, everything arrives; every pass scores all it can, every question is reached |
| `shared` | four scrapes in two attempts; or two tasks and a thread; or four calls in two attempts; or three fetches of two pages | credits, slots, token rows and pages stay right under the interleavings |
| `llm_safety` | a chat, a thread, a compression; two models of two rungs, two tries | nothing leaks, requests are bounded, nothing waits in a circle |
| `report` | six inputs of the report, or a forecast of one to three runs, or one to two numeric replies on three grids | see the table below |
| `research` | two engines, a market, a scraper, an explorer, a check and a retry; or five pages in two or three groups and three cycles | the bundle is final, spent engines rest, cycles lose and repeat nothing, the work ends, and `ScrapeCycles` implements `SearchSection` |
| `queue_dropped_retry` | as `queue_safety` | a violation: finding 1 |
| `attempt_comment_lost` | one question, two attempts | a violation: finding 2 |
| `llm_circular_wait` | two chats, two compressions, two stream slots | a violation: finding 3 |
| `fetch_sheet_tabs` | two tabs of a sheet | a violation: finding 4 |
| `publish_not_posted` | as `publish` | a violation: finding 5 |

**Properties.** Most runs check composites of named parts:

| property | parts | run |
|---|---|---|
| `QuestionsAreAccountedFor` | `TypeOK`, `EachQuestionInOnePlace`, `NothingLostBeforeDeadline` | queue_safety |
| `MetaculusAgrees` | `TypeOK`, `CommentFollowsForecast`, `PostedIsOnMetaculus` | publish |
| `LibraryIsConsistent` | `FilesBeforeRows`, `KeysAreThere`, `LastPassIsComplete` | publish |
| `CreditsAreHeld` | `TypeOK`, `FirstClaim`, `OverrunBounded` | shared |
| `SlotsAreRespected` | `GateTypeOK`, `SlotsSpaced`, `PenaltyOutlastsQueue` | shared |
| `LimitsHold` | `InputOverrunBounded`, `TailHasItsReserve` | shared |
| `BestPageIsServed` | `LadderTypeOK`, `FetchedPageIsCached`, `LongestTextIsReturned`, `ThinIsMarked` | shared |
| `UsableRunsDecide` | `TypeOK`, `ForecastWithinRuns`, `OptionsAreADistribution`, `AveragedCurvesAreWitnessed`, `AllSurvivorsCount`, `DefaultOnlyWithoutSurvivors` | report |
| `MassIsKept` | `NoCentreLeavesTheGrid`, `GuardrailsKeepTheMass`, `RepairKeepsTheMass`, `AverageKeepsTheTails` | report |
| `BriefIsComplete` | `CompilerTypeOK`, `NoSilentLoss`, `ResolutionIsLast`, `LossIsListedOnce`, `AuditIsFair` | report |
| `CondensingEndsClean` | `NoStreamIsOrphaned`, `CallsBounded`, `OnlyReviewPauses` | report |
| `ScrapeIsAccountedFor` | `ScrapTypeOK`, `ReserveIsHandedOn`, `HistoryIsJoined`, `SourcesAreCovered` | report |
| `SeriesIsFaithful` | `SeriesInReachIsFound`, `LatestIsNewest`, `EntitiesAreNotMixed`, `ShiftIsAccepted`, `BelowZeroIsLost` | report |
| `ConversationIsTrimmed` | `ExplorerTypeOK`, `OldestGoFirst`, `ConversationFits` | report |
| `CapsAreFair` | `PoolIsFair`, `UrgentGoFirst`, `NoRoomIsWasted` | report |
| `PlansAreShared` | `PlannedOnce`, `FailureIsNotKept` | report |
| `BundleIsFinal` | `ResearchTypeOK`, `NothingLeftRunning`, `GapIsExploredOnce`, `VerdictIsFresh`, `LimitReachesTheCaller`, `WarnedIffBlind`, `SpentEngineRests` | research |
| `CyclesKeepWhatTheyRead` | `NoHitIsLost`, `PagesAreNew`, `FindingsAreKept`, `LackingPagesAreRead` | research |

Stated alone: `QueueIsServed`, `NoForecastAfterTimeLimit`, `RetriedAtMostOnce`,
`UrgentFirst`, `OneForecastUnlessOvertaken`, `PassScoresAll`, `BooksBalance`,
`RowsFollowTheCall`, `OneFetchPerKey`, `NothingLeaks`, `RequestsBounded`,
`NoCircularWait`, `CountedOnce`, `WeightsFollowTheModelThatRan`, `SubmissionIsAccepted`;
the action property `OutageIsMetOnce`; the refinement `IsOnePass`; and the liveness
properties `RunEnds`, `AllCallsEnd`, `ReachesTheLibrary`, `AllAreScoredInTheEnd`,
`ResearchEnds`.

**Bounds, and why they are enough.** The races of each module are between few actors, and
each instance has one more than the race needs.

- `QuestionQueue`: the clock stops at `Horizon`, just past the time limit. Races are
  between a worker that tops up or finds the queue empty and one that is finishing: two
  concurrent workers and a third task slot; three questions give a tie of ranks, a
  tie-break by close time and a question that opens during the run.
- `QuestionAttempt`: three attempts let a request be overtaken twice. One question:
  questions share only the semaphore, and a waiter cancelled in every stage of a call
  leaves it.
- `LlmCalls`: one permit, two stream slots, two models of two rungs (an inner and a last
  one of each). In `progress` two chats and a call to another endpoint also queue for the
  permit.
- `RateGate`: at most `MaxTries` requests, a penalty longer or shorter than the interval,
  the clock to `Horizon`. `FirecrawlBudget`: a page costs at most `MaxCost` = 2, so a
  scrape has a top-up; a cap of three lets each kind exhaust its part. Both are proved for
  all values.
- `CostLedger`: four calls of the kinds that differ, two attempts (a call may outlive the
  first), a limit that two calls reach and three exceed. A `research` call starts in one
  step where a thread takes two, so the thread covers it.
- `FetchLadder`: text is empty, thin (two sizes) or adequate; three fetches, two keys.
- `ResearchPipeline`: two engines make a fallback chain and a retry on the other; one
  market stands for all, which differ in nothing the pipeline sees. `ScrapeCycles`: five
  pages, one of them in two groups; up to three cycles.
- `ReportCompiler`: up to four sections of up to five lines, a budget of six lines, chunks
  of two or three: one, two or more chunks, a call limit that is reached or not; lines of
  one to three values, of which `AuditValues` = 2 are still a claim.
- `ResolutionScrape`: up to three sources, pages shorter, as long and longer than a batch.
  `MeasuredSeries`: redirects for good and in a circle, three frames where two are
  climbed, a series in any subset of the places; seven rows of one entity between two
  levels (down, down to zero, below zero) in every mixture, so that a window of four fills
  with the new level; two to four entities of two, three or nine days in every format, so
  that the sample of nine rows holds all entities, too many of them, or only one.
  `SourceExplorer`: four turns, so that the context is exceeded twice.
- `ForecastEnsemble`: up to three runs, no, one, two or three weighted models (one with a
  weight of zero). `NumericCdf`: one or two replies of up to four components or ten
  values, on a closed, a half-open and a discrete grid; `Percent` = 1 part to a hundredth of
  the mass, and units off by up to `MaxSlip` = 2 powers of ten either way. Both properties
  are proved for any number of parts and any slip.
- `Publisher`: two folders, so that there is one behind and one ahead of the publisher;
  two attempts, the second with fewer LLM calls; one request that fails for good.
- `OutcomeScoring`: a page of one row of four, two lookups a day, one post gone, one
  abstained.

Interchangeable tasks are symmetric where a run has no liveness property and no
configuration tells them apart. `CHECK_DEADLOCK FALSE` is set for `report` and `research`
only, where every actor may be done and the program really ends; parts that end inside a
run whose other parts must not deadlock say so with an explicit stuttering disjunct.

**Fairness.** Every fairness condition is weak and stands for something that runs the
step:

- `progress`: the event loop runs ready tasks (`RunMain`, `RunWorker`), a listing's HTTP
  calls have 30 s timeouts and four tries (`RunListing`), time passes (`Tick`), `wait_for`
  fires (`AttemptTimesOut`); no attempt is assumed to end by itself. Each call's own next
  step: asyncio's semaphore serves waiters in order (modelled), sleeps end, every request
  has a deadline, threads run. A call that polls for a stream slot could poll in vain
  under weak fairness only if slots were taken without end; requests are finite.
- `research`: each provider call has a timeout; the coroutine and the two steps of the
  early explorer run. Cancellation is never assumed.
- `publish`: the watcher runs on (`PublishStep`), and the workflow starts the scoring
  every day (`Daily`). Failed requests and lookups are bounded by `MaxFaults` and
  `MaxMisses`: no claim is made about a library that always fails.

## 5. Findings

1. `orchestrator.py:563`: a question that failed and waits for its second attempt is
   dropped with the queue at the start deadline, and the run exits zero, though
   README.md:84 says any per-question failure makes it nonzero.
2. `orchestrator.py:407`: when the comment's call fails after the forecast was posted,
   the retry finds the forecast made and counts the question as a success; the
   comment that README.md:78 announces is never posted.
3. `qwen_precompression.py:222`: a precompression takes a stream slot and then a permit,
   a ladder call a permit and then a stream slot, and neither wait has a deadline.
   With as many compressions as stream slots everything stops until the question's
   timeout. `FewCompressionsNeverDeadlock` proves that fewer are safe.
4. `crawl.py:186`: the registry's key drops the fragment, in which GoogleSheets.py:106
   allows the tab to be; the second tab is served the first one's table.
5. `orchestrator.py:393`: forecast.json says `submitted` before the forecast is posted,
   and the publisher copies it; a refused or timed-out forecast stays in the library as a
   "real submission" (001_schema.sql:132).

Other places where the code does less than a comment says, or something a reader may not
expect, met while modelling. No run is about them; the models follow the code.

*Run and attempt.* `orchestrator.py:534`: when the forced first listing fails, explicit
questions keep the last rank for the whole run; `UrgentFirst` speaks of questions that a
listing has ranked. `metaculus_client.py:275`: a listing asks for the first 50 questions
and no further page.

*LLM calls.* `provider.py:1312`: `gate_for` creates a gate without a lock, so a thread and
a task may make two; `OneLoopSpacesEndpoint` is about the event loop alone.
`provider.py:1271`: a penalty does not push back callers that sleep to slots already
reserved. `client.py:68`: ladders sleep for rate slots while they hold a permit, which the
comment at 63 means to avoid. `cost_manager.py:533`, `:568`: free quota calls are refused
at their end after a paid output overrun, and paid calls start without a look at the
output limit. `sync_chat` and the resolution scraper record no failure.

*Scraping.* `firecrawl_scrape.py:339`, `:301`, `:128`: the cap can be overrun by the
top-ups of all scrapes in flight; a request that got no answer in time is refunded though
it may be billed; the released reserve stays released for the retry. `:326`: a 2xx answer
whose error text mentions 403 disables Firecrawl for the process. `fetch.py:192`: a second
fetch of a URL gets the thin text of a rung while the first is still climbing.
`scrape_cycles.py:419`: a place in a group is kept by the group's *name*; two groups of
one name share it, and pages are skipped. `scrape_resolution_sources` returns without
calling `on_summary` when there is no URL or no section. A full-length part of a
resolution page loses its tail to the part's header, though the docstring says no portion
is dropped unseen.

*Research.* `query_maker.py`: a plan that failed after its only waiter was cancelled stays
cached, though "A failed plan must not be cached"; `FailureIsNotKept` therefore speaks of
failures that somebody was given. When the hard limit or a cancellation comes before the
web search, the early explorer waits up to 600 s and then explores for a finished run.
When the refresh of the check fails, the trace names an `artifact_check:v2` that was never
written (`pipeline.py` about 703). A section whose own text contains "research
unavailable" is dropped. `source_explorer.py:309`: links cut from a result are never
listed again; `_trim` counts results it has already shortened. `series_reduce.py:454`:
`value < median * OUTAGE_FRACTION` holds of the median itself when it is negative, so a
steady negative series keeps only the rows before its window fills, where the docstring
speaks of ingestion failures. `BelowZeroIsLost` states that, as `ShiftIsAccepted` states
what holds from zero on; a repair of the line would break the former and show itself.
`series_gate.py:78` says that "Panel data must NOT be reduced as if it were one series".
The reader mixes entities all the same when the table is JSON by columns or a list of
pairs (`:224`, `:264`: no entity column is looked for), when the column of the entities is
numeric (`:463`), when the first 2000 rows are of one entity, show no repeated day or show
more entities than a third of their number (`:457`, `:469`). `EntitiesAreNotMixed` says
what remains: examined formats, a named column and a sample that shows the entities.

*Brief and forecast.* `compiler.py:1092`: a line of more than 20 values is a "squashed
table" (`:1030`) and is never listed for the audit, however much of it the draft lost,
though the comment before it says that code lists the value-bearing lines that the draft
neither uses nor names; `LossIsListedOnce` says so too. The fallback's `brief:draft` reads
a `compiler_input` that may never have been written. Fitted sections can exceed the budget
that `_build_compiler_prompt` says they were fitted to. `binary.py` about 360: the
tiebreak call is not guarded, against the comment at `base.py:279`. `numeric.py:2842`: a
run that is flat beyond a *closed* bound is kept when its declaration agrees, and
`_standardize_cdf` then divides by zero. README.md:31 and :74 and `forecasting_bot.py:73`
say "median"; the code takes a weighted mean. Weights that add up to 100 leave the other
runs none.

*Library.* `publish_runs.py:377`: llm_calls rows of a first attempt with more calls stay
beside the second's, though `:10` says publishing the folder twice updates rather than
duplicates. An attempt that fails midway leaves a new research.md beside the old
forecast.json, and `begin_question` does not clear `trace/`. Questions that Metaculus
resolves again are never looked up again; as many failing lookups as `--max-checks` at the
head would starve all others (`OutcomeAssumption` excludes them).

## 6. Proofs

Every theorem holds for all values of the constants under the modules' named assumptions,
which are listed at the end of this section. The theorems state what the runs check; where
a checked property joins several parts, some parts have a theorem of their own
(`QuestionQueueProofs`, `SharedProofs`).

**QuestionQueueProofs**: `TypeCorrect`, `OnePlace`, `NothingLost`, `RunFitsTimeLimit`,
`OneRetry`, `WorkersBounded`, `QueueServed`, `QuestionsAccountedFor`, `UrgentAlwaysFirst`.
The type invariant needs `JobHeld` (a worker holds an item exactly while it forecasts) and
`LockHeld` (a listing worker holds the lock). The movement lemmas show that each step
moves questions in one of six ways (stay, arrive, cleared, taken, settled, requeued);
place, loss and retry are then proved kind by kind. `OnePlace` is inductive with
`KnownCovers` (what is queued, held or settled is in `known`, so an arriving question is
nowhere else); `OneRetry` with `AttemptsCounted`: the attempt an item carries is one more
than the starts while it waits and equal to them while it is held, and it is the second
exactly when the first failed, so that no item is left to start a third time;
`RunFitsTimeLimit` with `InTime`; `QueueServed` with the queue's finiteness and "no worker
before the queue is loaded". `UrgentAlwaysFirst` rests on `RankInv`: an item claims no
more urgency than its question has, nor does what a listing found; so no question that
waits under its true rank is more urgent than the one taken.

**PublishProofs, attempts**: `MetaculusAlwaysAgrees`, `OneForecastEach`. Neither property is
inductive, since a request outlives the attempt that sent it. `StoryInv` adds that what is
on the wire and what was answered agree with Metaculus (`RequestsAreTrue`,
`AnswersAreTrue`) and that each stage of an attempt implies what it has already seen
(`AttemptIsTrue`); a comment can then only be sent, by whichever attempt, after a forecast
was stored. `FirstInv` adds that all forecasts Metaculus took from earlier attempts came
late, after the next attempt had begun (`EarlierAreLate`).

**LlmCallsProofs**: `NothingEverLeaks`, `FewCompressionsNeverDeadlock`,
`RequestsAlwaysBounded`, `OutageMetOnce`. The first counts holders: every action adds or
removes its own call from the holders of a permit and of a stream slot. The second assumes
fewer compressions than stream slots: only a compression holds a slot while it waits for a
permit, so if no slot is free some ladder has a request open. The third says that one try
of a ladder call sends at most `Models * (Rungs + 1)` requests and one of a compression at
most `Models * Rungs`; it bounds what a call has sent by its place in the chain
(`SentInv`), which only ever moves on. The fourth counts, for a question with a mark, its
marks and its ladders in flight (`InFlight`): together they are at most the permits and
the threads, since a new ladder fails at once (`OutageInv`).

**SharedProofs, rate gate**: `GateTypeCorrect`, `SlotsAlwaysSpaced`,
`OneLoopSpacesEndpoint`, `PenaltyLasts`, `SlotsRespected`. `NextAtIsBehind` says that a
gate's next slot is an interval behind every slot reserved and not before its longest
penalty; both invariants follow. `OneGate` says that on one event loop nobody looks the
gate up while another task creates it.

**SharedProofs, Firecrawl budget**: `BudgetTypeCorrect`, `BooksAlwaysBalance`,
`ResolutionComesFirst`, `OverrunIsBounded`, `CreditsHeld`. The books are inductive:
charges and refunds add and remove one member of `Charged`. With them, the reserve that a
general scrape was checked against is a bound on the general charges. `OverrunBounded`
alone is not inductive; `OverrunToCome` is: what is spent, and the overage of the scrapes
in flight that may still be topped up, stay within the cap and `Slots` overages.

**SharedProofs, cost ledger**: `RowsAlwaysFollowTheCall`, `LimitsAlwaysHold`. `RowInv`
adds to the property the types, that a request not yet sent has left nothing in any
manager (`NothingBefore`) and what a call's phase says of its kind, its size and its
managers (`CallsFit`). `LimitInv` bounds the recorded input of each attempt: at most one
asking call is past its check (`OneGated`), and what the asking calls recorded, with that
one's expected input if it is in flight, leaves the tail its reserve (`ReserveIsKept`).
Recorded input is a sum over calls, of which a step changes one summand.

**SharedProofs, fetch ladder**: `OneFetchEach`, `BestPageAlwaysServed`. `ClaimsHold` says
that the key of a fetch that climbs, or has climbed, is claimed and that no two such
fetches have the same key. `KnowsBest` says that what a climbing fetch carries from rung
to rung is the longest text its rungs returned; what an ended fetch returned and cached is
stated by the parts of the property itself.

**ResearchProofs, query plans**: `PlansAlwaysShared`. With room for all prompts, a task
that has left the cache has failed (`OldPlansFailed`), because a cache that lacks the
prompt asked for is not full (`RoomForAnother`, by counting); and what somebody was given
as a failure is in the cache no longer (`FailureIsDropped`).

**ResearchProofs, pipeline**: `ResearchInvariant`, `BundleAlwaysFinal`. `ResearchInv`
holds what each await leaves behind: the tasks a stage has awaited are settled
(`AwaitedSettled`), the explorer's two starts exclude each other (`ExplorerInv`), the
section kept is that of the engine that gave hits, after which no other is asked, and an
engine found spent is not asked again (`ChosenInv`, `AskedInv`), and the verdict is about
the sections as they are (`VerdictIsFresh`). A bundle is final because by then everything
that could still write into it has been awaited.

**ResearchProofs, scrape cycles**: `CyclesAlwaysKeep`, and the refinement
`CyclesAreOnePass` (`ScrapeSpec => Section!Safety`: initial states map to initial states
and every step to a step of `SearchSection` or a stutter; the liveness half of `IsOnePass`
stays with TLC). `ScrapeInv` says that no page is in two cycles and that a batch is new
when it is scraped and old once its cycle is kept (`CyclesApart`), that a page has one
place in the ranking and a retry's ranking no page of the run before (`GroupsAreNew`), and
that a group's index separates the pages read of it from the others (`IndexMarksRead`),
but for groups of one name, which share it. What a cycle takes is a recursive function;
`IteratesExist` gives its values and the induction over its argument is on the least
counterexample.

**ResearchProofs, measured series**: `SeriesAlwaysFaithful`. The ladder's searches are
taken one by one (`EndpointIsFound`, `FrameIsFound`, `ClimbFinds`): each ends empty
exactly when none of its places holds a series, and a stub leads to a page or nowhere
(`LandsOnPage`). When every day of a sample has rows of two entities there are at most
half as many days as rows (`DaysAreHalf`, by two surjections), so the sample is a panel's
(`EntitiesAreSeen`). What is no panel is sorted by day (`SortedIsOneSeries`, from
`RisingLists`), and when more than half of a window is at one level its median is that
level, so that a row at it is an outage exactly below zero (`LevelIsMedian`, from
`MostIsMiddle`). `SeriesInv` only says which payload is reported from.

**PublishProofs, publisher**: `LibraryAlwaysConsistent`. The bot only makes files newer
and writes the record last (`RecordIsLast`, `BotMakesNewer`); so a publisher that read the
record before the files holds files at least as new (`HoldsTheFolder`) and has sent all of
them when it sends the row (`HasSent`). `LastPassSoFar` says that in the last pass, when
the bot is over and nothing on the disk changes any more, all folders behind the publisher
that it did not report are published as they are. A step of `RequestKinds` keeps the
library consistent whether it was applied or not, which is why a failed request needs no
case of its own.

**PublishProofs, outcomes**: `PassAlwaysScoresAll`. The pass pages through a view that
shrinks as it is scored, by an offset. `DueAhead` is what makes that safe: a row the pass
still owes a score is in the view, at a place beyond the offset. It is preserved because a
window's scored rows leave the view, and the offset moves only by those that stay
(`PlaceMoves`, `FullPage`).

**ReportProofs, forecast ensemble**: `RunsAlwaysCountedOnce`, `WeightsAlwaysFollow`,
`UsableRunsAlwaysDecide`. `NodesInv` says that a run has one final node exactly when it is
done, and beside it at most one of the model it was taken from; with the types
(`RunsTyped`) it gives `EnsembleInv`, whose last part (`ResultInv`) is that a result comes
after all runs have ended. What the result is then follows from how it is computed: the
usable runs, each once (`EnsembleSurvivors`), the shares of the model that answered, and a
bound for a weighted mean, an option and each step of a curve.

**NumericProofs**: `CurvesAlwaysKeepMass`, `SubmissionsAlwaysAccepted`. Neither is
inductive as it stands: a stage makes what it should if the stages before it handed it
what it needs. `CdfInv` says so stage by stage: the factors are those inferred
(`FactorsInferred`), the mixtures those built from them (`MixturesBuilt`), what is drawn
are curves, that is monotone and within the unit (`CurvesDrawn`), at least one is kept
(`SomeKept`), and the average has its tails (`Faithful`). The work is in the lemmas about
the operators, which hold for any input:

- *Units* (`InferredScaleLands`): a factor other than one is only returned when no centre
  was in the window and all are after it.
- *Guardrails* (`BuiltHolds`): folding, widening and merging keep the total weight. Each
  component folded goes to exactly one other, so the sum regroups; a loop that folds one
  at a time ends within the limit; a merge is a weighted mean of two centres, so it stays
  in any interval that holds both, and of two spreads, so it stays above the floor. The
  total must be positive, or a mean would be divided by nothing.
- *Repair* (`RepairHolds`, `GainedIsSeen`): the cell of a bin tiles with those of its
  neighbours, since a filled gap is split at one middle; the cumulated cells are monotone
  and complete at the end, and a bin gains mass only inside a gap that is filled.
- *Average* (`AggregateHolds`): a mean of monotone curves is one; for the shapes, the
  positions of a level rise with the level, so the levels reached rise with the position,
  and a step of the mean is at or after a step of some run.
- *Standardised curve* (`StandardizeHolds`): before the cap each step has its least mass.
  `CapMoreKeeps` is the invariant of the capping: what is left for the bins under the cap
  is at least what they hold, so scaling never takes a step below its minimum;
  `CappingEnds` says that the set of capped bins is stable after as many rounds as there
  are bins and is never all of them, because all at the cap hold more than the whole mass.
  This is where the cap's default matters: `InboundDefault` is at least 6 (it is 200).

What the properties allow for rounding is shown to suffice on every grid with at most as
many steps as the unit has parts.

**ReportProofs, compiler**: `CondensingAlwaysEndsClean`, `BriefAlwaysComplete`. `CompInv`
is four parts: `SectionsInv` (the resolution section last, nothing lost without its mark),
`QueueInv` (what is still to be condensed: no section of research is left out, and the
resolution source comes last), `JobsInv` (the chunks of a section being condensed cover
its text, in order) and `EndInv`. The lemmas are about the text: chunks of a text joined
are the text, a mark that a cut leaves is the only one, an omitted line that is no
squashed table has one first place, and the lines an audit is shown are divided by the
rank of a pair in the order of turns.

**ReportProofs, resolution scrape**: `ScrapeAlwaysAccounted`. Every piece of every source
is in one of the batches (`ScrapeCovers`), which holds for any list of texts and any input
limit; the invariant of the steps (`ScrapeInv`) is that summaries go on while there are
batches, and that every way out hands on the reserve and joins the history.

**ReportProofs, source explorer**: `ConversationAlwaysTrimmed`. One pass of the trimming
is a loop over messages whose invariant (`PassInv`) says that a message is as it was or
was long and is cut, that while the conversation is too long everything long behind is
cut, that a cut message has every long one before it cut, and that the running total is
that of the conversation but for one notice for each cut. Only the notices may exceed the
limit.

**ReportProofs, selections**: `CapsAlwaysFair`. `PoolInv`, place by place: a plan's query
at a place passed is in the pool, or the pool is full, and a later query is only in the
pool with every plan's first. The list of a plan is sorted (`SortedByPriority`) and each
query's first occurrence stays (`CapKeepsTheUrgent`). `SharingInv` says that what is
settled has been taken from the room; a pass settles everything that fits, so sharing ends
after at most as many passes as sections (`SharingEnds`), and what then remains is shared
in parts that add up but for rounding (`PartsAddUp`).

**DataLemmas**: sums over finite sets, the place of a number or of any element in an
order, stable sorts and their middle, recursive functions, joined and cut texts. The
theorem modules state induction with an operator parameter, which the provers cannot
instantiate; here it is the existence of a least counterexample instead: a nonempty set of
subsets of a finite set has a least member (`FiniteLeast`), and so has a nonempty set of
numbers (`LeastNumber`). The counterexamples to a claim form such a set, so if there is
one there is a least one. That is what the folds, the sums and the recursive functions of
the models are proved with.

**Only model-checked.** The liveness properties and the liveness half of `IsOnePass`,
which are out of the prover's reach: `AllCallsEnd`, `RunEnds`, `ReachesTheLibrary`,
`AllAreScoredInTheEnd`, `ResearchEnds`. Every invariant and every action property of the
passing runs has a theorem, or, where it joins several parts, the parts named above have.

**The assumptions**, and where the code has them. Finite sets of calls, prompts, scrapes,
questions and workers: what one run meets. Limits are natural numbers, and positive where
the code's default is and a zero would mean that nothing is ever asked
(`CountsAssumption`, `CreditsAssumption`, `TimesAssumption`, `SelectionsAssumption`).
`LedgerAssumption`: the reserve is part of the limit, as `reserved_input_tokens` is.
`EnginesAssumption`: engines are listed once. `RankingsAssumption`: a ranking is a list of
groups with their addresses. `SeriesAssumption`: what a page names is an address, the
first page is one too, hops, windows and samples are at least one, an outage is judged
against no more than a whole window (3 and 7 rows), and a payload that is read has the
rows the gate asks for. `EnsembleAssumption`: shares
are counted in parts that every number of runs divides, so that the mean is exact.
`CdfAssumption`: a question's range is not empty and its grid has no more steps than the
unit has parts; a usable list of values has as many probabilities, some positive; and
"nothing" is not itself a curve. A run's weight is positive: `run_weights` gives a run no
weight only where the shares of `FORECASTER_WEIGHTS` use up the whole and another model ran
beside them. That setting is excluded: if then no weighted run has mass on the grid,
`quantile_average_cdfs` divides the positions by a weight of zero (`numeric.py:2433`).
`OutcomeAssumption`: fewer questions have vanished than a pass may check.
`ReportsAssumption`: a report does not itself contain the omission mark, and a chunk is
longer than half the least target, or the chunks would not get shorter.
`ResolutionAssumption`: a summary's header is part of its overhead. `ExplorerAssumption`:
lengths and limits are numbers, at least one turn. `SelectionsAssumption`: a section has
text and a weight, since `fit_artifact_check_sections` drops the empty ones first, and the
pool takes at least the first of a plan.

## 7. Not modelled

PROJECT.json names every component with its status. Left out, with the reason:

- **Provider table, command line, configuration**: a static table, pure lookups, arguments
  and environment variables; they are the constants of the modules.
- **Site adapters, news and markets, public data APIs**: one call and one formatting each,
  no state between calls. Whatever they return or raise is an input of `FetchLadder` and
  `ResearchPipeline`.
- **apiagent-kit**: a TypeScript library that runs in a process of its own; what the bot
  sees of it is a provider that answers or fails (`AwaitAgent`).
- **Diagnostics, the reports of `model_scores.py` and `brief_loss_study.py`, score
  formulas**: read files, write a report.
- **Library schema, workflows**: declarations. The keys are `KeysAreThere`; the kill at a
  fixed time is in `QuestionQueue`, `QuestionAttempt` and `Publisher`.
- **Trace and artifacts** beyond `forecast.json` and the files that are published:
  append-only reports that nothing in the bot reads back.
- Within modelled components: prompts and wording; the parsers of streams and of HTML
  tables; the shape of probability densities, the diagnosis texts and the log lines of
  `numeric.py`, and those validators of `NumericDistribution` that the bot does not call;
  the statistics that `series_reduce.py` computes once its rows are chosen; the combined
  cost limit (off by default) and prices; the evidence checks of a precompression's
  answer; the page size of a tournament listing.
