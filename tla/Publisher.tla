----------------------------- MODULE Publisher -----------------------------
(***************************************************************************)
(* What a run leaves behind and how it reaches the forecast library.  The  *)
(* bot writes a question's files, renames its record into place last and   *)
(* then posts the forecast; an attempt that fails is made again into the   *)
(* same folder.  Beside it a watcher publishes every record that is new or *)
(* newer than the one it published (publish_runs.py --watch); when the bot *)
(* is over the watcher is killed and a last pass publishes everything and  *)
(* the run log.  A request that fails after its retries may have been      *)
(* applied all the same.                                                   *)
(***************************************************************************)
EXTENDS Naturals, Sequences, FiniteSets

CONSTANTS
  NumQuestions,   \* questions of the run, in the order of their folders
  AttemptsAt,       \* attempts at each question: a sequence
  CallsOf(_),     \* LLM calls recorded by attempt a
  MaxCalls,       \* the most calls of an attempt
  MaxFaults       \* bound: requests that fail for good

ASSUME PublisherAssumption == NumQuestions \in Nat \ {0}

VARIABLES
  bot,      \* question -> [at, attempt]: what its attempt does
  disk,     \* question -> file -> the attempt that wrote it, 0 none
  posted,   \* the questions whose forecast Metaculus took
  over,     \* the bot is over
  pub,      \* [who, q, at, seen, rec, files]: the publisher that runs
  done,     \* watch: question -> the version of the record it published
  runsDone, \* publish_files: the run's row is known to be written
  failed,   \* questions the last pass could not publish
  faults,   \* requests that failed for good
  blobs,    \* library, files: question -> file -> attempt
  runRow, row, calls, log   \* library, rows: runs, forecasts, llm_calls; run.log.gz

botVars == <<bot, disk, posted, over>>
libVars == <<blobs, runRow, row, calls, log>>
pubVars == <<botVars, libVars, pub, done, runsDone, failed, faults>>

Asked == 1..NumQuestions
Record == "forecast.json"
Files == {Record, "research.md", "runs.md"}

PublisherInit ==
  /\ bot = [q \in Asked |-> [at |-> "idle", attempt |-> 0]]
  /\ disk = [q \in Asked |-> [f \in Files |-> 0]]
  /\ posted = {} /\ over = FALSE
  /\ pub = [who |-> "watch", q |-> 1, at |-> "look", seen |-> 0, rec |-> 0, files |-> disk[1]]
  /\ done = [q \in Asked |-> 0] /\ runsDone = FALSE /\ failed = {} /\ faults = 0
  /\ blobs = disk /\ row = done /\ runRow = FALSE /\ log = FALSE
  /\ calls = [q \in Asked |-> [k \in 1..MaxCalls |-> 0]]

(***************************************************************************)
(* The bot: forecast_individual_question, and the retry of one that failed.*)
(***************************************************************************)
BeginAttempt(q) ==
  /\ ~over /\ bot[q].at = "idle" /\ bot[q].attempt < AttemptsAt[q]
  /\ bot' = [bot EXCEPT ![q] = [at |-> "research.md", attempt |-> @.attempt + 1]]
  /\ UNCHANGED <<disk, posted, over>>

\* As if the record were written before the files it belongs to.
AfterEarly(f) == CASE f = "research.md" -> Record [] f = Record -> "runs.md" [] OTHER -> "post"

\* The order of save_research, save_runs with the other files, save_forecast_json.
After(f) == CASE f = "research.md" -> "runs.md" [] f = "runs.md" -> Record [] OTHER -> "post"

Save(q) ==
  /\ ~over /\ bot[q].at \in Files
  /\ disk' = [disk EXCEPT ![q][bot[q].at] = bot[q].attempt]
  /\ bot' = [bot EXCEPT ![q].at = After(@)] /\ UNCHANGED <<posted, over>>

\* post_question_prediction.
PostForecast(q) ==
  /\ ~over /\ bot[q].at = "post"
  /\ posted' = posted \cup {q} /\ bot' = [bot EXCEPT ![q].at = "done"]
  /\ UNCHANGED <<disk, over>>

\* The attempt fails, is refused by Metaculus or runs out of time, wherever it is.
AttemptFails(q) ==
  /\ ~over /\ bot[q].at \in Files \cup {"post"}
  /\ bot' = [bot EXCEPT ![q].at = "idle"] /\ UNCHANGED <<disk, posted, over>>

\* The run ends, or the job's time does.
BotEnds == ~over /\ over' = TRUE /\ UNCHANGED <<bot, disk, posted>>

BotNext == (\E q \in Asked : BeginAttempt(q) \/ Save(q) \/ PostForecast(q) \/ AttemptFails(q)) \/ BotEnds

(***************************************************************************)
(* publish_files on one record.                                            *)
(***************************************************************************)
Q == pub.q
To(at) == pub' = [pub EXCEPT !.at = at]

\* The next folder; the watcher starts again after the last.
Advance ==
  pub' = [pub EXCEPT !.q = IF @ < NumQuestions THEN @ + 1 ELSE 1,
                     !.at = IF pub.who = "end" /\ Q = NumQuestions THEN "over" ELSE "look"]

\* As if the last pass passed over what the watcher has published.
LookOnce ==
  /\ pub.at = "look"
  /\ IF disk[Q][Record] \in {0, done[Q]} THEN Advance
     ELSE pub' = [pub EXCEPT !.at = "read", !.seen = disk[Q][Record]]
  /\ UNCHANGED <<done, runsDone, failed, faults, libVars>>

\* The version is read before the record (os.path.getmtime).
Look ==
  /\ pub.at = "look"
  /\ IF disk[Q][Record] = 0 \/ (pub.who = "watch" /\ done[Q] = disk[Q][Record]) THEN Advance
     ELSE pub' = [pub EXCEPT !.at = "read", !.seen = disk[Q][Record]]
  /\ UNCHANGED <<done, runsDone, failed, faults, libVars>>

ReadRecord == /\ pub.at = "read" /\ pub' = [pub EXCEPT !.at = "files", !.rec = disk[Q][Record]]
              /\ UNCHANGED <<done, runsDone, failed, faults, libVars>>

\* The record is read a second time as a file.
ReadFiles ==
  /\ pub.at = "files" /\ pub' = [pub EXCEPT !.at = Record, !.files = disk[Q]]
  /\ UNCHANGED <<done, runsDone, failed, faults, libVars>>

\* As if the rows went first.
AfterRequestRowFirst(at) ==
  CASE at = Record -> "runs" [] at = "runs" -> "row" [] at = "row" -> "research.md"
    [] at = "research.md" -> "runs.md" [] at = "runs.md" -> "log" [] at = "log" -> "calls"

\* The requests that publish one record, in order; the run log is the last pass's.
AfterRequest(at) ==
  CASE at = Record -> "research.md" [] at = "research.md" -> "runs.md" [] at = "runs.md" -> "log"
    [] at = "log" -> "runs" [] at = "runs" -> "row" [] at = "row" -> "calls"

\* As if the watcher left the run's row to the last pass.
SkipRequestAlways == pub.at \in {"log", "runs"} /\ (pub.who = "watch" \/ runsDone)

\* The run's log and row are sent once by publish_files, which the watcher calls per file.
SkipRequest == \/ pub.at = "log" /\ (pub.who = "watch" \/ runsDone)
               \/ pub.at = "runs" /\ runsDone

Apply ==
  /\ blobs' = IF pub.at \in Files THEN [blobs EXCEPT ![Q][pub.at] = pub.files[pub.at]] ELSE blobs
  /\ log' = (log \/ pub.at = "log")
  /\ runRow' = (runRow \/ pub.at = "runs")
  /\ row' = IF pub.at = "row" THEN [row EXCEPT ![Q] = pub.rec] ELSE row
  /\ calls' = IF pub.at = "calls"
              THEN [calls EXCEPT ![Q] = [k \in 1..MaxCalls |-> IF k <= CallsOf(pub.rec) THEN pub.rec ELSE @[k]]]
              ELSE calls

RequestKinds == Files \cup {"log", "runs", "row", "calls"}

\* All that was sent: the version that was looked at is done.
Published ==
  /\ Advance /\ runsDone' = (pub.who = "end")
  /\ done' = IF pub.who = "watch" THEN [done EXCEPT ![Q] = pub.seen] ELSE done

SendRequest ==
  /\ pub.at \in RequestKinds
  /\ IF SkipRequest THEN UNCHANGED libVars ELSE Apply
  /\ IF pub.at = "calls" THEN Published ELSE To(AfterRequest(pub.at)) /\ UNCHANGED <<done, runsDone>>
  /\ UNCHANGED <<failed, faults>>

\* As if a record were marked whether it was published or not.
RequestFailsMarked ==
  /\ pub.at \in RequestKinds /\ ~SkipRequest /\ faults < MaxFaults /\ faults' = faults + 1
  /\ Apply \/ UNCHANGED libVars
  /\ failed' = failed \cup {Q} /\ Published

\* _request gives up, applied or not: the record is left for the next pass of the watcher.
RequestFails ==
  /\ pub.at \in RequestKinds /\ ~SkipRequest /\ faults < MaxFaults /\ faults' = faults + 1
  /\ Apply \/ UNCHANGED libVars
  /\ failed' = IF pub.who = "end" THEN failed \cup {Q} ELSE failed
  /\ Advance /\ UNCHANGED <<done, runsDone>>

\* The bot's step is over: its trap kills the watcher, and the last pass starts.
LastPass ==
  /\ over /\ pub.who = "watch"
  /\ pub' = [pub EXCEPT !.who = "end", !.q = 1, !.at = "look"] /\ runsDone' = FALSE
  /\ UNCHANGED <<done, failed, faults, libVars>>

PublishStep == Look \/ ReadRecord \/ ReadFiles \/ SendRequest
PublisherNext ==
  \/ BotNext /\ UNCHANGED <<pub, done, runsDone, failed, faults, libVars>>
  \/ (PublishStep \/ RequestFails \/ LastPass) /\ UNCHANGED botVars

\* The watcher runs on, and the library does not fail for ever.
PublisherFairness == WF_pubVars(PublishStep /\ UNCHANGED botVars)

PublisherSpec == PublisherInit /\ [][PublisherNext]_pubVars /\ PublisherFairness

(***************************************************************************)
(* Properties.                                                             *)
(***************************************************************************)
\* "Files go up before rows, so a row never points at files that aren't there"
\* (publish_runs.py): all files of the question are stored, its record as new as the row.
FilesBeforeRows ==
  \A q \in Asked : row[q] # 0 =>
    (\A f \in Files : blobs[q][f] # 0) /\ blobs[q][Record] >= row[q]

\* The foreign keys: a forecast has its run, and a call its forecast.
KeysAreThere ==
  /\ \A q \in Asked : row[q] # 0 => runRow
  /\ \A q \in Asked, k \in 1..MaxCalls : calls[q][k] # 0 => row[q] # 0

\* What the last pass did not report as failed is published as it is on the disk,
\* with the run's log.
LastPassIsComplete ==
  pub.at = "over" =>
    \A q \in Asked : disk[q][Record] # 0 /\ q \notin failed =>
      blobs[q] = disk[q] /\ row[q] = disk[q][Record] /\ log

\* Every record reaches the library while the bot still runs, or the run ends first.
ReachesTheLibrary == <>[](over \/ \A q \in Asked : row[q] = disk[q][Record])

\* "Accuracy of real submissions" (001_schema.sql) counts the rows marked submitted:
\* one that is published at the end was taken by Metaculus.
SubmittedIsPosted == pub.at = "over" => \A q \in Asked : row[q] # 0 => q \in posted

\* The library is consistent whenever it is read, and complete when the run is over.
LibraryIsConsistent == FilesBeforeRows /\ KeysAreThere /\ LastPassIsComplete
=============================================================================
