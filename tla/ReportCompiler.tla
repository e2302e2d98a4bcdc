--------------------------- MODULE ReportCompiler ---------------------------
(***************************************************************************)
(* compile_research_report: the sections are fitted to the brief writer's  *)
(* input budget, a model writes the brief, a second call audits it, and    *)
(* whatever fails on the way, a deterministic brief stands in.  A section  *)
(* is a sequence of lines, a line the set of values it states; a label or  *)
(* a cut marker is the line Mark, so that every text says itself whether   *)
(* something may be missing from it.                                       *)
(***************************************************************************)
EXTENDS Integers, Sequences, SequencesExt, FiniteSets, Listings

CONSTANTS Reports,      \* what research may hand over: sections, as below
          Budget,       \* _COMPILER_INPUT_BUDGET_CHARS
          ChunkOff, ChunkQwen,  \* the input of one compression call
          CallsOff, CallsQwen,  \* how many compression calls there are
          MinTarget,    \* _PRECOMPRESS_MIN_TARGET_CHARS
          Concurrency,  \* SOCLAAS_PRECOMPRESS_CONCURRENCY
          AuditLines,   \* _AUDIT_MAX_LINES
          AuditValues   \* _AUDIT_MAX_VALUES

VARIABLES
  at,      \* start, fit, condense, write, audit, fallback; how it ended
  conf,    \* [mode, qwen, truncate]: the settings, fixed for a run
  input,   \* the prepared sections: [name |-> kind, text |-> lines]
  fitted,  \* the sections as fitted so far
  todo,    \* candidates for compression, in order
  cur,     \* the candidate that is being compressed
  jobs,    \* per chunk of it: [st, text]
  calls,   \* compression calls made
  draft,   \* [body, excluded]: the values the draft states and names
  brief,   \* what was returned: none, empty, heuristic, draft, revised
  docs,    \* the trace documents written
  source   \* the document the returned brief is said to come from

compVars == <<at, conf, input, fitted, todo, cur, jobs, calls, draft, brief,
              docs, source>>

Mark == {0}   \* values are positive
Kinds == {"plan", "resolution", "research"}
Lines == SUBSET Nat
Section == [name : Kinds, text : Seq(Lines)]

\* What research hands over states values only.  A chunk is longer than the least
\* that a chunk is condensed to.
ASSUME ReportsAssumption ==
  /\ Reports \subseteq Seq(Section)
  /\ \A r \in Reports : \A i \in DOMAIN r : Mark \notin Range(r[i].text)
  /\ Budget \in Nat /\ MinTarget \in Nat /\ AuditLines \in Nat /\ AuditValues \in Nat
  /\ CallsOff \in Nat /\ CallsQwen \in Nat /\ Concurrency \in Nat
  /\ ChunkOff \in Nat /\ ChunkOff > MinTarget \div 2 /\ ChunkQwen \in Nat \ {0}

CompilerEnds == {"done", "paused", "cancelled"}
Larger(a, b) == IF a >= b THEN a ELSE b
Smallest(a, b) == IF a <= b THEN a ELSE b
Total(ss) == SumFunction([i \in DOMAIN ss |-> Len(ss[i].text)])
NoDraft == [body |-> {}, excluded |-> {}]

CompilerInit ==
  /\ at = "start" /\ input = <<>> /\ fitted = <<>> /\ todo = <<>> /\ cur = 0
  /\ conf = [mode |-> "off", qwen |-> FALSE, truncate |-> FALSE]
  /\ jobs = <<>> /\ calls = 0 /\ draft = NoDraft /\ brief = "none"
  /\ docs = {} /\ source = "none"

(***************************************************************************)
(* _fit_sections_to_budget.                                                *)
(***************************************************************************)
Qwen == conf.mode # "off"
OverBudget == Total(fitted) > Budget
CallsLeft == (IF Qwen THEN CallsQwen ELSE CallsOff) - calls

\* Research first, the longest first (Python's sort keeps equals in order, the
\* reverse one too); resolution last, and only for the paid compression.
ByLength(ss, is) ==
  Ordered(is, {p \in is \X is : \/ Len(ss[p[1]].text) > Len(ss[p[2]].text)
                                \/ /\ Len(ss[p[1]].text) = Len(ss[p[2]].text)
                                   /\ p[1] < p[2]})

\* As if all sections were alike.
CandidatesAlike(ss, mode) == ByLength(ss, DOMAIN ss)

Candidates(ss, mode) ==
  LET Of(kinds) == ByLength(ss, {i \in DOMAIN ss : ss[i].name \in kinds})
  IN Of(Kinds \ {"resolution"}) \o (IF mode = "off" THEN Of({"resolution"}) ELSE <<>>)

\* Sections without text are dropped before anything else; no key for the
\* writer's endpoint means no model at all.
Prepare ==
  /\ at = "start"
  /\ \E r \in Reports, m \in {"off", "review", "experimental"}, q, t, key \in BOOLEAN :
       LET full == Ascending({i \in DOMAIN r : r[i].text # <<>>})
           ss == [n \in DOMAIN full |-> r[full[n]]] IN
       /\ conf' = [mode |-> m, qwen |-> q, truncate |-> t]
       /\ input' = ss /\ fitted' = ss /\ todo' = Candidates(ss, m)
       /\ at' = IF ss = <<>> THEN "done" ELSE IF key THEN "fit" ELSE "fallback"
       /\ brief' = IF ss = <<>> THEN "empty" ELSE "none"
  /\ UNCHANGED <<cur, jobs, calls, draft, docs, source>>

Chunks(text, n) ==
  [k \in 1..((Len(text) + n - 1) \div n) |->
     SubSeq(text, (k - 1) * n + 1, IF k * n < Len(text) THEN k * n ELSE Len(text))]

Target(text) == Larger(Larger(Len(text) - (Total(fitted) - Budget), Len(text) \div 4),
                       MinTarget)
ChunkTarget(text, n) == Larger(MinTarget \div 2, Target(text) \div n)

\* As if the first chunk were always worth a call.
AskedGreedily(chunks, target) ==
  {k \in DOMAIN chunks : Len(chunks[k]) > target}

\* The chunks that get a call: too long, and calls are left when their turn comes.
Asked(chunks, target) ==
  LET long == {k \in DOMAIN chunks : Len(chunks[k]) > target}
  IN {k \in long : Cardinality({j \in long : j < k}) < CallsLeft}

NextCandidate ==
  /\ at = "fit" /\ OverBudget /\ CallsLeft > 0 /\ todo # <<>>
  /\ todo' = Tail(todo) /\ cur' = Head(todo)
  /\ LET text == fitted[cur'].text
         chunks == Chunks(text, IF Qwen THEN ChunkQwen ELSE ChunkOff)
         asked == Asked(chunks, ChunkTarget(text, Len(chunks)))
     IN IF Target(text) >= Len(text) THEN UNCHANGED <<at, jobs, calls>>
        ELSE /\ at' = "condense"
             /\ jobs' = [k \in DOMAIN chunks |->
                           [st |-> IF k \in asked THEN "waits" ELSE "raw",
                            text |-> chunks[k]]]
             /\ calls' = calls + Cardinality(asked)
  /\ UNCHANGED <<conf, input, fitted, draft, brief, docs, source>>

Running == {k \in DOMAIN jobs : jobs[k].st = "runs"}
Waiting == {k \in DOMAIN jobs : jobs[k].st = "waits"}

\* One after the other for the paid compression, a few at a time on SoCLaaS.
StartChunk(k) ==
  /\ at = "condense" /\ k \in Waiting
  /\ \A j \in Waiting : j >= k
  /\ Cardinality(Running) < IF Qwen THEN Concurrency ELSE 1
  /\ jobs' = [jobs EXCEPT ![k].st = "runs"]
  /\ UNCHANGED <<at, conf, input, fitted, todo, cur, calls, draft, brief, docs, source>>

\* An answer keeps all lines or loses some, under a label either way; an
\* answer that was cut off, or is empty, is a failure.
Condensed(text) == {<<Mark>> \o text, <<Mark, Head(text)>>}

VisiblyCut(text, n) == IF n >= Len(text) THEN text ELSE Append(SubSeq(text, 1, n), Mark)

\* As if the failure were the brief's, not the chunk's: nothing is kept of it.
KeptLost(text) == <<>>

\* A chunk that failed is kept, or cut to its target for the paid compression.
KeptChunk(text) ==
  IF Qwen THEN text
  ELSE VisiblyCut(text, ChunkTarget(fitted[cur].text, Len(jobs)))

\* In review mode every outcome but an unforeseen error is a pause.
ChunkAnswers(k) ==
  /\ at = "condense" /\ k \in Running
  /\ \E st \in {"condensed", "failed", "limit", "paused"} :
       /\ st = "condensed" => conf.mode # "review"
       /\ st = "paused" => conf.mode = "review"
       /\ \E text \in CASE st = "condensed" -> Condensed(jobs[k].text)
                        [] st = "failed" -> {KeptChunk(jobs[k].text)}
                        [] OTHER -> {jobs[k].text} :
            jobs' = [jobs EXCEPT ![k] = [st |-> st, text |-> text]]
       /\ at' = IF st = "limit" /\ ~Qwen THEN "fallback" ELSE at
  /\ UNCHANGED <<conf, input, fitted, todo, cur, calls, draft, brief, docs, source>>


\* As if gather raised at once.
JoinAtOnce ==
  /\ at = "condense"
  /\ LET bad == {k \in DOMAIN jobs : jobs[k].st \in {"limit", "paused"}} IN
     \/ /\ bad # {} /\ at' = "fallback" /\ UNCHANGED fitted
     \/ /\ bad = {} /\ Running \cup Waiting = {} /\ at' = "fit"
        /\ fitted' = [fitted EXCEPT ![cur].text =
                        FlattenSeq([k \in DOMAIN jobs |-> jobs[k].text])]
  /\ UNCHANGED <<conf, input, todo, cur, jobs, calls, draft, brief, docs, source>>

\* All chunks have ended; the first limit or pause among them is raised.
JoinChunks ==
  /\ at = "condense" /\ Running \cup Waiting = {}
  /\ LET bad == {k \in DOMAIN jobs : jobs[k].st \in {"limit", "paused"}}
         first == CHOOSE k \in bad : \A j \in bad : k <= j
     IN IF bad # {}
        THEN /\ at' = IF jobs[first].st = "paused" THEN "paused" ELSE "fallback"
             /\ UNCHANGED fitted
        ELSE /\ at' = "fit"
             /\ fitted' = [fitted EXCEPT ![cur].text =
                             FlattenSeq([k \in DOMAIN jobs |-> jobs[k].text])]
  /\ UNCHANGED <<conf, input, todo, cur, jobs, calls, draft, brief, docs, source>>

\* As if the longest section were left out.
OverflowDrops ==
  LET i == CHOOSE i \in DOMAIN fitted : \A j \in DOMAIN fitted :
             Len(fitted[j].text) <= Len(fitted[i].text)
  IN RemoveAt(fitted, i)

\* The longest research section gives way, if there is one, with a marker.  The
\* experiment pauses instead unless it is told to cut.
Overflow ==
  LET research == {i \in DOMAIN fitted : fitted[i].name # "resolution"}
      i == CHOOSE i \in research : \A j \in research :
             \/ Len(fitted[j].text) < Len(fitted[i].text)
             \/ Len(fitted[j].text) = Len(fitted[i].text) /\ i <= j
      keep == Larger(MinTarget, Len(fitted[i].text) - (Total(fitted) - Budget))
  IN IF research = {} THEN fitted
     ELSE [fitted EXCEPT ![i].text = VisiblyCut(@, keep)]

\* As if the pause were for every mode (the failure of 46056).
FitPauses ==
  /\ at = "fit" /\ (~OverBudget \/ CallsLeft <= 0 \/ todo = <<>>)
  /\ at' = IF OverBudget /\ Qwen /\ ~conf.truncate THEN "paused" ELSE "write"
  /\ UNCHANGED <<conf, input, fitted, todo, cur, jobs, calls, draft, brief, docs, source>>

FitEnds ==
  /\ at = "fit" /\ (~OverBudget \/ CallsLeft <= 0 \/ todo = <<>>)
  /\ IF OverBudget /\ Qwen /\ ~conf.truncate
     THEN /\ at' = IF conf.mode = "review" THEN "paused" ELSE "fallback"
          /\ UNCHANGED <<fitted, docs>>
     ELSE /\ at' = "write" /\ docs' = docs \cup {"compiler_input"}
          /\ fitted' = IF OverBudget THEN Overflow ELSE fitted
  /\ UNCHANGED <<conf, input, todo, cur, jobs, calls, draft, brief, source>>

(***************************************************************************)
(* The brief, its audit, and the deterministic brief.                      *)
(***************************************************************************)
Given == (UNION {UNION Range(fitted[i].text) : i \in DOMAIN fitted}) \ Mark

\* The brief states some values and names some more as left out.  An empty brief
\* or any failure falls back; one that was cut off gets a notice and is used.
WriteBrief ==
  /\ at = "write"
  /\ \/ \E body \in SUBSET Given : \E excluded \in SUBSET (Given \ body) :
          /\ draft' = [body |-> body, excluded |-> excluded]
          /\ IF conf.qwen
             THEN /\ at' = "audit" /\ docs' = docs \cup {"brief:pre-audit"}
                  /\ UNCHANGED <<brief, source>>
             ELSE /\ at' = "done" /\ docs' = docs \cup {"brief:draft"}
                  /\ brief' = "draft" /\ source' = "compiler_input"
     \/ at' = "fallback" /\ UNCHANGED <<draft, docs, brief, source>>
  /\ UNCHANGED <<conf, input, fitted, todo, cur, jobs, calls>>

\* brief_state: kept, changed, dropped with a reason or silently.  A line whose
\* host is named counts as named.
DroppedSilently(key) == key \cap draft.body = {} /\ ~(key \subseteq draft.excluded)

\* missing_value_lines: each fact once, under the first section that states it;
\* the plan states requests, and hides no fact.
Evidence == {i \in DOMAIN fitted : fitted[i].name # "plan"}
StatedBefore(among, i, k) ==
  \E j \in among, m \in 1..Total(fitted) :
    /\ m \in DOMAIN fitted[j].text /\ fitted[j].text[m] = fitted[i].text[k]
    /\ (j < i \/ (j = i /\ m < k))

\* As if the limit were reached one value early.
SquashedAtLimit(line) == Cardinality(line) >= AuditValues

\* A line of that many values is a squashed table, not a claim.
Squashed(line) == Cardinality(line) > AuditValues

LostLines(among, i) ==
  LET text == fitted[i].text
      lost == Ascending({k \in DOMAIN text : /\ text[k] # Mark /\ ~Squashed(text[k])
                                           /\ DroppedSilently(text[k])
                                           /\ ~StatedBefore(among, i, k)})
  IN IF i \in Evidence THEN [n \in DOMAIN lost |-> text[lost[n]]] ELSE <<>>

\* As if the plan were read for its facts too.
LostBesidePlan(i) == LostLines(DOMAIN fitted, i)

Lost(i) == LostLines(Evidence, i)

\* As if the list were simply cut at its limit.
SharesFirstCome(lens) ==
  LET Before(i) == SumFunctionOnSet(lens, 1..(i - 1))
      Left(i) == IF Before(i) >= AuditLines THEN 0 ELSE AuditLines - Before(i)
  IN [i \in DOMAIN lens |-> Smallest(lens[i], Left(i))]

\* One line of every section in turn until the limit is reached: the n-th line of
\* section i comes after the earlier sections' n-th and all earlier turns.
Shares(lens) ==
  LET Before(i, n) == SumFunction([j \in DOMAIN lens |->
                        Smallest(lens[j], IF j < i THEN n ELSE n - 1)])
  IN [i \in DOMAIN lens |-> Cardinality({n \in 1..lens[i] : Before(i, n) < AuditLines})]

Lens == [i \in DOMAIN fitted |-> Len(Lost(i))]

Return(what, from) == /\ brief' = what /\ source' = from
                      /\ docs' = docs \cup {"brief:draft"} /\ at' = "done"

\* A revision replaces the draft when it is whole, has the required headings and
\* most of the length; whatever fails, a refused budget too, the draft stands.
Audit ==
  /\ at = "audit"
  /\ \/ SumFunction(Lens) > 0 /\ Return("revised", "brief:audited")
     \/ Return("draft", "brief:pre-audit")
  /\ UNCHANGED <<conf, input, fitted, todo, cur, jobs, calls, draft>>

\* The deterministic brief is made from the sections before they were fitted.
FallbackReport ==
  /\ at = "fallback" /\ Return("heuristic", "compiler_input")
  /\ UNCHANGED <<conf, input, fitted, todo, cur, jobs, calls, draft>>

\* The question's time-out; gather cancels its chunks with it.
CancelCompile ==
  /\ at \notin CompilerEnds \cup {"start"} /\ at' = "cancelled"
  /\ jobs' = [k \in DOMAIN jobs |-> IF jobs[k].st \in {"waits", "runs"}
                                    THEN [jobs[k] EXCEPT !.st = "cancelled"] ELSE jobs[k]]
  /\ UNCHANGED <<conf, input, fitted, todo, cur, calls, draft, brief, docs, source>>

CompileStep == \/ NextCandidate \/ FitEnds \/ WriteBrief \/ Audit \/ FallbackReport
               \/ JoinChunks \/ \E k \in DOMAIN jobs : StartChunk(k) \/ ChunkAnswers(k)
CompilerNext == Prepare \/ CompileStep \/ CancelCompile
\* Every request has its time-out.
CompilerFairness == WF_compVars(CompileStep)
CompilerSpec == CompilerInit /\ [][CompilerNext]_compVars /\ CompilerFairness

(***************************************************************************)
(* Properties.                                                             *)
(***************************************************************************)
\* The types of the variables.
CompilerTypeOK ==
  /\ at \in CompilerEnds \cup {"start", "fit", "condense", "write", "audit", "fallback"}
  /\ conf \in [mode : {"off", "review", "experimental"}, qwen : BOOLEAN, truncate : BOOLEAN]
  /\ \A ss \in {input, fitted} : \A i \in DOMAIN ss :
       ss[i].name \in Kinds /\ ss[i].text \in Seq(Range(ss[i].text))
  /\ DOMAIN fitted = DOMAIN input /\ Range(todo) \subseteq DOMAIN fitted
  /\ cur \in {0} \cup DOMAIN fitted /\ calls \in Nat
  /\ \A k \in DOMAIN jobs : jobs[k].st \in {"raw", "waits", "runs", "condensed", "failed",
                                            "limit", "paused", "cancelled"}
  /\ brief \in {"none", "empty", "heuristic", "draft", "revised"}
  /\ docs \subseteq {"compiler_input", "brief:pre-audit", "brief:draft"}

\* A line the research had is in the writer's input, or the section says that
\* something is missing: a label or a marker (_fit_sections_to_budget).
NoSilentLoss ==
  \A i \in DOMAIN input :
    Range(input[i].text) \subseteq Range(fitted[i].text) \/ Mark \in Range(fitted[i].text)

\* Material of the resolution source is condensed only when no research section
\* is left to condense, and never by the experiment.
ResolutionIsLast ==
  \A i \in DOMAIN input :
    input[i].name = "resolution" /\ fitted[i] # input[i] =>
      /\ ~Qwen
      /\ \A j \in DOMAIN input : \/ input[j].name = "resolution" \/ fitted[j] # input[j]
                                 \/ Len(input[j].text) <= MinTarget

\* A compression that is given up leaves no other one streaming (the note at
\* return_exceptions, 46056).
NoStreamIsOrphaned == at # "condense" => Running = {}

\* Compression calls are bounded over all sections, and a report that fits pays
\* for none.
CallsBounded ==
  /\ calls <= IF Qwen THEN CallsQwen ELSE CallsOff
  /\ Total(input) <= Budget => calls = 0 /\ fitted = input

\* Only review mode pauses, and a compilation that is done has a brief to return ("a
\* question is never lost to the compile step").
OnlyReviewPauses == /\ at = "paused" => conf.mode = "review"
                    /\ at = "done" => brief # "none"

\* Every line of evidence the draft neither states nor names is listed for the
\* audit, once; a line of more than AuditValues values is taken for a squashed table
\* and is not listed, however much of it the draft lost.
LossIsListedOnce ==
  at = "audit" =>
    \A i \in Evidence : \A k \in DOMAIN fitted[i].text :
      LET line == fitted[i].text[k]
          listed == {p \in (DOMAIN fitted) \X (1..Total(fitted)) :
                       p[2] \in DOMAIN Lost(p[1]) /\ Lost(p[1])[p[2]] = line}
      IN line # Mark /\ DroppedSilently(line) =>
           Cardinality(listed) = IF Cardinality(line) > AuditValues THEN 0 ELSE 1

\* The limit on that list is used up and never falls on the last sections alone.
AuditIsFair ==
  at = "audit" =>
    LET take == Shares(Lens) IN
    /\ SumFunction(take) = Smallest(AuditLines, SumFunction(Lens))
    /\ \A i, j \in DOMAIN Lens : take[i] < Lens[i] => take[j] <= take[i] + 1

\* The brief is written from all that was found: a loss is marked, falls on the
\* resolution source last, and comes before the audit, which treats sections alike.
BriefIsComplete ==
  CompilerTypeOK /\ NoSilentLoss /\ ResolutionIsLast /\ LossIsListedOnce /\ AuditIsFair

\* Condensing is bounded and, however it ends, leaves nothing behind and no way but
\* the review's to stop.
CondensingEndsClean == NoStreamIsOrphaned /\ CallsBounded /\ OnlyReviewPauses
=============================================================================
