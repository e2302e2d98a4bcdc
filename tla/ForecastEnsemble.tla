-------------------------- MODULE ForecastEnsemble --------------------------
(***************************************************************************)
(* One question's forecast: the ensemble of runs that                      *)
(* bot/forecasters/base.py makes in parallel (gather_forecast_runs) and    *)
(* the aggregation that binary.py, multiple_choice.py and numeric.py build *)
(* on the runs that survive.  A run is one call, one repair when its reply *)
(* is refused, and the same again on the backup model when a brief run is  *)
(* still unusable.  A reply is the number, the numbers or the rendering it *)
(* stands for; prompts and prose are left out.                             *)
(***************************************************************************)
EXTENDS Integers, Sequences, FiniteSets, Functions, Listings

CONSTANTS Pool,          \* FORECASTER_MODELS, a sequence
          HeteroModel,   \* HETEROGENEOUS_RUN_MODEL
          Backup,        \* FORECASTER_BACKUP_MODEL, or NoModel when it is empty
          NoModel,
          Unusable,      \* a reply the validator cannot read
          Specs,         \* FORECASTER_WEIGHTS: sequences of [model, share]
          Questions,     \* [kind, raw, n]: type, raw research given, num_runs
          Numbers,       \* percentages a binary reply may end with
          OptionNumbers, \* lists of numbers a multiple-choice reply may hold
          Renderings,    \* what a numeric reply may turn out to be
          Options,       \* number of options of a multiple-choice question
          Parts          \* a common multiple of 1..n: weights are exact

ASSUME EnsembleAssumption ==
  /\ \A q \in Questions : q.n \in Nat /\ \A c \in 1..q.n : Parts % c = 0
  /\ Parts \in Nat \ {0} /\ Options \in Nat \ {0}
  /\ \A s \in Specs : Len(s) \in Nat /\ DOMAIN s = 1..Len(s)
  /\ Numbers \subseteq Int /\ OptionNumbers \subseteq Seq(Int)

VARIABLES question, runs, nodes, result
vars == <<question, runs, nodes, result>>

Runs == DOMAIN runs
Spread == 30    \* SPREAD_THRESHOLD

-----------------------------------------------------------------------------
(* Models, prompts and weights.                                            *)

Swapped(q) == q.raw /\ q.n >= 2
ModelsForRuns(q) ==
  [i \in 1..q.n |-> IF Swapped(q) /\ i = q.n THEN HeteroModel
                    ELSE Pool[((i - 1) % Len(Pool)) + 1]]
ReadsRaw(q, i) == Swapped(q) /\ i = q.n

SumOver(S, f(_)) == SumFunctionOnSet([x \in S |-> f(x)], S)

\* Shares in hundredths; a bad entry is skipped and a later one overwrites.
ParseWeights(s) ==
  LET good    == {k \in DOMAIN s : s[k].share \in 1..100}
      last(m) == CHOOSE k \in good : /\ s[k].model = m
                                     /\ \A j \in good : s[j].model = m => j <= k
      shares  == [m \in {s[k].model : k \in good} |-> s[last(m)].share]
  IN  IF SumOver(DOMAIN shares, LAMBDA m : shares[m]) > 100 THEN << >> ELSE shares

\* Two variants: a share not divided among its runs, and shares of present
\* models not brought to a sum of one.
RunWeightsUndivided(models, s) ==
  LET shares == ParseWeights(s)
      others == {k \in DOMAIN models : models[k] \notin DOMAIN shares}
  IN  [unit |-> 100 * Parts,
       of |-> [k \in DOMAIN models |->
                 IF k \notin others THEN shares[models[k]] * Parts
                 ELSE (100 - SumOver(DOMAIN shares, LAMBDA m : shares[m]))
                        * (Parts \div Cardinality(others))]]
RunWeightsUnnormalised(models, s) ==
  LET shares == ParseWeights(s)
      count(m) == Cardinality({k \in DOMAIN models : models[k] = m})
  IN  IF \E k \in DOMAIN models : models[k] \notin DOMAIN shares
      THEN [unit |-> Parts, of |-> [k \in DOMAIN models |-> Parts \div Len(models)]]
      ELSE [unit |-> 100 * Parts,
            of |-> [k \in DOMAIN models |->
                      shares[models[k]] * (Parts \div count(models[k]))]]

\* [unit, of]: run k weighs of[k] / unit.
RunWeights(models, s) ==
  LET shares == ParseWeights(s)
      count(m) == Cardinality({k \in DOMAIN models : models[k] = m})
      named  == {m \in DOMAIN shares : count(m) > 0}
      others == {k \in DOMAIN models : models[k] \notin named}
      total  == SumOver(named, LAMBDA m : shares[m])
      mine(k) == shares[models[k]] * (Parts \div count(models[k]))
  IN  IF named = {}
      THEN [unit |-> Parts, of |-> [k \in DOMAIN models |-> Parts \div Len(models)]]
      ELSE IF others = {}
      THEN [unit |-> total * Parts, of |-> [k \in DOMAIN models |-> mine(k)]]
      ELSE [unit |-> 100 * Parts,
            of |-> [k \in DOMAIN models |->
                      IF k \in others
                      THEN (100 - total) * (Parts \div Cardinality(others))
                      ELSE mine(k)]]

-----------------------------------------------------------------------------
(* What a reply says.                                                      *)

Clamp(x, lo, hi) == IF x < lo THEN lo ELSE IF x > hi THEN hi ELSE x

\* A variant that takes the number as it stands.
ProbabilityUnclamped(r) == r
Probability(r) == Clamp(r, 1, 99)

LastNumbers(r) == SubSeq(r, IF Len(r) < Options THEN 1 ELSE Len(r) - Options + 1, Len(r))
SumSeq(s) == SumFunction(s)

\* A variant without the clamp.
McForecastUnclamped(r) == LastNumbers(r)
\* Numerators over their own sum, the clamp at 1% and 99% taken on s/total.
McForecast(r) ==
  LET x == LastNumbers(r)
      t == SumSeq(x)
      sgn == IF t < 0 THEN -1 ELSE 1
  IN  [k \in DOMAIN x |-> Clamp(100 * x[k] * sgn, t * sgn, 99 * t * sgn)]

\* A rendering under the unit scale the pipeline inferred ("inferred") or under
\* none ("plain"): it fails, or it keeps within or goes beyond the tolerance of
\* the run's own declared split; and it may be flat over the whole grid, which
\* the declaration may back.
CurveUsed(r) ==
  IF r.gap.inferred = "fails" THEN "none"
  ELSE IF ~r.declared \/ r.gap.inferred = "within" THEN "inferred"
  ELSE IF r.scaled /\ r.gap.plain = "within" THEN "plain"
  ELSE "none"
\* A variant that looks at the curve rendered first.
DegenerateOffGridFirst(r, c) == r.flat["inferred"] /\ ~(r.declared /\ r.backed)
DegenerateOffGrid(r, c) == r.flat[c] /\ ~(r.declared /\ r.backed)

Keeps(kind, r) ==
  kind = "numeric" => CurveUsed(r) # "none" /\ ~DegenerateOffGrid(r, CurveUsed(r))

\* The validator handed to gather_forecast_runs.
Valid(kind, r) ==
  /\ r # Unusable
  /\ kind = "mc" => Len(LastNumbers(r)) = Options /\ SumSeq(LastNumbers(r)) # 0

Replies(kind) == {Unusable} \cup (CASE kind = "binary"  -> Numbers
                                    [] kind = "mc"      -> OptionNumbers
                                    [] kind = "numeric" -> Renderings)

-----------------------------------------------------------------------------
NewRun(m, for) == [phase |-> "call", model |-> m, repaired |-> FALSE,
                   valid |-> FALSE, backupFor |-> for, reply |-> Unusable]
Pending == [status |-> "pending"]

Init ==
  /\ question \in Questions
  /\ runs = [i \in 1..question.n |-> NewRun(ModelsForRuns(question)[i], NoModel)]
  /\ nodes = {}
  /\ result = Pending

Node(i, r, final) == [run |-> i, model |-> r.model, backupFor |-> r.backupFor,
                      valid |-> r.valid, final |-> final]

\* Mutant: a second final node for a run that is redone.
FinishTwice(i, r) ==
  /\ nodes' = nodes \cup {Node(i, r, TRUE)}
  /\ runs' = [runs EXCEPT ![i] =
                IF ~r.valid /\ Backup # NoModel /\ ~ReadsRaw(question, i)
                     /\ r.backupFor = NoModel /\ r.model # Backup
                THEN NewRun(Backup, r.model) ELSE r]

\* The tail of one_run once an attempt has ended as r: redo it on the backup,
\* or emit the run's node.
Finish(i, r) ==
  IF ~r.valid /\ Backup # NoModel /\ ~ReadsRaw(question, i) /\ r.backupFor = NoModel
       /\ r.model # Backup
  THEN /\ runs' = [runs EXCEPT ![i] = NewRun(Backup, r.model)]
       /\ nodes' = nodes \cup {Node(i, r, FALSE)}
  ELSE /\ runs' = [runs EXCEPT ![i] = r]
       /\ nodes' = nodes \cup {Node(i, r, TRUE)}

CallFails(i) ==
  /\ runs[i].phase \in {"call", "repair"}
  /\ Finish(i, [runs[i] EXCEPT !.phase = "done", !.repaired = (runs[i].phase = "repair")])
  /\ UNCHANGED <<question, result>>

CallAnswers(i) ==
  /\ runs[i].phase \in {"call", "repair"}
  /\ \E r \in Replies(question.kind) :
       LET ok == Valid(question.kind, r) IN
       IF ~ok /\ runs[i].phase = "call"
       THEN /\ runs' = [runs EXCEPT ![i].phase = "repair"]
            /\ UNCHANGED nodes
       ELSE Finish(i, [runs[i] EXCEPT !.phase = "done", !.valid = ok,
                                      !.reply = IF ok THEN r ELSE Unusable,
                                      !.repaired = (runs[i].phase = "repair")])
  /\ UNCHANGED <<question, result>>

-----------------------------------------------------------------------------
(* The loop over the gathered runs and the aggregate, one step: no await.  *)

\* A variant that forgets the repaired runs.
KeptUnrepaired == Ascending({i \in Runs : /\ runs[i].valid /\ ~runs[i].repaired
                                          /\ Keeps(question.kind, runs[i].reply)})
\* A variant that collects the replies by model: the last one stands.
KeptByModel ==
  LET usable == {i \in Runs : runs[i].valid /\ Keeps(question.kind, runs[i].reply)}
  IN  Ascending({i \in usable : \A j \in usable : runs[j].model = runs[i].model => j <= i})
KeptRuns == Ascending({i \in Runs : runs[i].valid /\ Keeps(question.kind, runs[i].reply)})

Percents(kept) == [k \in DOMAIN kept |-> Probability(runs[kept[k]].reply)]
MaxGap(p) == CHOOSE d \in 0..100 : /\ \E j, k \in DOMAIN p : p[j] - p[k] = d
                                   /\ \A j, k \in DOMAIN p : p[j] - p[k] <= d
Mean(p, w) == SumOver(DOMAIN p, LAMBDA k : p[k] * w.of[k])

Outcome(spec) ==
  LET kept == KeptRuns
      w    == RunWeights([k \in DOMAIN kept |-> runs[kept[k]].model], spec)
      p    == Percents(kept)
      of(status) == [status |-> status, spec |-> spec, kept |-> kept, weights |-> w]
  IN  IF kept = << >>
      THEN [status |-> IF question.kind = "numeric" THEN "abstain" ELSE "default"]
      ELSE IF question.kind # "binary" THEN of("forecast")
      ELSE IF MaxGap(p) >= Spread THEN of("tiebreak")
      ELSE [status |-> "forecast", spec |-> spec, kept |-> kept, weights |-> w,
            value |-> Mean(p, w), scale |-> w.unit]

Aggregate ==
  /\ result = Pending
  /\ \A i \in Runs : runs[i].phase = "done"
  /\ \E spec \in Specs : result' = Outcome(spec)
  /\ UNCHANGED <<question, runs, nodes>>

Failed == [status |-> "error"]

\* The tiebreaker's reply replaces the mean; nothing validates or repairs it.
TiebreakAnswers ==
  /\ result.status = "tiebreak"
  /\ \E r \in Numbers \cup {Unusable} :
       result' = IF r = Unusable THEN Failed
                 ELSE [status |-> "tiebroken", spec |-> result.spec, kept |-> result.kept,
                       weights |-> result.weights, value |-> Probability(r), scale |-> 1]
  /\ UNCHANGED <<question, runs, nodes>>

TiebreakFails ==
  /\ result.status = "tiebreak"
  /\ result' = Failed
  /\ UNCHANGED <<question, runs, nodes>>

Next == \/ \E i \in Runs : CallFails(i) \/ CallAnswers(i)
        \/ Aggregate \/ TiebreakAnswers \/ TiebreakFails

Spec == Init /\ [][Next]_vars

-----------------------------------------------------------------------------
TypeOK ==
  /\ question \in Questions
  /\ \A i \in Runs : /\ runs[i].phase \in {"call", "repair", "done"}
                     /\ runs[i].repaired \in BOOLEAN /\ runs[i].valid \in BOOLEAN
                     /\ runs[i].valid => runs[i].reply \in Replies(question.kind)
  /\ result.status \in {"pending", "tiebreak", "tiebroken", "forecast",
                        "default", "abstain", "error"}
  /\ "value" \in DOMAIN result => result.value \in result.scale..(99 * result.scale)

\* A run that failed, was repaired and was redone on the backup is still one
\* run: it has one node that writes its forecast, under the model whose reply
\* enters the aggregate, and the attempt it replaced writes none.
CountedOnce ==
  \A i \in Runs :
    LET mine == {x \in nodes : x.run = i}
        last == {x \in mine : x.final}
    IN  /\ Cardinality(last) = (IF runs[i].phase = "done" THEN 1 ELSE 0)
        /\ Cardinality(mine \ last) <= 1
        /\ \A x \in mine \ last : ~x.valid /\ runs[i].backupFor = x.model
        /\ \A x \in last : x.model = runs[i].model /\ x.valid = runs[i].valid

\* Whatever runs survive, their weights are a partition of one; a model's runs
\* together get no more than its share unless only shared models are left, and
\* a backup does not inherit the share of the model it stands in for.
WeightsFollowTheModelThatRan ==
  "weights" \in DOMAIN result =>
    LET w == result.weights
        shares == ParseWeights(result.spec)
        M(k) == runs[result.kept[k]].model
        K == DOMAIN result.kept
    IN  /\ SumOver(K, LAMBDA k : w.of[k]) = w.unit
        /\ \A j, k \in K : M(j) = M(k) => w.of[j] = w.of[k]
        /\ (\E k \in K : M(k) \notin DOMAIN shares) =>
             \A m \in DOMAIN shares :
               100 * SumOver({k \in K : M(k) = m}, LAMBDA k : w.of[k])
                 \in {0, shares[m] * w.unit}

\* An averaged probability lies between the runs it averages.
ForecastWithinRuns ==
  (result.status = "forecast" /\ question.kind = "binary") =>
    LET p == Percents(result.kept) IN
    /\ \E k \in DOMAIN p : p[k] * result.scale <= result.value
    /\ \E k \in DOMAIN p : result.value <= p[k] * result.scale

\* A multiple-choice run that passed the validator is a distribution: every
\* option has a positive share, and none outranks one the run ranked above it
\* (a list with negative numbers ranks nothing).
OptionsAreADistribution ==
  ("kept" \in DOMAIN result /\ question.kind = "mc") =>
    \A j \in DOMAIN result.kept :
      LET r == runs[result.kept[j]].reply
          x == LastNumbers(r)
          f == McForecast(r)
      IN  /\ Len(f) = Options /\ \A k \in DOMAIN f : f[k] > 0
          /\ (\A k \in DOMAIN x : x[k] >= 0) =>
               \A a, b \in DOMAIN x : x[a] >= x[b] => f[a] >= f[b]

\* No curve that contradicts what its run declared is averaged, nor a flat one
\* the run does not claim: reverting the unit scale must have cured it.
AveragedCurvesAreWitnessed ==
  ("kept" \in DOMAIN result /\ question.kind = "numeric") =>
    \A j \in DOMAIN result.kept :
      LET r == runs[result.kept[j]].reply
          c == CurveUsed(r)
      IN  /\ c \in {"inferred", "plain"}
          /\ r.declared => r.gap[c] = "within"
          /\ r.flat[c] => r.declared /\ r.backed

\* Each run whose forecast the trace shows as valid is averaged, once, whatever it
\* took to get it (a repair, the backup, a model that others run too), unless its
\* curve was dropped; and no other run is.
AllSurvivorsCount ==
  "kept" \in DOMAIN result =>
    \A i \in Runs :
      Cardinality({k \in DOMAIN result.kept : result.kept[k] = i}) =
        IF /\ \E x \in nodes : x.run = i /\ x.final /\ x.valid
           /\ Keeps(question.kind, runs[i].reply)
        THEN 1 ELSE 0

\* The default (50%, the uniform distribution) and the abstention stand in for
\* an ensemble with no usable run, never for one with a usable run.
DefaultOnlyWithoutSurvivors ==
  result.status \in {"default", "abstain"} =>
    /\ \A i \in Runs : runs[i].valid => ~Keeps(question.kind, runs[i].reply)
    /\ result.status = "abstain" <=> question.kind = "numeric"

\* One unusable reply or failed call never costs a question its usable runs
\* (the promise of the comment on _one_run).
SurvivorsAreEnough == result.status # "error"

\* The aggregate is made of usable runs, of all of them, and of nothing else.
UsableRunsDecide ==
  /\ TypeOK /\ ForecastWithinRuns /\ OptionsAreADistribution
  /\ AveragedCurvesAreWitnessed /\ AllSurvivorsCount /\ DefaultOnlyWithoutSurvivors
=============================================================================
