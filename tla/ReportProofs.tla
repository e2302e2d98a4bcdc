---------------------------- MODULE ReportProofs ----------------------------
(***************************************************************************)
(* Proofs about the forecast of a question, the report behind it, and what *)
(* that report is written from: the resolution pages, the explorer and the *)
(* selections.                                                             *)
(***************************************************************************)
EXTENDS ForecastEnsemble, ReportCompiler, ResolutionScrape, SourceExplorer, Selections,
        DataLemmas

(***************************************************************************)
(* ForecastEnsemble: the nodes of a run.  A run that ended has the final   *)
(* node of what it ended as, a run that was redone the node of what it     *)
(* replaced; and only the backup replaces.                                 *)
(***************************************************************************)
RunShape(r) ==
  /\ DOMAIN r = {"phase", "model", "repaired", "valid", "backupFor", "reply"}
  /\ r.phase \in {"call", "repair", "done"} /\ r.valid \in BOOLEAN /\ r.repaired \in BOOLEAN

FinalOf(i) == {x \in nodes : x.run = i /\ x.final}
ReplacedOf(i) == {x \in nodes : x.run = i /\ ~x.final}
\* The node of the attempt that the backup was called for.
Replaced(i) == [run |-> i, model |-> runs[i].backupFor, backupFor |-> NoModel,
                valid |-> FALSE, final |-> FALSE]

NodesInv ==
  /\ runs = [i \in Runs |-> runs[i]]
  /\ \A i \in Runs :
       /\ RunShape(runs[i])
       /\ FinalOf(i) = IF runs[i].phase = "done" THEN {Node(i, runs[i], TRUE)} ELSE {}
       /\ ReplacedOf(i) \subseteq {Replaced(i)}
       /\ ReplacedOf(i) # {} => runs[i].model = Backup

\* Before the first answer there is no node.
LEMMA NodesInitial == Init => NodesInv
<1> SUFFICES ASSUME Init PROVE NodesInv OBVIOUS
<1>1. nodes = {} /\ runs = [i \in 1..question.n |-> NewRun(ModelsForRuns(question)[i], NoModel)]
  BY DEF Init
<1>2. ASSUME NEW i \in Runs PROVE RunShape(runs[i]) /\ runs[i].phase = "call"
  <2>1. runs[i] = NewRun(ModelsForRuns(question)[i], NoModel) BY <1>1 DEF Runs
  <2> QED BY <2>1 DEF NewRun, RunShape
<1> QED BY <1>1, <1>2 DEF NodesInv, FinalOf, ReplacedOf, Runs

\* An attempt that failed is still a run, of the same model.
LEMMA AttemptFailed ==
  ASSUME NEW r, RunShape(r), NEW redone, redone \in BOOLEAN, NEW q,
         q = [r EXCEPT !.phase = "done", !.repaired = redone]
  PROVE  RunShape(q) /\ q.phase = "done" /\ q.model = r.model /\ q.backupFor = r.backupFor
<1>0. DOMAIN r = {"phase", "model", "repaired", "valid", "backupFor", "reply"} BY DEF RunShape
<1>1. DOMAIN q = DOMAIN r OBVIOUS
<1>2. q.phase = "done" /\ q.model = r.model /\ q.backupFor = r.backupFor BY <1>0
<1>3. q.repaired = redone BY <1>0
<1>4. q.valid = r.valid BY <1>0
<1>5. q.valid \in BOOLEAN /\ q.repaired \in BOOLEAN BY <1>3, <1>4 DEF RunShape
<1> QED BY <1>0, <1>1, <1>2, <1>5 DEF RunShape

\* The end of an attempt keeps the account.
LEMMA FinishKeeps ==
  ASSUME NodesInv, NEW i \in Runs, runs[i].phase # "done", NEW r, RunShape(r), r.phase = "done",
         r.model = runs[i].model, r.backupFor = runs[i].backupFor, Finish(i, r)
  PROVE  NodesInv'
<1>0. /\ runs = [j \in Runs |-> runs[j]] /\ RunShape(runs[i]) /\ FinalOf(i) = {}
      /\ ReplacedOf(i) \subseteq {Replaced(i)} /\ (ReplacedOf(i) # {} => runs[i].model = Backup)
  BY DEF NodesInv
<1>1. \E q : \E final \in BOOLEAN :
        /\ runs' = [runs EXCEPT ![i] = q]
        /\ nodes' = nodes \cup {Node(i, r, final)}
        /\ final => q = r
        /\ ~final => q = NewRun(Backup, r.model) /\ r.valid = FALSE /\ r.backupFor = NoModel
                     /\ r.model # Backup
  <2>1. CASE ~r.valid /\ Backup # NoModel /\ ~ReadsRaw(question, i) /\ r.backupFor = NoModel
               /\ r.model # Backup
    <3>1. runs' = [runs EXCEPT ![i] = NewRun(Backup, r.model)] /\ nodes' = nodes \cup {Node(i, r, FALSE)}
      BY <2>1 DEF Finish
    <3>2. r.valid = FALSE BY <2>1 DEF RunShape
    <3> DEFINE k == NewRun(Backup, r.model)
    <3>3. /\ runs' = [runs EXCEPT ![i] = k] /\ nodes' = nodes \cup {Node(i, r, FALSE)}
          /\ k = NewRun(Backup, r.model) /\ r.valid = FALSE /\ r.backupFor = NoModel
          /\ r.model # Backup
      BY <2>1, <3>1, <3>2
    <3> HIDE DEF k
    <3> QED BY <3>3
  <2>2. CASE ~(~r.valid /\ Backup # NoModel /\ ~ReadsRaw(question, i) /\ r.backupFor = NoModel
               /\ r.model # Backup)
    <3>1. runs' = [runs EXCEPT ![i] = r] /\ nodes' = nodes \cup {Node(i, r, TRUE)}
      BY <2>2 DEF Finish
    <3> QED BY <3>1
  <2> QED BY <2>1, <2>2
<1> PICK q : \E final \in BOOLEAN :
        /\ runs' = [runs EXCEPT ![i] = q]
        /\ nodes' = nodes \cup {Node(i, r, final)}
        /\ final => q = r
        /\ ~final => q = NewRun(Backup, r.model) /\ r.valid = FALSE /\ r.backupFor = NoModel
                     /\ r.model # Backup
  BY <1>1
<1>2. PICK final \in BOOLEAN :
        /\ runs' = [runs EXCEPT ![i] = q]
        /\ nodes' = nodes \cup {Node(i, r, final)}
        /\ final => q = r
        /\ ~final => q = NewRun(Backup, r.model) /\ r.valid = FALSE /\ r.backupFor = NoModel
                     /\ r.model # Backup
  OBVIOUS
<1>3. /\ Runs' = Runs /\ runs'[i] = q /\ \A j \in Runs : j # i => runs'[j] = runs[j]
      /\ runs' = [j \in Runs' |-> runs'[j]]
  BY <1>0, <1>2 DEF Runs
<1>4. Node(i, r, final).run = i /\ Node(i, r, final).final = final BY DEF Node
<1>5. ASSUME NEW j \in Runs, j # i
      PROVE  /\ RunShape(runs'[j])
             /\ FinalOf(j)' = IF runs'[j].phase = "done" THEN {Node(j, runs'[j], TRUE)} ELSE {}
             /\ ReplacedOf(j)' \subseteq {Replaced(j)'}
             /\ ReplacedOf(j)' # {} => runs'[j].model = Backup
  <2>1. FinalOf(j)' = FinalOf(j) /\ ReplacedOf(j)' = ReplacedOf(j)
    BY <1>2, <1>4, <1>5 DEF FinalOf, ReplacedOf
  <2>2. runs'[j] = runs[j] /\ Replaced(j)' = Replaced(j) BY <1>3, <1>5 DEF Replaced
  <2> QED BY <2>1, <2>2 DEF NodesInv
<1>6. CASE final
  <2>1. q = r /\ runs'[i] = r BY <1>2, <1>3, <1>6
  <2>2. FinalOf(i)' = {Node(i, r, TRUE)}
    <3>1. FinalOf(i)' = FinalOf(i) \cup {Node(i, r, TRUE)} BY <1>2, <1>4, <1>6 DEF FinalOf
    <3> QED BY <1>0, <3>1
  <2>3. ReplacedOf(i)' = ReplacedOf(i) BY <1>2, <1>4, <1>6 DEF ReplacedOf
  <2>4. Replaced(i)' = Replaced(i) BY <2>1 DEF Replaced
  <2>5. /\ RunShape(runs'[i])
        /\ FinalOf(i)' = IF runs'[i].phase = "done" THEN {Node(i, runs'[i], TRUE)} ELSE {}
        /\ ReplacedOf(i)' \subseteq {Replaced(i)'}
        /\ ReplacedOf(i)' # {} => runs'[i].model = Backup
    BY <1>0, <2>1, <2>2, <2>3, <2>4
  <2> QED BY <1>3, <1>5, <2>5 DEF NodesInv
<1>7. CASE ~final
  <2>1. runs'[i] = NewRun(Backup, r.model) /\ r.valid = FALSE /\ r.backupFor = NoModel /\ r.model # Backup
    BY <1>2, <1>3, <1>7
  <2>2. runs'[i].phase = "call" /\ runs'[i].model = Backup /\ runs'[i].backupFor = r.model /\ RunShape(runs'[i])
    <3> DEFINE k == runs'[i]
    <3>1. k = [phase |-> "call", model |-> Backup, repaired |-> FALSE,
               valid |-> FALSE, backupFor |-> r.model, reply |-> Unusable]
      BY <2>1 DEF NewRun
    <3> HIDE DEF k
    <3>2. k.phase = "call" /\ k.model = Backup /\ k.backupFor = r.model /\ RunShape(k)
      BY <3>1 DEF RunShape
    <3> QED BY <3>2 DEF k
  <2>3. FinalOf(i)' = FinalOf(i) BY <1>2, <1>4, <1>7 DEF FinalOf
  <2>4. ReplacedOf(i) = {} BY <1>0, <2>1
  <2>5. ReplacedOf(i)' = {Node(i, r, FALSE)}
    <3>1. ReplacedOf(i)' = ReplacedOf(i) \cup {Node(i, r, FALSE)} BY <1>2, <1>4, <1>7 DEF ReplacedOf
    <3> QED BY <2>4, <3>1
  <2>6. Node(i, r, FALSE) = Replaced(i)' BY <2>1, <2>2 DEF Node, Replaced
  <2>7. /\ RunShape(runs'[i])
        /\ FinalOf(i)' = IF runs'[i].phase = "done" THEN {Node(i, runs'[i], TRUE)} ELSE {}
        /\ ReplacedOf(i)' \subseteq {Replaced(i)'}
        /\ ReplacedOf(i)' # {} => runs'[i].model = Backup
    BY <1>0, <2>2, <2>3, <2>5, <2>6
  <2> QED BY <1>3, <1>5, <2>7 DEF NodesInv
<1> QED BY <1>6, <1>7

\* An answer or a failure adds the node of its own run and of no other.
LEMMA NodesKept == NodesInv /\ [Next]_vars => NodesInv'
<1> SUFFICES ASSUME NodesInv, [Next]_vars PROVE NodesInv' OBVIOUS
<1>1. ASSUME UNCHANGED <<runs, nodes>> PROVE NodesInv'
  BY <1>1 DEF NodesInv, FinalOf, ReplacedOf, Replaced, Runs
<1>2. ASSUME NEW i \in Runs, CallFails(i) PROVE NodesInv'
  <2> DEFINE r == [runs[i] EXCEPT !.phase = "done", !.repaired = (runs[i].phase = "repair")]
  <2>1. runs[i].phase \in {"call", "repair"} /\ Finish(i, r) BY <1>2 DEF CallFails
  <2>2. RunShape(runs[i]) BY DEF NodesInv
  <2> DEFINE redone == runs[i].phase = "repair"
  <2>4. redone \in BOOLEAN OBVIOUS
  <2>5. r = [runs[i] EXCEPT !.phase = "done", !.repaired = redone] OBVIOUS
  <2> HIDE DEF r, redone
  <2>3. RunShape(r) /\ r.phase = "done" /\ r.model = runs[i].model /\ r.backupFor = runs[i].backupFor
    BY <2>2, <2>4, <2>5, AttemptFailed
  <2> QED BY <2>1, <2>3, FinishKeeps
<1>3. ASSUME NEW i \in Runs, CallAnswers(i) PROVE NodesInv'
  <2>0. RunShape(runs[i]) /\ runs[i].phase \in {"call", "repair"} BY <1>3 DEF NodesInv, CallAnswers
  <2>1. PICK reply \in Replies(question.kind) :
          LET ok == Valid(question.kind, reply) IN
          IF ~ok /\ runs[i].phase = "call"
          THEN /\ runs' = [runs EXCEPT ![i].phase = "repair"]
               /\ UNCHANGED nodes
          ELSE Finish(i, [runs[i] EXCEPT !.phase = "done", !.valid = ok,
                                         !.reply = IF ok THEN reply ELSE Unusable,
                                         !.repaired = (runs[i].phase = "repair")])
    BY <1>3 DEF CallAnswers
  <2> DEFINE ok == Valid(question.kind, reply)
  <2>2. CASE ~ok /\ runs[i].phase = "call"
    <3>1. runs' = [runs EXCEPT ![i].phase = "repair"] /\ nodes' = nodes BY <2>1, <2>2
    <3> DEFINE q == [runs[i] EXCEPT !.phase = "repair"]
    <3>2. RunShape(q) /\ q.phase = "repair" /\ q.model = runs[i].model /\ q.backupFor = runs[i].backupFor
      BY <2>0 DEF RunShape
    <3>3. runs = [j \in Runs |-> runs[j]] BY DEF NodesInv
    <3>4. /\ Runs' = Runs /\ runs'[i] = q /\ \A j \in Runs : j # i => runs'[j] = runs[j]
          /\ runs' = [j \in Runs' |-> runs'[j]]
      BY <3>1, <3>3 DEF Runs
    <3> HIDE DEF q
    <3>5. \A j : FinalOf(j)' = FinalOf(j) /\ ReplacedOf(j)' = ReplacedOf(j) BY <3>1 DEF FinalOf, ReplacedOf
    <3>6. \A j \in Runs : Replaced(j)' = Replaced(j) BY <3>2, <3>4 DEF Replaced
    <3>7. ASSUME NEW j \in Runs
          PROVE  /\ RunShape(runs'[j])
                 /\ FinalOf(j)' = IF runs'[j].phase = "done" THEN {Node(j, runs'[j], TRUE)} ELSE {}
                 /\ ReplacedOf(j)' \subseteq {Replaced(j)'}
                 /\ ReplacedOf(j)' # {} => runs'[j].model = Backup
      <4>1. CASE j = i BY <2>2, <3>2, <3>4, <3>5, <3>6, <4>1 DEF NodesInv
      <4>2. CASE j # i BY <3>4, <3>5, <3>6, <4>2 DEF NodesInv
      <4> QED BY <4>1, <4>2
    <3> QED BY <3>4, <3>7 DEF NodesInv
  <2>3. CASE ~(~ok /\ runs[i].phase = "call")
    <3> DEFINE r == [runs[i] EXCEPT !.phase = "done", !.valid = ok,
                                    !.reply = IF ok THEN reply ELSE Unusable,
                                    !.repaired = (runs[i].phase = "repair")]
    <3>1. Finish(i, r) BY <2>1, <2>3
    <3> DEFINE redone == runs[i].phase = "repair"
               read   == IF ok THEN reply ELSE Unusable
    <3>2. ok \in BOOLEAN /\ redone \in BOOLEAN BY DEF Valid
    <3>4. r = [runs[i] EXCEPT !.phase = "done", !.valid = ok, !.reply = read, !.repaired = redone]
      OBVIOUS
    <3> HIDE DEF ok, r, read, redone
    <3>3. RunShape(r) /\ r.phase = "done" /\ r.model = runs[i].model /\ r.backupFor = runs[i].backupFor
      <4> DEFINE first == runs[i]
      <4>1. RunShape(first) /\ ok \in BOOLEAN /\ redone \in BOOLEAN BY <2>0, <3>2
      <4>2. r = [first EXCEPT !.phase = "done", !.valid = ok, !.reply = read, !.repaired = redone]
        BY <3>4
      <4> HIDE DEF first
      <4>3. DOMAIN first = {"phase", "model", "repaired", "valid", "backupFor", "reply"}
        BY <4>1 DEF RunShape
      <4>4. DOMAIN r = DOMAIN first BY <4>2
      <4>5. r.phase = "done" /\ r.model = first.model /\ r.backupFor = first.backupFor BY <4>2, <4>3
      <4>6. r.repaired = redone BY <4>2, <4>3
      <4>7. r.valid = ok BY <4>2, <4>3
      <4>8. r.valid \in BOOLEAN /\ r.repaired \in BOOLEAN BY <4>1, <4>6, <4>7
      <4>9. RunShape(r) BY <4>3, <4>4, <4>5, <4>8 DEF RunShape
      <4> QED BY <4>5, <4>9 DEF first
    <3> QED BY <2>0, <3>1, <3>3, FinishKeeps
  <2> QED BY <2>2, <2>3
<1>4. ASSUME Aggregate \/ TiebreakAnswers \/ TiebreakFails PROVE UNCHANGED <<runs, nodes>>
  BY <1>4 DEF Aggregate, TiebreakAnswers, TiebreakFails
<1>5. ASSUME UNCHANGED vars PROVE UNCHANGED <<runs, nodes>> BY <1>5 DEF vars
<1> QED BY <1>1, <1>2, <1>3, <1>4, <1>5 DEF Next

\* However often a run failed, was repaired and was redone, one node writes its
\* forecast, under the model whose reply enters the aggregate.
THEOREM RunsAlwaysCountedOnce == Spec => []CountedOnce
<1>1. NodesInv => CountedOnce
  <2> SUFFICES ASSUME NodesInv, NEW i \in Runs
               PROVE  LET mine == {x \in nodes : x.run = i}
                          last == {x \in mine : x.final}
                      IN  /\ Cardinality(last) = (IF runs[i].phase = "done" THEN 1 ELSE 0)
                          /\ Cardinality(mine \ last) <= 1
                          /\ \A x \in mine \ last : ~x.valid /\ runs[i].backupFor = x.model
                          /\ \A x \in last : x.model = runs[i].model /\ x.valid = runs[i].valid
    BY DEF CountedOnce
  <2> DEFINE mine == {x \in nodes : x.run = i}
             last == {x \in mine : x.final}
  <2>1. last = FinalOf(i) /\ mine \ last = ReplacedOf(i) BY DEF FinalOf, ReplacedOf
  <2> HIDE DEF mine, last
  <2>2. /\ last = IF runs[i].phase = "done" THEN {Node(i, runs[i], TRUE)} ELSE {}
        /\ mine \ last \subseteq {Replaced(i)}
    BY <2>1 DEF NodesInv
  <2>3. Cardinality(last) = IF runs[i].phase = "done" THEN 1 ELSE 0 BY <2>2, FS_EmptySet, FS_Singleton
  <2>4. Cardinality(mine \ last) <= 1
    <3>1. IsFiniteSet({Replaced(i)}) /\ Cardinality({Replaced(i)}) = 1 BY FS_Singleton
    <3> DEFINE rest == mine \ last
    <3>2. rest \subseteq {Replaced(i)} BY <2>2
    <3> HIDE DEF rest
    <3>3. Cardinality(rest) <= 1 BY <3>1, <3>2, FS_Subset
    <3> QED BY <3>3 DEF rest
  <2>5. \A x \in mine \ last : ~x.valid /\ runs[i].backupFor = x.model
    <3>1. ~Replaced(i).valid /\ Replaced(i).model = runs[i].backupFor BY DEF Replaced
    <3> QED BY <2>2, <3>1
  <2>6. \A x \in last : x.model = runs[i].model /\ x.valid = runs[i].valid BY <2>2 DEF Node
  <2> QED BY <2>3, <2>4, <2>5, <2>6 DEF mine, last
<1> QED BY <1>1, NodesInitial, NodesKept, PTL DEF Spec

(***************************************************************************)
(* ForecastEnsemble: the weights.  Each share, divided among its model's   *)
(* runs, adds up to itself again, as does what the shares leave, divided   *)
(* among the other runs.                                                   *)
(***************************************************************************)
\* The runs of a model, of some models; and runs that share evenly.
Counted(cnt, models, named, n) ==
  \A m \in named : cnt[m] \in 1..n /\ cnt[m] = Cardinality(Members(1..n, models, m))
Divided(of, shares, cnt, models, named, n, P) ==
  \A k \in 1..n : models[k] \in named => of[k] = shares[models[k]] * (P \div cnt[models[k]])
AddUp(of, shares, models, named, n, P) ==
  /\ \A m \in named : SumFunctionOnSet(of, Members(1..n, models, m)) = P * shares[m]
  /\ \A k \in 1..n : models[k] \in named => of[k] \in Nat
  /\ (\A k \in 1..n : of[k] \in Int) =>
        SumFunctionOnSet(of, MembersOf(1..n, models, named)) = P * SumFunctionOnSet(shares, named)
Even(P, n) == \A c \in 1..n : P % c = 0

\* What is divided evenly adds up again.
LEMMA PartsDivide ==
  ASSUME NEW P \in Nat \ {0}, NEW c \in Nat \ {0}, P % c = 0
  PROVE  (P \div c) \in Nat /\ (P \div c) * c = P
OBVIOUS

\* The shares that count are numbers, and add up to a hundred at most.
LEMMA SharesAreSound ==
  ASSUME NEW s \in Specs
  PROVE  LET shares == ParseWeights(s)
         IN  /\ IsFiniteSet(DOMAIN shares)
             /\ \A m \in DOMAIN shares : shares[m] \in 1..100
             /\ SumFunctionOnSet(shares, DOMAIN shares) \in Nat
             /\ SumFunctionOnSet(shares, DOMAIN shares) <= 100
<1> DEFINE good == {k \in DOMAIN s : s[k].share \in 1..100}
           models == {s[k].model : k \in good}
           last(m) == CHOOSE k \in good : /\ s[k].model = m
                                          /\ \A j \in good : s[j].model = m => j <= k
           f == [m \in models |-> s[last(m)].share]
           shares == ParseWeights(s)
<1>1. Len(s) \in Nat /\ DOMAIN s = 1..Len(s) BY EnsembleAssumption
<1>2. IsFiniteSet(good) /\ good \subseteq 1..Len(s)
  <2>1. IsFiniteSet(1..Len(s)) BY <1>1, FS_Interval
  <2>2. good \subseteq 1..Len(s) BY <1>1
  <2> HIDE DEF good
  <2> QED BY <2>1, <2>2, FS_Subset
<1>3. IsFiniteSet(models)
  <2> DEFINE name == [k \in good |-> s[k].model]
  <2>1. models = {name[k] : k \in good} OBVIOUS
  <2>2. models = Range(name) BY <2>1 DEF Range
  <2>3. name \in Surjection(good, models)
    <3>1. name \in [good -> models] /\ \A m \in models : \E k \in good : name[k] = m OBVIOUS
    <3> QED BY <3>1 DEF Surjection
  <2> HIDE DEF good, name, models
  <2> QED BY <1>2, <2>3, FS_Surjection
<1>4. ASSUME NEW m \in models PROVE f[m] \in 1..100
  <2> DEFINE G == {k \in good : s[k].model = m}
  <2>1. \A k \in G : k \in Nat BY <1>1, <1>2
  <2>2. IsFiniteSet(G) BY <1>2, FS_Subset
  <2>3. G # {} OBVIOUS
  <2>4. \E k \in G : \A j \in G : j <= k
    <3> HIDE DEF G
    <3> QED BY <2>1, <2>2, <2>3, GreatestNumber
  <2>5. \E k \in good : s[k].model = m /\ \A j \in good : s[j].model = m => j <= k BY <2>4
  <2>6. last(m) \in good BY <2>5
  <2> QED BY <2>6
<1>5. \A m \in models : f[m] \in Nat
  <2> HIDE DEF f, models
  <2> QED BY <1>4
<1>6. SumFunctionOnSet(f, models) \in Nat
  <2> HIDE DEF f, models
  <2> QED BY <1>3, <1>5, SumMonotone
<1>7. DOMAIN f = models OBVIOUS
<1>8. shares = IF SumOver(DOMAIN f, LAMBDA m : f[m]) > 100 THEN << >> ELSE f
  BY DEF ParseWeights
<1>9. SumOver(DOMAIN f, LAMBDA m : f[m]) = SumFunctionOnSet(f, models)
  <2> DEFINE g == [m \in DOMAIN f |-> f[m]]
  <2>1. SumOver(DOMAIN f, LAMBDA m : f[m]) = SumFunctionOnSet(g, DOMAIN f) BY DEF SumOver
  <2>2. \A m \in models : f[m] \in Int /\ g[m] = f[m]
    <3> HIDE DEF f, models
    <3> QED BY <1>5, <1>7
  <2> HIDE DEF f, models, g
  <2> QED BY <1>3, <1>7, <2>1, <2>2, SumSame
<1> HIDE DEF f, models, shares
<1>10. CASE SumFunctionOnSet(f, models) > 100
  <2>1. shares = << >> BY <1>8, <1>9, <1>10
  <2>2. DOMAIN shares = {} BY <2>1
  <2> QED BY <2>2, SumEmpty, FS_EmptySet DEF shares
<1>11. CASE ~ (SumFunctionOnSet(f, models) > 100)
  <2>1. shares = f BY <1>8, <1>9, <1>11
  <2> QED BY <1>3, <1>4, <1>6, <1>7, <1>11, <2>1 DEF shares
<1> QED BY <1>10, <1>11

\* A share divided among its model's runs adds up to the share, and all of them to the
\* shares of the models that ran.
LEMMA SharesAddUp ==
  ASSUME NEW n \in Nat \ {0}, NEW P \in Nat \ {0}, Even(P, n),
         NEW models, NEW named, IsFiniteSet(named),
         NEW shares, \A m \in named : shares[m] \in 1..100,
         NEW cnt, Counted(cnt, models, named, n),
         NEW of, Divided(of, shares, cnt, models, named, n, P)
  PROVE  AddUp(of, shares, models, named, n, P)
<1>0. /\ \A m \in named : /\ cnt[m] \in 1..n
                           /\ cnt[m] = Cardinality({k \in 1..n : models[k] = m})
      /\ \A k \in 1..n : models[k] \in named => of[k] = shares[models[k]] * (P \div cnt[models[k]])
  BY DEF Counted, Divided, Members
<1>1. ASSUME NEW m \in named PROVE (P \div cnt[m]) \in Nat /\ (P \div cnt[m]) * cnt[m] = P
  <2> DEFINE c == cnt[m]
  <2>1. c \in 1..n BY <1>0
  <2> HIDE DEF c
  <2>4. P % c = 0 BY <2>1 DEF Even
  <2>2. P % c = 0 /\ c \in Nat \ {0} BY <2>1, <2>4
  <2>3. (P \div c) \in Nat /\ (P \div c) * c = P BY <2>2, PartsDivide
  <2> QED BY <2>3 DEF c
<1>2. ASSUME NEW k \in 1..n, models[k] \in named PROVE of[k] \in Nat
  <2> DEFINE a == shares[models[k]]
             d == P \div cnt[models[k]]
  <2>1. of[k] = a * d /\ a \in Nat /\ d \in Nat BY <1>0, <1>1, <1>2
  <2> HIDE DEF a, d
  <2> QED BY <2>1
<1>3. ASSUME NEW m \in named
      PROVE  SumFunctionOnSet(of, {k \in 1..n : models[k] = m}) = P * shares[m]
  <2> DEFINE G == {k \in 1..n : models[k] = m}
             a == shares[m]
             d == P \div cnt[m]
             o == Cardinality(G)
  <2>1. \A k \in G : of[k] = a * d BY <1>0
  <2>2. a \in Nat /\ d \in Nat /\ d * o = P BY <1>0, <1>1
  <2>3. IsFiniteSet(G)
    <3>1. IsFiniteSet(1..n) BY FS_Interval
    <3>2. G \subseteq 1..n OBVIOUS
    <3> HIDE DEF G
    <3> QED BY <3>1, <3>2, FS_Subset
  <2> HIDE DEF a, d, G
  <2>4. a * d \in Int BY <2>2
  <2>5. o \in Nat /\ SumFunctionOnSet(of, G) = (a * d) * o
    <3>1. Cardinality(G) \in Nat /\ SumFunctionOnSet(of, G) = (a * d) * Cardinality(G)
      BY <2>1, <2>3, <2>4, SumAlike
    <3> QED BY <3>1
  <2> HIDE DEF o
  <2>6. (a * d) * o = (d * o) * a BY <2>2, <2>5
  <2>7. SumFunctionOnSet(of, G) = P * a BY <2>2, <2>5, <2>6
  <2> QED BY <2>7 DEF a, G
<1>4. ASSUME \A k \in 1..n : of[k] \in Int
      PROVE  SumFunctionOnSet(of, {k \in 1..n : models[k] \in named})
               = P * SumFunctionOnSet(shares, named)
  <2> DEFINE h == [m \in named |-> P * shares[m]]
             K == 1..n
  <2>1. \A m \in named : h[m] = P * shares[m] OBVIOUS
  <2> HIDE DEF h
  <2>2. \A m \in named : SumFunctionOnSet(of, {k \in K : models[k] = m}) = h[m] BY <1>3, <2>1
  <2>3. \A m \in named : shares[m] \in Int OBVIOUS
  <2>4. \A m \in named : h[m] \in Int
    <3> SUFFICES ASSUME NEW m \in named PROVE h[m] \in Int OBVIOUS
    <3> DEFINE a == shares[m]
    <3>1. a \in Int /\ h[m] = P * a BY <2>1, <2>3
    <3> HIDE DEF a
    <3> QED BY <3>1
  <2>5. IsFiniteSet(K) BY FS_Interval
  <2>6. \A k \in K : of[k] \in Int BY <1>4
  <2> HIDE DEF K
  <2>7. \A m \in named : h[m] \in Int /\ SumFunctionOnSet(of, Members(K, models, m)) = h[m]
    BY <2>2, <2>4 DEF Members
  <2>11. SumFunctionOnSet(of, MembersOf(K, models, named)) = SumFunctionOnSet(h, named)
    BY <2>5, <2>6, <2>7, SumGroups
  <2>8. SumFunctionOnSet(of, {k \in K : models[k] \in named}) = SumFunctionOnSet(h, named)
    BY <2>11 DEF MembersOf
  <2>9. P \in Int OBVIOUS
  <2>10. SumFunctionOnSet(h, named) = P * SumFunctionOnSet(shares, named)
    BY <2>1, <2>3, <2>9, SumTimes
  <2> QED BY <2>8, <2>10 DEF K
<1> QED BY <1>2, <1>3, <1>4 DEF AddUp, Members, MembersOf

\* What the aggregate may rely on: the weights are a partition of one, a model's runs
\* weigh alike, and together as much as their share where other runs take the rest.
WeightsOf(models, s, n) ==
  LET w == RunWeights(models, s)
      shares == ParseWeights(s)
  IN  /\ w.unit \in Nat \ {0} /\ DOMAIN w.of = 1..n
      /\ \A k \in 1..n : w.of[k] \in Nat
      /\ SumFunctionOnSet(w.of, 1..n) = w.unit
      /\ \A j, k \in 1..n : models[j] = models[k] => w.of[j] = w.of[k]
      /\ (\E k \in 1..n : models[k] \notin DOMAIN shares) =>
            \A m \in DOMAIN shares :
              100 * SumFunctionOnSet(w.of, {k \in 1..n : models[k] = m}) \in {0, shares[m] * w.unit}

\* The weights of a list of models: each model's share, evenly over its runs.
LEMMA WeightsArePartition ==
  ASSUME NEW s \in Specs, NEW n \in Nat \ {0}, Even(Parts, n),
         NEW models, DOMAIN models = 1..n, Len(models) = n
  PROVE  WeightsOf(models, s, n)
<1> DEFINE K == 1..n
           shares == ParseWeights(s)
           count(m) == Cardinality({k \in K : models[k] = m})
           named == {m \in DOMAIN shares : count(m) > 0}
           others == {k \in K : models[k] \notin named}
           total == SumFunctionOnSet(shares, named)
           cnt == [m \in named |-> count(m)]
           w == RunWeights(models, s)
<1>0. Parts \in Nat \ {0} BY EnsembleAssumption
<1>1. /\ IsFiniteSet(DOMAIN shares)
      /\ \A m \in DOMAIN shares : shares[m] \in 1..100
      /\ SumFunctionOnSet(shares, DOMAIN shares) \in Nat
      /\ SumFunctionOnSet(shares, DOMAIN shares) <= 100
  BY SharesAreSound
<1>2. IsFiniteSet(K) /\ Cardinality(K) = n BY FS_Interval
<1>3. IsFiniteSet(named) /\ named \subseteq DOMAIN shares
  <2>1. named \subseteq DOMAIN shares OBVIOUS
  <2> HIDE DEF named, shares
  <2> QED BY <1>1, <2>1, FS_Subset
<1>4. \A m \in named : shares[m] \in 1..100 BY <1>1
<1>19. \A m \in DOMAIN shares : shares[m] \in Nat /\ shares[m] \in Int
  <2> SUFFICES ASSUME NEW m \in DOMAIN shares PROVE shares[m] \in Nat /\ shares[m] \in Int OBVIOUS
  <2> DEFINE a == shares[m]
  <2>1. a \in 1..100 BY <1>1
  <2> HIDE DEF a
  <2>2. a \in Nat /\ a \in Int BY <2>1
  <2> QED BY <2>2 DEF a
<1>5. SumOver(named, LAMBDA m : shares[m]) = total
  <2> DEFINE g == [m \in named |-> shares[m]]
  <2>1. SumOver(named, LAMBDA m : shares[m]) = SumFunctionOnSet(g, named) BY DEF SumOver
  <2>2. \A m \in named : g[m] = shares[m] OBVIOUS
  <2> HIDE DEF named, shares, g
  <2>3. \A m \in named : shares[m] \in Int BY <1>3, <1>19
  <2> QED BY <1>3, <2>1, <2>2, <2>3, SumSame
<1>6. w = IF named = {}
          THEN [unit |-> Parts, of |-> [k \in K |-> Parts \div n]]
          ELSE IF others = {}
          THEN [unit |-> total * Parts,
                of |-> [k \in K |-> shares[models[k]] * (Parts \div count(models[k]))]]
          ELSE [unit |-> 100 * Parts,
                of |-> [k \in K |-> IF k \in others
                                    THEN (100 - total) * (Parts \div Cardinality(others))
                                    ELSE shares[models[k]] * (Parts \div count(models[k]))]]
  BY <1>5 DEF RunWeights
<1>7. \A m \in named : cnt[m] = count(m) OBVIOUS
<1>8. ASSUME NEW m
      PROVE  /\ count(m) \in 0..n
             /\ \A k \in K : models[k] = m => count(m) \in 1..n
  <2> DEFINE G == {k \in K : models[k] = m}
  <2>1. G \subseteq K OBVIOUS
  <2>2. IsFiniteSet(G) /\ Cardinality(G) \in Nat /\ Cardinality(G) <= n
    <3> HIDE DEF G, K
    <3> QED BY <1>2, <2>1, FS_Subset, FS_CardinalityType
  <2>3. ASSUME NEW k \in K, models[k] = m PROVE Cardinality(G) # 0
    <3>1. G # {} BY <2>3
    <3> HIDE DEF G
    <3> QED BY <2>2, <3>1, FS_EmptySet
  <2>4. count(m) = Cardinality(G) OBVIOUS
  <2> HIDE DEF count, G
  <2> QED BY <2>2, <2>3, <2>4
<1>9. \A m \in named : cnt[m] \in 1..n /\ cnt[m] = Cardinality({k \in 1..n : models[k] = m})
  <2>1. \A m \in named : count(m) > 0 OBVIOUS
  <2>2. \A m \in named : count(m) = Cardinality({k \in 1..n : models[k] = m}) OBVIOUS
  <2> HIDE DEF count, named, cnt
  <2> QED BY <1>7, <1>8, <2>1, <2>2
<1>10. \A m \in DOMAIN shares : m \notin named => \A k \in K : models[k] # m
  <2> SUFFICES ASSUME NEW m \in DOMAIN shares, m \notin named, NEW k \in K, models[k] = m
               PROVE  FALSE
    OBVIOUS
  <2>1. count(m) \in 1..n BY <1>8
  <2>2. ~ (count(m) > 0) OBVIOUS
  <2> HIDE DEF count
  <2> QED BY <2>1, <2>2
<1>11. /\ others \subseteq K /\ \A k \in K : k \in others <=> models[k] \notin named
       /\ K = {k \in K : models[k] \in named} \cup others
       /\ {k \in K : models[k] \in named} \cap others = {}
  OBVIOUS
<1>12. w = IF named = {}
           THEN [unit |-> Parts, of |-> [k \in K |-> Parts \div n]]
           ELSE IF others = {}
           THEN [unit |-> total * Parts,
                 of |-> [k \in K |-> shares[models[k]] * (Parts \div cnt[models[k]])]]
           ELSE [unit |-> 100 * Parts,
                 of |-> [k \in K |-> IF k \in others
                                     THEN (100 - total) * (Parts \div Cardinality(others))
                                     ELSE shares[models[k]] * (Parts \div cnt[models[k]])]]
  <2> HIDE DEF count, cnt, named, others, shares, w, total
  <2>1. \A k \in K : k \notin others => cnt[models[k]] = count(models[k]) BY <1>7, <1>11
  <2> QED BY <1>6, <2>1
<1> HIDE DEF named, shares, others, count, cnt
<1>13. total \in Nat /\ total <= 100
  <2>1. \A m \in DOMAIN shares : shares[m] \in Nat BY <1>19
  <2>2. total \in Nat /\ total <= SumFunctionOnSet(shares, DOMAIN shares)
    BY <1>1, <1>3, <2>1, SumMonotone
  <2> QED BY <1>1, <2>2
<1> HIDE DEF total, w
<1>14. ASSUME NEW m \in DOMAIN shares, m \notin named
       PROVE  SumFunctionOnSet(w.of, {k \in K : models[k] = m}) = 0
  <2>1. {k \in K : models[k] = m} = {} BY <1>10, <1>14
  <2> QED BY <2>1, SumEmpty
<1>15. ASSUME \A k \in K : models[k] \in named =>
                w.of[k] = shares[models[k]] * (Parts \div cnt[models[k]])
       PROVE  /\ \A m \in named : SumFunctionOnSet(w.of, {k \in K : models[k] = m}) = Parts * shares[m]
              /\ \A k \in K : models[k] \in named => w.of[k] \in Nat
              /\ (\A k \in K : w.of[k] \in Int) =>
                   SumFunctionOnSet(w.of, {k \in K : models[k] \in named}) = Parts * total
  <2> DEFINE of == w.of
  <2>1. \A k \in 1..n : models[k] \in named => of[k] = shares[models[k]] * (Parts \div cnt[models[k]])
    BY <1>15
  <2> HIDE DEF of
  <2>2. /\ \A m \in named : SumFunctionOnSet(of, {k \in 1..n : models[k] = m}) = Parts * shares[m]
        /\ \A k \in 1..n : models[k] \in named => of[k] \in Nat
        /\ (\A k \in 1..n : of[k] \in Int) =>
              SumFunctionOnSet(of, {k \in 1..n : models[k] \in named})
                = Parts * SumFunctionOnSet(shares, named)
    <3> DEFINE P == Parts
    <3>1. P \in Nat \ {0} /\ Even(P, n) BY <1>0
    <3>2. \A k \in 1..n : models[k] \in named => of[k] = shares[models[k]] * (P \div cnt[models[k]])
      BY <2>1
    <3> HIDE DEF P
    <3>4. Counted(cnt, models, named, n) BY <1>9 DEF Counted, Members
    <3>5. Divided(of, shares, cnt, models, named, n, P) BY <3>2 DEF Divided
    <3>3. AddUp(of, shares, models, named, n, P)
      BY <1>3, <1>4, <3>1, <3>4, <3>5, SharesAddUp
    <3> QED BY <3>3 DEF P, AddUp, Members, MembersOf
  <2> QED BY <2>2 DEF of, total
<1>16. CASE named = {}
  <2> DEFINE d == Parts \div n
  <2>1. w.unit = Parts /\ w.of = [k \in K |-> d] BY <1>12, <1>16
  <2>2. d \in Nat /\ d * n = Parts
    <3>1. Parts % n = 0 BY DEF Even
    <3> QED BY <1>0, <3>1, PartsDivide
  <2>3. \A k \in K : w.of[k] = d BY <2>1
  <2>4. SumFunctionOnSet(w.of, K) = w.unit
    <3> DEFINE of == w.of
    <3>1. \A k \in K : of[k] = d BY <2>3
    <3>2. d \in Int BY <2>2
    <3> HIDE DEF K, d, of
    <3>3. SumFunctionOnSet(of, K) = d * Cardinality(K) BY <1>2, <3>1, <3>2, SumAlike
    <3> QED BY <1>2, <2>1, <2>2, <3>3 DEF of
  <2>6. \A m \in DOMAIN shares : 100 * SumFunctionOnSet(w.of, {k \in K : models[k] = m}) = 0
    BY <1>14, <1>16
  <2>7. DOMAIN w.of = K BY <2>1
  <2>8. \A k \in K : w.of[k] \in Nat BY <2>2, <2>3
  <2>9. \A j, k \in K : models[j] = models[k] => w.of[j] = w.of[k] BY <2>3
  <2> QED BY <1>0, <2>1, <2>4, <2>6, <2>7, <2>8, <2>9 DEF WeightsOf, w, shares
<1>17. CASE named # {} /\ others = {}
  <2>1. /\ w.unit = total * Parts
        /\ w.of = [k \in K |-> shares[models[k]] * (Parts \div cnt[models[k]])]
    BY <1>12, <1>17
  <2>2. \A k \in K : models[k] \in named BY <1>11, <1>17
  <2>3. \A k \in K : w.of[k] = shares[models[k]] * (Parts \div cnt[models[k]]) BY <2>1
  <2>4. \A k \in K : w.of[k] \in Nat BY <1>15, <2>2, <2>3
  <2>5. {k \in K : models[k] \in named} = K BY <2>2
  <2>6. SumFunctionOnSet(w.of, K) = Parts * total
    <3>1. \A k \in K : w.of[k] \in Int BY <2>4
    <3> QED BY <1>15, <2>3, <2>5, <3>1
  <2>7. total # 0
    <3>1. PICK m \in named : TRUE BY <1>17
    <3>2. shares[m] \in 1..100 BY <1>4
    <3>3. \A c \in named : shares[c] \in Int BY <1>3, <1>19
    <3> DEFINE rest == SumFunctionOnSet(shares, named \ {m})
               a == shares[m]
    <3>4. total = a + rest BY <1>3, <3>1, <3>3, SumRemove DEF total
    <3>5. rest \in Nat
      <4>1. named \ {m} \subseteq named /\ \A c \in named : shares[c] \in Nat BY <1>3, <1>19
      <4> QED BY <1>3, <4>1, SumMonotone
    <3>6. a \in 1..100 BY <3>2
    <3> HIDE DEF rest, a
    <3> QED BY <3>4, <3>5, <3>6
  <2>8. w.unit \in Nat \ {0} /\ SumFunctionOnSet(w.of, K) = w.unit
    <3>1. total * Parts = Parts * total /\ total * Parts \in Nat \ {0} BY <1>0, <1>13, <2>7
    <3> QED BY <2>1, <2>6, <3>1
  <2>9. \A j, k \in K : models[j] = models[k] => w.of[j] = w.of[k] BY <2>3
  <2>10. \A k \in K : models[k] \in DOMAIN shares BY <1>3, <2>2
  <2>11. DOMAIN w.of = K BY <2>1
  <2> QED BY <2>4, <2>8, <2>9, <2>10, <2>11 DEF WeightsOf, w, shares
<1>18. CASE named # {} /\ others # {}
  <2> DEFINE o == Cardinality(others)
             d == Parts \div o
             x == (100 - total) * d
             A == {k \in K : models[k] \in named}
  <2>1. /\ w.unit = 100 * Parts
        /\ w.of = [k \in K |-> IF k \in others THEN x
                               ELSE shares[models[k]] * (Parts \div cnt[models[k]])]
    BY <1>12, <1>18
  <2>2. IsFiniteSet(others) /\ o \in 1..n
    <3>1. others \subseteq K BY <1>11
    <3> HIDE DEF K
    <3>2. IsFiniteSet(others) /\ o \in Nat /\ o <= n BY <1>2, <3>1, FS_Subset, FS_CardinalityType
    <3>3. o # 0 BY <1>18, <3>2, FS_EmptySet
    <3> QED BY <3>2, <3>3
  <2>3. d \in Nat /\ d * o = Parts
    <3> HIDE DEF o
    <3>1. Parts % o = 0 /\ o \in Nat \ {0} BY <2>2 DEF Even
    <3> QED BY <1>0, <3>1, PartsDivide
  <2>4. x \in Nat
    <3> HIDE DEF d
    <3> QED BY <1>13, <2>3
  <2>5. \A k \in K : k \in others => w.of[k] = x BY <2>1
  <2>6. \A k \in K : models[k] \in named => w.of[k] = shares[models[k]] * (Parts \div cnt[models[k]])
    BY <1>11, <2>1
  <2>7. \A k \in K : w.of[k] \in Nat
    <3> HIDE DEF x
    <3> QED BY <1>11, <1>15, <2>4, <2>5, <2>6
  <2>8. SumFunctionOnSet(w.of, A) = Parts * total
    <3>1. \A k \in K : w.of[k] \in Int BY <2>7
    <3> QED BY <1>15, <2>6, <3>1
  <2>9. SumFunctionOnSet(w.of, others) = (100 - total) * Parts
    <3> DEFINE of == w.of
    <3>0. \A k \in others : of[k] = x BY <1>11, <2>5
    <3>4. x \in Int BY <2>4
    <3> HIDE DEF of, x
    <3>1. SumFunctionOnSet(of, others) = x * Cardinality(others) BY <2>2, <3>0, <3>4, SumAlike
    <3>5. x = (100 - total) * d BY DEF x
    <3> HIDE DEF d, o
    <3>2. ((100 - total) * d) * o = (100 - total) * (d * o) BY <1>13, <2>2, <2>3
    <3>3. o = Cardinality(others) BY DEF o
    <3> QED BY <2>3, <3>1, <3>2, <3>3, <3>5 DEF of
  <2>10. K = A \cup others /\ A \cap others = {} BY <1>11
  <2>11. SumFunctionOnSet(w.of, K) = Parts * total + (100 - total) * Parts
    <3> DEFINE of == w.of
    <3>1. IsFiniteSet(A)
      <4>1. A \subseteq K OBVIOUS
      <4> HIDE DEF A, K
      <4> QED BY <1>2, <4>1, FS_Subset
    <3>2. \A k \in A \cup others : of[k] \in Int
      <4> HIDE DEF A
      <4> QED BY <2>7, <2>10
    <3> HIDE DEF A, of, x
    <3>3. SumFunctionOnSet(of, A \cup others) = SumFunctionOnSet(of, A) + SumFunctionOnSet(of, others)
      BY <2>2, <2>10, <3>1, <3>2, SumUnion
    <3> QED BY <2>8, <2>9, <2>10, <3>3 DEF of
  <2>12. SumFunctionOnSet(w.of, K) = w.unit /\ w.unit \in Nat \ {0}
    <3>1. Parts * total + (100 - total) * Parts = 100 * Parts BY <1>0, <1>13
    <3>2. 100 * Parts \in Nat \ {0} BY <1>0
    <3> HIDE DEF x
    <3> QED BY <2>1, <2>11, <3>1, <3>2
  <2>13. \A j, k \in K : models[j] = models[k] => w.of[j] = w.of[k]
    <3> SUFFICES ASSUME NEW j \in K, NEW k \in K, models[j] = models[k] PROVE w.of[j] = w.of[k]
      OBVIOUS
    <3> HIDE DEF x
    <3>1. CASE models[j] \in named BY <2>6, <3>1
    <3>2. CASE models[j] \notin named BY <1>11, <2>5, <3>2
    <3> QED BY <3>1, <3>2
  <2>14. DOMAIN w.of = K BY <2>1
  <2>15. ASSUME NEW m \in DOMAIN shares
         PROVE  100 * SumFunctionOnSet(w.of, {k \in K : models[k] = m}) \in {0, shares[m] * w.unit}
    <3> DEFINE sum == SumFunctionOnSet(w.of, {k \in K : models[k] = m})
               a == shares[m]
    <3>1. CASE m \in named
      <4>2. sum = Parts * a BY <1>15, <2>6, <3>1
      <4>3. a \in 1..100 BY <1>4, <3>1
      <4> HIDE DEF a, sum
      <4>4. 100 * (Parts * a) = a * (100 * Parts) BY <1>0, <4>3
      <4>5. 100 * sum = a * w.unit BY <2>1, <4>2, <4>4
      <4> QED BY <4>5 DEF a, sum
    <3>2. CASE m \notin named
      <4>1. sum = 0 BY <1>14, <3>2
      <4> HIDE DEF sum
      <4>2. 100 * sum = 0 BY <4>1
      <4> QED BY <4>2 DEF sum
    <3> QED BY <3>1, <3>2
  <2> HIDE DEF x
  <2> QED BY <2>7, <2>12, <2>13, <2>14, <2>15 DEF WeightsOf, w, shares
<1> QED BY <1>16, <1>17, <1>18

Products(g, p, of, n) == \A k \in 1..n : g[k] = p[k] * of[k]
Between(p, n, unit, sum) ==
  /\ sum \in unit..(99 * unit)
  /\ \E k \in 1..n : p[k] * unit <= sum
  /\ \E k \in 1..n : sum <= p[k] * unit

\* What leaves less of a hundred is more.
LEMMA LessOfHundred == ASSUME NEW a \in 1..99, NEW b \in 1..99, 100 - b <= 100 - a PROVE a <= b
OBVIOUS

\* A mean lies between what it is the mean of.
LEMMA MeanIsBetween ==
  ASSUME NEW n \in Nat \ {0}, NEW p \in [1..n -> 1..99], NEW of, NEW unit \in Nat,
         \A k \in 1..n : of[k] \in Nat, SumFunctionOnSet(of, 1..n) = unit,
         NEW g, Products(g, p, of, n)
  PROVE  Between(p, n, unit, SumFunctionOnSet(g, 1..n))
<1> DEFINE K == 1..n
           sum == SumFunctionOnSet(g, K)
<1>1. IsFiniteSet(K) /\ 1 \in K BY FS_Interval
<1>0. \A k \in K : p[k] \in 1..99 /\ of[k] \in Nat /\ g[k] = p[k] * of[k] BY DEF Products
<1>2. ASSUME NEW k \in K PROVE of[k] \in Int /\ g[k] \in Int
  <2> DEFINE a == p[k]
             d == of[k]
  <2>1. a \in 1..99 /\ d \in Nat /\ g[k] = a * d BY <1>0
  <2> HIDE DEF a, d
  <2>2. g[k] \in Int /\ d \in Int BY <2>1
  <2> QED BY <2>2 DEF d
<1>3. sum \in Int
  <2>1. \A k \in K : g[k] \in Int BY <1>2
  <2> HIDE DEF K
  <2> QED BY <1>1, <2>1, SumType
\* With the same number for every member, and the sums compared member by member.
<1>4. ASSUME NEW j \in K, \A k \in K : p[j] <= p[k] PROVE p[j] * unit <= sum
  <2> DEFINE a == p[j]
             h == [k \in K |-> a * of[k]]
  <2>0. a \in 1..99 BY <1>0
  <2>1. \A k \in K : h[k] = a * of[k] OBVIOUS
  <2>2. ASSUME NEW k \in K PROVE h[k] \in Int /\ h[k] <= g[k]
    <3> DEFINE b == p[k]
               d == of[k]
    <3>1. b \in 1..99 /\ d \in Nat /\ a <= b /\ g[k] = b * d /\ h[k] = a * d
      BY <1>0, <1>4
    <3> HIDE DEF a, b, d, h
    <3> QED BY <2>0, <3>1
  <2> HIDE DEF a, h, K
  <2>5. a \in Int BY <2>0
  <2>3. SumFunctionOnSet(h, K) <= sum BY <1>1, <1>2, <2>2, SumBelow
  <2>4. SumFunctionOnSet(h, K) = a * SumFunctionOnSet(of, K) BY <1>1, <1>2, <2>1, <2>5, SumTimes
  <2> QED BY <2>3, <2>4 DEF a, K
<1>5. ASSUME NEW j \in K, \A k \in K : p[k] <= p[j] PROVE sum <= p[j] * unit
  <2> DEFINE a == p[j]
             h == [k \in K |-> a * of[k]]
  <2>0. a \in 1..99 BY <1>0
  <2>1. \A k \in K : h[k] = a * of[k] OBVIOUS
  <2>2. ASSUME NEW k \in K PROVE h[k] \in Int /\ g[k] <= h[k]
    <3> DEFINE b == p[k]
               d == of[k]
    <3>1. b \in 1..99 /\ d \in Nat /\ b <= a /\ g[k] = b * d /\ h[k] = a * d
      BY <1>0, <1>5
    <3> HIDE DEF a, b, d, h
    <3> QED BY <2>0, <3>1
  <2> HIDE DEF a, h, K
  <2>5. a \in Int BY <2>0
  <2>3. sum <= SumFunctionOnSet(h, K) BY <1>1, <1>2, <2>2, SumBelow
  <2>4. SumFunctionOnSet(h, K) = a * SumFunctionOnSet(of, K) BY <1>1, <1>2, <2>1, <2>5, SumTimes
  <2> QED BY <2>3, <2>4 DEF a, K
<1>6. PICK i \in K : \A k \in K : p[i] <= p[k]
  <2> DEFINE V == {p[k] : k \in K}
  <2>3. \A k \in K : p[k] \in Nat /\ 100 - p[k] \in Nat
    <3> SUFFICES ASSUME NEW k \in K PROVE p[k] \in Nat /\ 100 - p[k] \in Nat OBVIOUS
    <3> DEFINE a == p[k]
    <3>1. a \in 1..99 BY <1>0
    <3> HIDE DEF a
    <3>2. a \in Nat /\ 100 - a \in Nat BY <3>1
    <3> QED BY <3>2 DEF a
  <2>1. V \in SUBSET Nat /\ V # {} BY <1>1, <2>3
  <2>2. PICK m \in V : \A v \in V : m <= v
    <3> HIDE DEF V
    <3> QED BY <2>1, LeastNumber
  <2> QED BY <2>2
<1>7. PICK j \in K : \A k \in K : p[k] <= p[j]
  <2> DEFINE V == {100 - p[k] : k \in K}
  <2>3. \A k \in K : p[k] \in Nat /\ 100 - p[k] \in Nat
    <3> SUFFICES ASSUME NEW k \in K PROVE p[k] \in Nat /\ 100 - p[k] \in Nat OBVIOUS
    <3> DEFINE a == p[k]
    <3>1. a \in 1..99 BY <1>0
    <3> HIDE DEF a
    <3>2. a \in Nat /\ 100 - a \in Nat BY <3>1
    <3> QED BY <3>2 DEF a
  <2>1. V \in SUBSET Nat /\ V # {} BY <1>1, <2>3
  <2>2. PICK m \in V : \A v \in V : m <= v
    <3> HIDE DEF V
    <3> QED BY <2>1, LeastNumber
  <2>6. PICK j \in K : m = 100 - p[j] BY <2>2
  <2>4. \A k \in K : 100 - p[j] <= 100 - p[k] BY <2>2, <2>6
  <2>5. ASSUME NEW k \in K PROVE p[k] <= p[j]
    <3> DEFINE a == p[k]
               b == p[j]
    <3>1. a \in 1..99 /\ b \in 1..99 /\ 100 - b <= 100 - a BY <1>0, <2>4
    <3> HIDE DEF a, b
    <3>2. a <= b BY <3>1, LessOfHundred
    <3> QED BY <3>2 DEF a, b
  <2> QED BY <2>5
<1>8. p[i] * unit <= sum /\ sum <= p[j] * unit BY <1>4, <1>5, <1>6, <1>7
<1>9. unit <= p[i] * unit /\ p[j] * unit <= 99 * unit
  <2> DEFINE a == p[i]
             b == p[j]
  <2>1. a \in 1..99 /\ b \in 1..99 OBVIOUS
  <2> HIDE DEF a, b
  <2>2. unit <= a * unit /\ b * unit <= 99 * unit BY <2>1
  <2> QED BY <2>2 DEF a, b
<1>10. p[i] * unit \in Int /\ p[j] * unit \in Int
  <2> DEFINE a == p[i]
             b == p[j]
  <2>1. a \in 1..99 /\ b \in 1..99 OBVIOUS
  <2> HIDE DEF a, b
  <2>2. a * unit \in Int /\ b * unit \in Int BY <2>1
  <2> QED BY <2>2 DEF a, b
<1>11. sum \in unit..(99 * unit)
  <2> HIDE DEF sum
  <2> QED BY <1>3, <1>8, <1>9, <1>10
<1> QED BY <1>8, <1>11 DEF Between, sum, K

(***************************************************************************)
(* ForecastEnsemble: the aggregate.  What a run's reply was checked for    *)
(* stays true of it; and the result is what the runs, which do not change  *)
(* any more, make of one of the weightings.                                *)
(***************************************************************************)
Usable == {i \in Runs : runs[i].valid /\ Keeps(question.kind, runs[i].reply)}
KeptModels == [k \in DOMAIN KeptRuns |-> runs[KeptRuns[k]].model]

RunsTyped ==
  /\ question \in Questions /\ Runs = 1..question.n
  /\ \A i \in Runs : runs[i].valid =>
       runs[i].reply \in Replies(question.kind) /\ Valid(question.kind, runs[i].reply)

Resulting(r) ==
  /\ r.status \in {"tiebreak", "tiebroken", "forecast", "default", "abstain", "error"}
  /\ {"kept", "weights"} \cap DOMAIN r # {} =>
       /\ {"spec", "kept", "weights"} \subseteq DOMAIN r
       /\ r.spec \in Specs /\ r.kept = KeptRuns /\ KeptRuns # << >>
       /\ r.weights = RunWeights(KeptModels, r.spec)
  /\ "value" \in DOMAIN r =>
       \/ r.status = "tiebroken" /\ r.scale = 1 /\ r.value \in 1..99
       \/ /\ r.status = "forecast" /\ "kept" \in DOMAIN r
          /\ question.kind = "binary"
          /\ r.value = Mean(Percents(KeptRuns), r.weights) /\ r.scale = r.weights.unit
  /\ r.status = "tiebreak" => "kept" \in DOMAIN r
  /\ r.status = "forecast" /\ question.kind = "binary" => "value" \in DOMAIN r
  /\ r.status \in {"default", "abstain"} =>
       /\ KeptRuns = << >>
       /\ r.status = "abstain" <=> question.kind = "numeric"

ResultInv ==
  result = Pending \/ ((\A i \in Runs : runs[i].phase = "done") /\ Resulting(result))

EnsembleInv == NodesInv /\ RunsTyped /\ ResultInv

\* The kept runs are the usable ones, all of them, each once.
LEMMA KeptAreUsable ==
  ASSUME RunsTyped
  PROVE  \E n \in Nat :
           /\ n <= question.n /\ question.n \in Nat
           /\ KeptRuns \in [1..n -> Usable] /\ Len(KeptRuns) = n
           /\ \A x \in Usable : \E k \in 1..n : KeptRuns[k] = x
           /\ KeptRuns = << >> <=> n = 0
           /\ KeptRuns = << >> <=> Usable = {}
<1> DEFINE n == Cardinality(Usable)
<1>1. question.n \in Nat BY EnsembleAssumption DEF RunsTyped
<1>2. Usable \subseteq 1..question.n /\ IsFiniteSet(1..question.n) /\ Cardinality(1..question.n) = question.n
  BY <1>1, FS_Interval DEF Usable, RunsTyped
<1>3. IsFiniteSet(Usable) /\ n <= question.n BY <1>2, FS_Subset
<1>4. Usable \in SUBSET Nat BY <1>2
<1>5. KeptRuns = Ascending(Usable) BY DEF KeptRuns, Usable
<1>6. /\ n \in Nat /\ KeptRuns \in [1..n -> Usable]
      /\ \A x \in Usable : \E k \in 1..n : KeptRuns[k] = x
  BY <1>3, <1>4, <1>5, AscendingLists
<1>7. KeptRuns = << >> <=> n = 0
  <2> HIDE DEF n
  <2>1. ASSUME n = 0 PROVE KeptRuns = << >> BY <1>6, <2>1
  <2>2. ASSUME n # 0 PROVE KeptRuns # << >> BY <1>6, <2>2
  <2> QED BY <2>1, <2>2
<1>8. n = 0 <=> Usable = {} BY <1>3, FS_EmptySet
<1>9. Len(KeptRuns) = n BY <1>6
<1> QED BY <1>1, <1>3, <1>6, <1>7, <1>8, <1>9

\* The runs begin without a reply and the question without a result.
LEMMA RunsTypedInitial == Init => RunsTyped /\ ResultInv
<1> SUFFICES ASSUME Init PROVE RunsTyped /\ ResultInv OBVIOUS
<1>1. /\ question \in Questions /\ result = Pending
      /\ runs = [i \in 1..question.n |-> NewRun(ModelsForRuns(question)[i], NoModel)]
  BY DEF Init
<1>2. \A i \in 1..question.n : ~runs[i].valid BY <1>1 DEF NewRun
<1> QED BY <1>1, <1>2 DEF RunsTyped, ResultInv, Runs

\* An attempt that ends with a valid reply ends with one of the question's.
LEMMA FinishTyped ==
  ASSUME NodesInv, RunsTyped, NEW i \in Runs, NEW r, Finish(i, r), question' = question,
         r.valid => r.reply \in Replies(question.kind) /\ Valid(question.kind, r.reply)
  PROVE  RunsTyped'
<1>1. PICK q : /\ runs' = [runs EXCEPT ![i] = q]
               /\ q.valid => q.reply \in Replies(question.kind) /\ Valid(question.kind, q.reply)
  <2>1. CASE ~r.valid /\ Backup # NoModel /\ ~ReadsRaw(question, i) /\ r.backupFor = NoModel
               /\ r.model # Backup
    <3> DEFINE k == NewRun(Backup, r.model)
    <3>1. runs' = [runs EXCEPT ![i] = k] BY <2>1 DEF Finish
    <3>2. ~k.valid BY DEF NewRun
    <3> HIDE DEF k
    <3> QED BY <3>1, <3>2
  <2>2. CASE ~(~r.valid /\ Backup # NoModel /\ ~ReadsRaw(question, i) /\ r.backupFor = NoModel
               /\ r.model # Backup)
    <3>1. runs' = [runs EXCEPT ![i] = r] BY <2>2 DEF Finish
    <3> QED BY <3>1
  <2> QED BY <2>1, <2>2
<1>2. Runs' = Runs /\ runs'[i] = q /\ \A j \in Runs : j # i => runs'[j] = runs[j]
  BY <1>1 DEF Runs, NodesInv
<1>3. \A j \in Runs' : runs'[j].valid =>
        runs'[j].reply \in Replies(question'.kind) /\ Valid(question'.kind, runs'[j].reply)
  BY <1>1, <1>2 DEF RunsTyped
<1> QED BY <1>2, <1>3 DEF RunsTyped

\* What the aggregation makes of the runs.
LEMMA OutcomeResults ==
  ASSUME RunsTyped, NEW spec \in Specs
  PROVE  Resulting(Outcome(spec))
<1> DEFINE w == RunWeights(KeptModels, spec)
           p == Percents(KeptRuns)
           r == Outcome(spec)
<1>1. r = IF KeptRuns = << >>
          THEN [status |-> IF question.kind = "numeric" THEN "abstain" ELSE "default"]
          ELSE IF question.kind # "binary"
          THEN [status |-> "forecast", spec |-> spec, kept |-> KeptRuns, weights |-> w]
          ELSE IF MaxGap(p) >= Spread
          THEN [status |-> "tiebreak", spec |-> spec, kept |-> KeptRuns, weights |-> w]
          ELSE [status |-> "forecast", spec |-> spec, kept |-> KeptRuns, weights |-> w,
                value |-> Mean(p, w), scale |-> w.unit]
  BY DEF Outcome, KeptModels
<1> HIDE DEF r, w
<1>2. CASE KeptRuns = << >>
  <2>1. r = [status |-> IF question.kind = "numeric" THEN "abstain" ELSE "default"] BY <1>1, <1>2
  <2>2. DOMAIN r = {"status"} /\ r.status = (IF question.kind = "numeric" THEN "abstain" ELSE "default")
    BY <2>1
  <2> QED BY <1>2, <2>2 DEF Resulting, r
<1>3. CASE KeptRuns # << >> /\ question.kind # "binary"
  <2>1. r = [status |-> "forecast", spec |-> spec, kept |-> KeptRuns, weights |-> w] BY <1>1, <1>3
  <2>2. /\ DOMAIN r = {"status", "spec", "kept", "weights"} /\ r.status = "forecast"
        /\ r.spec = spec /\ r.kept = KeptRuns /\ r.weights = w
    BY <2>1
  <2> QED BY <1>3, <2>2 DEF Resulting, r, w
<1>4. CASE KeptRuns # << >> /\ question.kind = "binary" /\ MaxGap(p) >= Spread
  <2>1. r = [status |-> "tiebreak", spec |-> spec, kept |-> KeptRuns, weights |-> w] BY <1>1, <1>4
  <2>2. /\ DOMAIN r = {"status", "spec", "kept", "weights"} /\ r.status = "tiebreak"
        /\ r.spec = spec /\ r.kept = KeptRuns /\ r.weights = w
    BY <2>1
  <2> QED BY <1>4, <2>2 DEF Resulting, r, w
<1>5. CASE KeptRuns # << >> /\ question.kind = "binary" /\ ~ (MaxGap(p) >= Spread)
  <2> DEFINE mean == Mean(p, w)
  <2>1. r = [status |-> "forecast", spec |-> spec, kept |-> KeptRuns, weights |-> w,
             value |-> mean, scale |-> w.unit]
    BY <1>1, <1>5
  <2> HIDE DEF mean
  <2>2. /\ DOMAIN r = {"status", "spec", "kept", "weights", "value", "scale"}
        /\ r.status = "forecast" /\ r.spec = spec /\ r.kept = KeptRuns /\ r.weights = w
        /\ r.value = mean /\ r.scale = w.unit
    BY <2>1
  <2>3. r.value = Mean(Percents(KeptRuns), r.weights) /\ r.scale = r.weights.unit
    BY <2>2 DEF mean
  <2> QED BY <1>5, <2>2, <2>3 DEF Resulting, r, w
<1> QED BY <1>2, <1>3, <1>4, <1>5

\* The result depends on the runs and the question alone.
LEMMA ResultingStays ==
  ASSUME UNCHANGED <<question, runs>>, Resulting(result')
  PROVE  Resulting(result)'
<1>1. KeptRuns' = KeptRuns BY DEF KeptRuns, Runs
<1>2. KeptModels' = KeptModels BY <1>1 DEF KeptModels
<1>3. Percents(KeptRuns)' = Percents(KeptRuns) BY <1>1 DEF Percents
<1>4. Mean(Percents(KeptRuns), result.weights)' = Mean(Percents(KeptRuns), result'.weights) BY <1>3
<1> QED BY <1>1, <1>2, <1>4 DEF Resulting

\* Every step keeps the invariant.
LEMMA EnsembleKept == EnsembleInv /\ [Next]_vars => EnsembleInv'
<1> SUFFICES ASSUME EnsembleInv, [Next]_vars PROVE EnsembleInv' OBVIOUS
<1>1. NodesInv /\ RunsTyped /\ ResultInv BY DEF EnsembleInv
<1>2. NodesInv' BY <1>1, NodesKept
<1>3. ASSUME UNCHANGED <<question, runs>> PROVE RunsTyped' BY <1>1, <1>3 DEF RunsTyped, Runs
<1>4. ASSUME NEW i \in Runs, CallFails(i) \/ CallAnswers(i) PROVE result = Pending /\ ResultInv'
  <2>1. runs[i].phase # "done" /\ result' = result BY <1>4 DEF CallFails, CallAnswers
  <2> QED BY <1>1, <2>1 DEF ResultInv
<1>5. ASSUME NEW i \in Runs, CallFails(i) PROVE RunsTyped'
  <2> DEFINE r == [runs[i] EXCEPT !.phase = "done", !.repaired = (runs[i].phase = "repair")]
  <2>1. Finish(i, r) /\ question' = question BY <1>5 DEF CallFails
  <2>2. RunShape(runs[i]) BY <1>1 DEF NodesInv
  <2>3. r.valid = runs[i].valid /\ r.reply = runs[i].reply BY <2>2 DEF RunShape
  <2>4. r.valid => r.reply \in Replies(question.kind) /\ Valid(question.kind, r.reply)
    BY <1>1, <2>3 DEF RunsTyped
  <2> HIDE DEF r
  <2> QED BY <1>1, <2>1, <2>4, FinishTyped
<1>6. ASSUME NEW i \in Runs, CallAnswers(i) PROVE RunsTyped'
  <2>0. RunShape(runs[i]) /\ question' = question BY <1>1, <1>6 DEF NodesInv, CallAnswers
  <2>1. PICK reply \in Replies(question.kind) :
          LET ok == Valid(question.kind, reply) IN
          IF ~ok /\ runs[i].phase = "call"
          THEN /\ runs' = [runs EXCEPT ![i].phase = "repair"]
               /\ UNCHANGED nodes
          ELSE Finish(i, [runs[i] EXCEPT !.phase = "done", !.valid = ok,
                                         !.reply = IF ok THEN reply ELSE Unusable,
                                         !.repaired = (runs[i].phase = "repair")])
    BY <1>6 DEF CallAnswers
  <2> DEFINE ok == Valid(question.kind, reply)
  <2>2. CASE ~ok /\ runs[i].phase = "call"
    <3> DEFINE q == [runs[i] EXCEPT !.phase = "repair"]
    <3>1. runs' = [runs EXCEPT ![i] = q] BY <2>1, <2>2
    <3>2. q.valid = runs[i].valid /\ q.reply = runs[i].reply BY <2>0 DEF RunShape
    <3> HIDE DEF q
    <3>3. Runs' = Runs /\ runs'[i] = q /\ \A j \in Runs : j # i => runs'[j] = runs[j]
      BY <1>1, <3>1 DEF Runs, NodesInv
    <3> QED BY <1>1, <2>0, <3>2, <3>3 DEF RunsTyped
  <2>3. CASE ~(~ok /\ runs[i].phase = "call")
    <3> DEFINE read == IF ok THEN reply ELSE Unusable
               redone == runs[i].phase = "repair"
               r == [runs[i] EXCEPT !.phase = "done", !.valid = ok, !.reply = read, !.repaired = redone]
    <3>1. Finish(i, r) BY <2>1, <2>3
    <3>2. ok \in BOOLEAN BY DEF Valid
    <3>3. ok => read = reply /\ reply \in Replies(question.kind) /\ Valid(question.kind, reply) OBVIOUS
    <3> HIDE DEF ok, read, redone
    <3>4. r.valid = ok BY <2>0 DEF RunShape
    <3>5. r.reply = read BY <2>0 DEF RunShape
    <3> HIDE DEF r
    <3>6. r.valid => r.reply \in Replies(question.kind) /\ Valid(question.kind, r.reply)
      BY <3>3, <3>4, <3>5
    <3> QED BY <1>1, <2>0, <3>1, <3>6, FinishTyped
  <2> QED BY <2>2, <2>3
<1>7. ASSUME Aggregate PROVE ResultInv' /\ UNCHANGED <<question, runs>>
  <2>1. PICK spec \in Specs : result' = Outcome(spec) BY <1>7 DEF Aggregate
  <2>2. UNCHANGED <<question, runs>> /\ \A i \in Runs : runs[i].phase = "done" BY <1>7 DEF Aggregate
  <2> DEFINE r == Outcome(spec)
  <2>3. Resulting(r) BY <1>1, OutcomeResults
  <2>4. result' = r BY <2>1
  <2> HIDE DEF r
  <2>5. Resulting(result)' BY <2>2, <2>3, <2>4, ResultingStays
  <2> QED BY <2>2, <2>5 DEF ResultInv, Runs
<1>8. ASSUME TiebreakAnswers \/ TiebreakFails PROVE ResultInv' /\ UNCHANGED <<question, runs>>
  <2>0. UNCHANGED <<question, runs>> BY <1>8 DEF TiebreakAnswers, TiebreakFails
  <2>1. result.status = "tiebreak" BY <1>8 DEF TiebreakAnswers, TiebreakFails
  <2>2. (\A i \in Runs : runs[i].phase = "done") /\ Resulting(result)
    BY <1>1, <2>1 DEF ResultInv, Pending
  <2>3. ASSUME result' = Failed PROVE ResultInv'
    <3>1. DOMAIN result' = {"status"} /\ result'.status = "error" BY <2>3 DEF Failed
    <3>2. Resulting(result)' BY <3>1 DEF Resulting
    <3> QED BY <2>0, <2>2, <3>2 DEF ResultInv, Runs
  <2>4. ASSUME NEW x \in Int,
               result' = [status |-> "tiebroken", spec |-> result.spec, kept |-> result.kept,
                          weights |-> result.weights, value |-> Probability(x), scale |-> 1]
        PROVE  ResultInv'
    <3>1. Probability(x) \in 1..99 BY DEF Probability, Clamp
    <3> DEFINE v == Probability(x)
    <3> HIDE DEF v
    <3>2. /\ DOMAIN result' = {"status", "spec", "kept", "weights", "value", "scale"}
          /\ result'.status = "tiebroken" /\ result'.spec = result.spec
          /\ result'.kept = result.kept /\ result'.weights = result.weights
          /\ result'.value = v /\ result'.scale = 1
      BY <2>4 DEF v
    <3>3. /\ result.spec \in Specs /\ result.kept = KeptRuns /\ KeptRuns # << >>
          /\ result.weights = RunWeights(KeptModels, result.spec)
      BY <2>1, <2>2 DEF Resulting
    <3>4. KeptRuns' = KeptRuns /\ KeptModels' = KeptModels
      BY <2>0 DEF KeptRuns, KeptModels, Runs
    <3>5. Resulting(result)' BY <3>1, <3>2, <3>3, <3>4 DEF Resulting, v
    <3> QED BY <2>0, <2>2, <3>5 DEF ResultInv, Runs
  <2>5. CASE TiebreakFails BY <2>0, <2>3, <2>5 DEF TiebreakFails
  <2>6. CASE TiebreakAnswers
    <3>1. PICK x \in Numbers \cup {Unusable} :
            result' = IF x = Unusable THEN Failed
                      ELSE [status |-> "tiebroken", spec |-> result.spec, kept |-> result.kept,
                            weights |-> result.weights, value |-> Probability(x), scale |-> 1]
      BY <2>6 DEF TiebreakAnswers
    <3>2. CASE x = Unusable BY <2>0, <2>3, <3>1, <3>2
    <3>3. CASE x # Unusable
      <4>1. x \in Int BY <3>3, EnsembleAssumption
      <4> QED BY <2>0, <2>4, <3>1, <3>3, <4>1
    <3> QED BY <3>2, <3>3
  <2> QED BY <1>8, <2>0, <2>5, <2>6
<1>9. ASSUME UNCHANGED vars PROVE ResultInv' /\ UNCHANGED <<question, runs>>
  <2>1. UNCHANGED <<question, runs, result>> BY <1>9 DEF vars
  <2>2. ASSUME Resulting(result) PROVE Resulting(result)' BY <2>1, <2>2, ResultingStays
  <2> QED BY <1>1, <2>1, <2>2 DEF ResultInv, Runs
<1>10. RunsTyped' /\ ResultInv' BY <1>3, <1>4, <1>5, <1>6, <1>7, <1>8, <1>9 DEF Next
<1> QED BY <1>2, <1>10 DEF EnsembleInv

\* The invariant holds throughout an ensemble.
LEMMA EnsembleInvHolds == Spec => []EnsembleInv
<1>1. Init => EnsembleInv BY NodesInitial, RunsTypedInitial DEF EnsembleInv
<1> QED BY <1>1, EnsembleKept, PTL DEF Spec

\* What the weights of a result are weights of.
LEMMA ResultWeights ==
  ASSUME EnsembleInv, {"kept", "weights"} \cap DOMAIN result # {}
  PROVE  \E n \in Nat \ {0} :
           /\ KeptRuns \in [1..n -> Usable] /\ DOMAIN KeptRuns = 1..n
           /\ {"spec", "kept", "weights"} \subseteq DOMAIN result
           /\ result.kept = KeptRuns /\ result.spec \in Specs
           /\ result.weights = RunWeights(KeptModels, result.spec)
           /\ WeightsOf(KeptModels, result.spec, n)
<1>1. result # Pending
  <2>1. DOMAIN Pending = {"status"} BY DEF Pending
  <2> QED BY <2>1
<1>2. Resulting(result) /\ RunsTyped BY <1>1 DEF EnsembleInv, ResultInv
<1>3. /\ result.spec \in Specs /\ result.kept = KeptRuns /\ KeptRuns # << >>
      /\ result.weights = RunWeights(KeptModels, result.spec)
      /\ {"spec", "kept", "weights"} \subseteq DOMAIN result
  BY <1>2 DEF Resulting
<1>4. PICK n \in Nat :
        /\ n <= question.n /\ question.n \in Nat
        /\ KeptRuns \in [1..n -> Usable] /\ Len(KeptRuns) = n
        /\ \A x \in Usable : \E k \in 1..n : KeptRuns[k] = x
        /\ KeptRuns = << >> <=> n = 0
        /\ KeptRuns = << >> <=> Usable = {}
  BY <1>2, KeptAreUsable
<1>5. n \in Nat \ {0} BY <1>3, <1>4
<1>6. Even(Parts, n)
  <2>1. \A c \in 1..question.n : Parts % c = 0 BY <1>2, EnsembleAssumption DEF RunsTyped
  <2>2. \A c \in 1..n : c \in 1..question.n BY <1>4
  <2> QED BY <2>1, <2>2 DEF Even
<1>7. DOMAIN KeptRuns = 1..n BY <1>4
<1>8. DOMAIN KeptModels = 1..n /\ Len(KeptModels) = n BY <1>4, <1>7 DEF KeptModels
<1> DEFINE M == KeptModels
           s == result.spec
<1>9. WeightsOf(M, s, n)
  <2>1. s \in Specs /\ DOMAIN M = 1..n /\ Len(M) = n BY <1>3, <1>8
  <2> HIDE DEF M, s
  <2> QED BY <1>5, <1>6, <2>1, WeightsArePartition
<1> QED BY <1>3, <1>4, <1>5, <1>7, <1>9

\* Whatever runs survive, the weights of the average are a partition of one, and they
\* follow the models that ran.
THEOREM WeightsAlwaysFollow == Spec => []WeightsFollowTheModelThatRan
<1>1. EnsembleInv => WeightsFollowTheModelThatRan
  <2> SUFFICES ASSUME EnsembleInv, "weights" \in DOMAIN result
               PROVE  WeightsFollowTheModelThatRan
    BY DEF WeightsFollowTheModelThatRan
  <2>1. PICK n \in Nat \ {0} :
           /\ KeptRuns \in [1..n -> Usable] /\ DOMAIN KeptRuns = 1..n
           /\ {"spec", "kept", "weights"} \subseteq DOMAIN result
           /\ result.kept = KeptRuns /\ result.spec \in Specs
           /\ result.weights = RunWeights(KeptModels, result.spec)
           /\ WeightsOf(KeptModels, result.spec, n)
    BY ResultWeights
  <2> DEFINE w == result.weights
             shares == ParseWeights(result.spec)
             K == DOMAIN result.kept
             M(k) == runs[result.kept[k]].model
             of == w.of
  <2>2. K = 1..n /\ \A k \in K : M(k) = KeptModels[k] BY <2>1 DEF KeptModels
  <2>3. /\ \A k \in K : of[k] \in Nat
        /\ SumFunctionOnSet(of, K) = w.unit
        /\ \A j, k \in K : M(j) = M(k) => of[j] = of[k]
    BY <2>1, <2>2 DEF WeightsOf
  <2>4. (\E k \in K : M(k) \notin DOMAIN shares) =>
          \A m \in DOMAIN shares :
            100 * SumFunctionOnSet(of, {k \in K : M(k) = m}) \in {0, shares[m] * w.unit}
    <3>1. (\E k \in K : KeptModels[k] \notin DOMAIN shares) =>
             \A m \in DOMAIN shares :
               100 * SumFunctionOnSet(of, {k \in K : KeptModels[k] = m}) \in {0, shares[m] * w.unit}
      BY <2>1, <2>2 DEF WeightsOf
    <3>2. \A m : {k \in K : KeptModels[k] = m} = {k \in K : M(k) = m} BY <2>2
    <3> HIDE DEF K, M, shares, of, w
    <3> QED BY <2>2, <3>1, <3>2
  <2>5. ASSUME NEW S \in SUBSET K
        PROVE  SumOver(S, LAMBDA k : w.of[k]) = SumFunctionOnSet(of, S)
    <3> DEFINE g == [k \in S |-> of[k]]
    <3>1. SumOver(S, LAMBDA k : w.of[k]) = SumFunctionOnSet(g, S) BY DEF SumOver
    <3>2. IsFiniteSet(S)
      <4>1. IsFiniteSet(1..n) BY FS_Interval
      <4> HIDE DEF K
      <4> QED BY <2>2, <4>1, FS_Subset
    <3>3. \A k \in S : of[k] \in Int /\ g[k] = of[k] BY <2>3
    <3> HIDE DEF g, of
    <3>4. SumFunctionOnSet(g, S) = SumFunctionOnSet(of, S) BY <3>2, <3>3, SumSame
    <3> QED BY <3>1, <3>4
  <2>6. SumOver(K, LAMBDA k : w.of[k]) = w.unit
    <3>1. K \in SUBSET K OBVIOUS
    <3> QED BY <2>3, <2>5, <3>1
  <2>7. \A m \in DOMAIN shares :
          SumOver({k \in K : M(k) = m}, LAMBDA k : w.of[k]) = SumFunctionOnSet(of, {k \in K : M(k) = m})
    <3> SUFFICES ASSUME NEW m \in DOMAIN shares
                 PROVE  SumOver({k \in K : M(k) = m}, LAMBDA k : w.of[k])
                          = SumFunctionOnSet(of, {k \in K : M(k) = m})
      OBVIOUS
    <3>1. {k \in K : M(k) = m} \in SUBSET K OBVIOUS
    <3> HIDE DEF K, M
    <3> QED BY <2>5, <3>1
  <2>8. (\E k \in K : M(k) \notin DOMAIN shares) =>
          \A m \in DOMAIN shares :
            100 * SumOver({k \in K : M(k) = m}, LAMBDA k : w.of[k]) \in {0, shares[m] * w.unit}
    <3> HIDE DEF K, M, shares, of
    <3> QED BY <2>4, <2>7
  <2>9. \A j, k \in K : M(j) = M(k) => w.of[j] = w.of[k] BY <2>3
  <2> QED BY <2>6, <2>8, <2>9 DEF WeightsFollowTheModelThatRan
<1> QED BY <1>1, EnsembleInvHolds, PTL

\* A validated list of numbers is made a distribution that keeps its ranking.
LEMMA OptionsBecomeDistribution ==
  ASSUME NEW r \in Seq(Int), Len(LastNumbers(r)) = Options, SumSeq(LastNumbers(r)) # 0
  PROVE  LET x == LastNumbers(r)
             f == McForecast(r)
         IN  /\ Len(f) = Options /\ \A k \in DOMAIN f : f[k] > 0
             /\ (\A k \in DOMAIN x : x[k] >= 0) =>
                  \A a, b \in DOMAIN x : x[a] >= x[b] => f[a] >= f[b]
<1> DEFINE x == LastNumbers(r)
           t == SumSeq(x)
           sgn == IF t < 0 THEN -1 ELSE 1
           f == McForecast(r)
<1>0. Options \in Nat \ {0} BY EnsembleAssumption
<1>1. x \in Seq(Int)
  <2> DEFINE m == IF Len(r) < Options THEN 1 ELSE Len(r) - Options + 1
  <2>1. m \in 1..(Len(r) + 1) BY <1>0
  <2> HIDE DEF m
  <2>2. SubSeq(r, m, Len(r)) \in Seq(Int) BY <2>1
  <2> QED BY <2>2 DEF LastNumbers, m
<1>2. DOMAIN x = 1..Options /\ \A k \in 1..Options : x[k] \in Int
  <2> HIDE DEF x
  <2> QED BY <1>0, <1>1 DEF x
<1>3. IsFiniteSet(1..Options) BY <1>0, FS_Interval
<1>4. t = SumFunctionOnSet(x, 1..Options) BY <1>2 DEF SumSeq, SumFunction
<1>5. t \in Int /\ t # 0
  <2> HIDE DEF x
  <2>1. t \in Int BY <1>2, <1>3, <1>4, SumType
  <2> QED BY <2>1 DEF x
<1>6. (\A k \in 1..Options : x[k] >= 0) => t \in Nat
  <2> HIDE DEF x, t
  <2> SUFFICES ASSUME \A k \in 1..Options : x[k] >= 0 PROVE t \in Nat OBVIOUS
  <2>1. \A k \in 1..Options : x[k] \in Nat BY <1>2
  <2>2. 1..Options \subseteq 1..Options OBVIOUS
  <2> QED BY <1>3, <1>4, <2>1, <2>2, SumMonotone
<1>7. f = [k \in 1..Options |-> Clamp(100 * x[k] * sgn, t * sgn, 99 * t * sgn)]
  BY <1>2 DEF McForecast
<1>8. /\ t * sgn \in Nat \ {0} /\ 99 * t * sgn >= t * sgn /\ 99 * t * sgn \in Int
      /\ sgn \in Int
  <2> HIDE DEF t
  <2> QED BY <1>5
<1> HIDE DEF x, f
<1>9. DOMAIN f = 1..Options /\ Len(f) = Options BY <1>0, <1>7
<1>10. ASSUME NEW k \in 1..Options PROVE f[k] > 0
  <2> DEFINE lo == t * sgn
             hi == 99 * t * sgn
             v == 100 * x[k] * sgn
  <2>1. f[k] = Clamp(v, lo, hi) BY <1>7
  <2>2. v \in Int
    <3> DEFINE y == x[k]
    <3>1. y \in Int BY <1>2
    <3> HIDE DEF y, sgn
    <3> QED BY <1>8, <3>1 DEF y
  <2> HIDE DEF lo, hi, v, t, sgn
  <2>3. lo \in Nat \ {0} /\ hi \in Int /\ hi >= lo BY <1>8 DEF lo, hi
  <2> QED BY <2>1, <2>2, <2>3 DEF Clamp
<1>11. ASSUME \A k \in 1..Options : x[k] >= 0, NEW a \in 1..Options, NEW b \in 1..Options, x[a] >= x[b]
       PROVE  f[a] >= f[b]
  <2>1. sgn = 1 BY <1>6, <1>11
  <2> DEFINE lo == t * sgn
             hi == 99 * t * sgn
             u == 100 * x[a] * sgn
             v == 100 * x[b] * sgn
  <2>2. f[a] = Clamp(u, lo, hi) /\ f[b] = Clamp(v, lo, hi) BY <1>7
  <2>3. u \in Int /\ v \in Int /\ v <= u
    <3> DEFINE y == x[a]
               z == x[b]
    <3>1. y \in Int /\ z \in Int /\ y >= z BY <1>2, <1>11
    <3> HIDE DEF y, z, sgn
    <3> QED BY <2>1, <3>1 DEF y, z
  <2> HIDE DEF lo, hi, u, v, t, sgn
  <2>4. lo \in Nat \ {0} /\ hi \in Int /\ hi >= lo BY <1>8 DEF lo, hi
  <2> QED BY <2>2, <2>3, <2>4 DEF Clamp
<1> QED BY <1>2, <1>9, <1>10, <1>11 DEF x, f

\* The replies that are averaged passed the checks of the question's kind.
LEMMA KeptReplies ==
  ASSUME EnsembleInv, "kept" \in DOMAIN result, NEW j \in DOMAIN result.kept
  PROVE  LET r == runs[result.kept[j]].reply
         IN  r \in Replies(question.kind) /\ Valid(question.kind, r) /\ Keeps(question.kind, r)
<1>1. PICK n \in Nat \ {0} :
           /\ KeptRuns \in [1..n -> Usable] /\ DOMAIN KeptRuns = 1..n
           /\ {"spec", "kept", "weights"} \subseteq DOMAIN result
           /\ result.kept = KeptRuns /\ result.spec \in Specs
           /\ result.weights = RunWeights(KeptModels, result.spec)
           /\ WeightsOf(KeptModels, result.spec, n)
  BY ResultWeights
<1>2. result.kept[j] \in Usable BY <1>1
<1> QED BY <1>2 DEF Usable, EnsembleInv, RunsTyped

\* The types, and an aggregate between the smallest and the largest run.
LEMMA EnsembleTyped == EnsembleInv => TypeOK /\ ForecastWithinRuns
<1> SUFFICES ASSUME EnsembleInv PROVE TypeOK /\ ForecastWithinRuns OBVIOUS
<1>1. question \in Questions BY DEF EnsembleInv, RunsTyped
<1>2. \A i \in Runs : /\ runs[i].phase \in {"call", "repair", "done"}
                      /\ runs[i].repaired \in BOOLEAN /\ runs[i].valid \in BOOLEAN
                      /\ runs[i].valid => runs[i].reply \in Replies(question.kind)
  BY DEF EnsembleInv, RunsTyped, NodesInv, RunShape
<1>3. result.status \in {"pending", "tiebreak", "tiebroken", "forecast", "default", "abstain", "error"}
  BY DEF EnsembleInv, ResultInv, Resulting, Pending
<1>4. result # Pending => Resulting(result) BY DEF EnsembleInv, ResultInv
<1>5. ASSUME "value" \in DOMAIN result, result.status = "forecast"
      PROVE  /\ result.value \in result.scale..(99 * result.scale)
             /\ LET p == Percents(result.kept)
                IN  /\ \E k \in DOMAIN p : p[k] * result.scale <= result.value
                    /\ \E k \in DOMAIN p : result.value <= p[k] * result.scale
  <2>0. result.status # "pending" /\ result # Pending BY <1>5 DEF Pending
  <2>1. /\ "kept" \in DOMAIN result /\ question.kind = "binary"
        /\ result.value = Mean(Percents(KeptRuns), result.weights) /\ result.scale = result.weights.unit
    BY <1>4, <1>5, <2>0 DEF Resulting
  <2>2. PICK n \in Nat \ {0} :
           /\ KeptRuns \in [1..n -> Usable] /\ DOMAIN KeptRuns = 1..n
           /\ {"spec", "kept", "weights"} \subseteq DOMAIN result
           /\ result.kept = KeptRuns /\ result.spec \in Specs
           /\ result.weights = RunWeights(KeptModels, result.spec)
           /\ WeightsOf(KeptModels, result.spec, n)
    BY <2>1, ResultWeights
  <2> DEFINE p == Percents(KeptRuns)
             of == result.weights.of
             unit == result.weights.unit
             g == [k \in DOMAIN p |-> p[k] * result.weights.of[k]]
  <2>3. unit \in Nat /\ (\A k \in 1..n : of[k] \in Nat) /\ SumFunctionOnSet(of, 1..n) = unit
    BY <2>2 DEF WeightsOf
  <2>4. p \in [1..n -> 1..99]
    <3> SUFFICES ASSUME NEW k \in 1..n PROVE Probability(runs[KeptRuns[k]].reply) \in 1..99
      BY <2>2 DEF Percents
    <3> DEFINE r == runs[KeptRuns[k]].reply
    <3>1. r \in Replies("binary") /\ Valid("binary", r)
      BY <2>1, <2>2 DEF Usable, EnsembleInv, RunsTyped
    <3>2. r \in Int BY <3>1, EnsembleAssumption DEF Replies, Valid
    <3> HIDE DEF r
    <3>3. Probability(r) \in 1..99 BY <3>2 DEF Probability, Clamp
    <3> QED BY <3>3 DEF r
  <2>5. DOMAIN p = 1..n BY <2>4
  <2>6. \A k \in 1..n : g[k] = p[k] * of[k] BY <2>5
  <2>7. Mean(p, result.weights) = SumFunctionOnSet(g, 1..n)
    <3>1. Mean(p, result.weights) = SumFunctionOnSet(g, DOMAIN p) BY DEF Mean, SumOver
    <3> QED BY <2>5, <3>1
  <2> HIDE DEF p, of, unit, g
  <2>8. Between(p, n, unit, SumFunctionOnSet(g, 1..n))
    <3>1. Products(g, p, of, n) BY <2>6 DEF Products
    <3> QED BY <2>3, <2>4, <3>1, MeanIsBetween
  <2>9. result.value = SumFunctionOnSet(g, 1..n) /\ result.scale = unit /\ Percents(result.kept) = p
    BY <2>1, <2>2, <2>7 DEF p, unit
  <2> QED BY <2>5, <2>8, <2>9 DEF Between
<1>6. "value" \in DOMAIN result => result.value \in result.scale..(99 * result.scale)
  <2> SUFFICES ASSUME "value" \in DOMAIN result
               PROVE  result.value \in result.scale..(99 * result.scale)
    OBVIOUS
  <2>1. result # Pending
    <3>1. DOMAIN Pending = {"status"} BY DEF Pending
    <3> QED BY <3>1
  <2>2. CASE result.status = "forecast" BY <1>5, <2>2
  <2>3. CASE result.status # "forecast"
    <3>1. result.scale = 1 /\ result.value \in 1..99 BY <1>4, <2>1, <2>3 DEF Resulting
    <3> QED BY <3>1
  <2> QED BY <2>2, <2>3
<1>7. TypeOK BY <1>1, <1>2, <1>3, <1>6 DEF TypeOK
<1>8. ForecastWithinRuns
  <2> SUFFICES ASSUME result.status = "forecast", question.kind = "binary"
               PROVE  LET p == Percents(result.kept)
                      IN  /\ \E k \in DOMAIN p : p[k] * result.scale <= result.value
                          /\ \E k \in DOMAIN p : result.value <= p[k] * result.scale
    BY DEF ForecastWithinRuns
  <2>1. result # Pending
    <3>1. Pending.status = "pending" BY DEF Pending
    <3> QED BY <3>1
  <2>2. "value" \in DOMAIN result BY <1>4, <2>1 DEF Resulting
  <2> QED BY <1>5, <2>2
<1> QED BY <1>7, <1>8

\* Each kept run's options become positive chances that add up and keep their order.
LEMMA EnsembleOptions == EnsembleInv => OptionsAreADistribution
<1> SUFFICES ASSUME EnsembleInv, "kept" \in DOMAIN result, question.kind = "mc",
                    NEW j \in DOMAIN result.kept
             PROVE  LET r == runs[result.kept[j]].reply
                        x == LastNumbers(r)
                        f == McForecast(r)
                    IN  /\ Len(f) = Options /\ \A k \in DOMAIN f : f[k] > 0
                        /\ (\A k \in DOMAIN x : x[k] >= 0) =>
                             \A a, b \in DOMAIN x : x[a] >= x[b] => f[a] >= f[b]
  BY DEF OptionsAreADistribution
<1> DEFINE r == runs[result.kept[j]].reply
<1>1. r \in Replies("mc") /\ Valid("mc", r) BY KeptReplies
<1> HIDE DEF r
<1>2. r \in Seq(Int) /\ Len(LastNumbers(r)) = Options /\ SumSeq(LastNumbers(r)) # 0
  BY <1>1, EnsembleAssumption DEF Replies, Valid
<1>3. LET x == LastNumbers(r)
          f == McForecast(r)
      IN  /\ Len(f) = Options /\ \A k \in DOMAIN f : f[k] > 0
          /\ (\A k \in DOMAIN x : x[k] >= 0) =>
               \A a, b \in DOMAIN x : x[a] >= x[b] => f[a] >= f[b]
  BY <1>2, OptionsBecomeDistribution
<1> QED BY <1>3 DEF r

\* Each kept run's curve is one that its reply or its backing warrants.
LEMMA EnsembleCurves == EnsembleInv => AveragedCurvesAreWitnessed
<1> SUFFICES ASSUME EnsembleInv, "kept" \in DOMAIN result, question.kind = "numeric",
                    NEW j \in DOMAIN result.kept
             PROVE  LET r == runs[result.kept[j]].reply
                        c == CurveUsed(r)
                    IN  /\ c \in {"inferred", "plain"}
                        /\ r.declared => r.gap[c] = "within"
                        /\ r.flat[c] => r.declared /\ r.backed
  BY DEF AveragedCurvesAreWitnessed
<1> DEFINE r == runs[result.kept[j]].reply
<1>1. r \in Replies("numeric") /\ Valid("numeric", r) /\ Keeps("numeric", r) BY KeptReplies
<1> HIDE DEF r
<1>2. r \in Renderings BY <1>1 DEF Replies, Valid
<1> DEFINE c == CurveUsed(r)
<1>3. c # "none" /\ ~DegenerateOffGrid(r, c) BY <1>1 DEF Keeps
<1>4. c = IF r.gap.inferred = "fails" THEN "none"
          ELSE IF ~r.declared \/ r.gap.inferred = "within" THEN "inferred"
          ELSE IF r.scaled /\ r.gap.plain = "within" THEN "plain" ELSE "none"
  BY DEF CurveUsed
<1> HIDE DEF c
<1>5. c \in {"inferred", "plain"} BY <1>3, <1>4
<1>6. r.declared => r.gap[c] = "within"
  <2>1. CASE c = "inferred" BY <1>4, <2>1
  <2>2. CASE c = "plain" BY <1>4, <2>2
  <2> QED BY <1>5, <2>1, <2>2
<1>7. r.flat[c] => r.declared /\ r.backed BY <1>3 DEF DegenerateOffGrid
<1> QED BY <1>5, <1>6, <1>7 DEF r, c

\* Every usable run is averaged, once, and no other: its final node is the only one,
\* and the list of the usable runs rises.
LEMMA EnsembleSurvivors == EnsembleInv => AllSurvivorsCount
<1> SUFFICES ASSUME EnsembleInv, "kept" \in DOMAIN result, NEW i \in Runs
             PROVE  Cardinality({k \in DOMAIN result.kept : result.kept[k] = i}) =
                      IF /\ \E x \in nodes : x.run = i /\ x.final /\ x.valid
                         /\ Keeps(question.kind, runs[i].reply)
                      THEN 1 ELSE 0
  BY DEF AllSurvivorsCount
<1> DEFINE S == {k \in DOMAIN result.kept : result.kept[k] = i}
           says == \E x \in nodes : x.run = i /\ x.final /\ x.valid
<1>1. result # Pending
  <2>1. DOMAIN Pending = {"status"} BY DEF Pending
  <2> QED BY <2>1
<1>2. NodesInv /\ RunsTyped /\ runs[i].phase = "done" /\ Resulting(result)
  BY <1>1 DEF EnsembleInv, ResultInv
<1>3. result.kept = KeptRuns BY <1>2 DEF Resulting
<1>4. says <=> runs[i].valid
  <2>1. FinalOf(i) = {Node(i, runs[i], TRUE)} BY <1>2 DEF NodesInv
  <2>2. Node(i, runs[i], TRUE) \in nodes BY <2>1 DEF FinalOf
  <2>3. /\ Node(i, runs[i], TRUE).run = i /\ Node(i, runs[i], TRUE).final
        /\ Node(i, runs[i], TRUE).valid = runs[i].valid
    BY DEF Node
  <2>4. \A x \in nodes : x.run = i /\ x.final => x = Node(i, runs[i], TRUE)
    BY <2>1 DEF FinalOf
  <2> QED BY <2>2, <2>3, <2>4
<1>5. /\ Usable \in SUBSET Nat /\ IsFiniteSet(Usable)
  <2>1. question.n \in Nat BY <1>2, EnsembleAssumption DEF RunsTyped
  <2>2. Usable \subseteq 1..question.n BY <1>2 DEF Usable, RunsTyped
  <2>3. IsFiniteSet(1..question.n) BY <2>1, FS_Interval
  <2>4. Usable \subseteq Nat BY <2>1, <2>2
  <2>5. IsFiniteSet(Usable) BY <2>2, <2>3, FS_Subset
  <2> QED BY <2>4, <2>5
<1>6. /\ DOMAIN result.kept = 1..Cardinality(Usable)
      /\ \A k \in DOMAIN result.kept : result.kept[k] \in Usable
      /\ \A j, k \in DOMAIN result.kept : result.kept[j] = result.kept[k] => j = k
      /\ \A x \in Usable : \E k \in DOMAIN result.kept : result.kept[k] = x
  <2>1. KeptRuns = Ascending(Usable) BY DEF KeptRuns, Usable
  <2> QED BY <1>3, <1>5, <2>1, AscendingLists
<1>7. i \in Usable <=> says /\ Keeps(question.kind, runs[i].reply) BY <1>4 DEF Usable
<1> HIDE DEF says
<1>8. CASE i \in Usable
  <2>1. PICK k \in DOMAIN result.kept : result.kept[k] = i BY <1>6, <1>8
  <2>2. S = {k} BY <1>6, <2>1
  <2>3. Cardinality(S) = 1 BY <2>2, FS_Singleton
  <2> QED BY <1>7, <1>8, <2>3 DEF says
<1>9. CASE i \notin Usable
  <2>1. S = {} BY <1>6, <1>9
  <2>2. Cardinality(S) = 0 BY <2>1, FS_EmptySet
  <2> QED BY <1>7, <1>9, <2>2 DEF says
<1> QED BY <1>8, <1>9

\* There is a default or an abstention only if no run can be kept.
LEMMA EnsembleDefault == EnsembleInv => DefaultOnlyWithoutSurvivors
<1> SUFFICES ASSUME EnsembleInv, result.status \in {"default", "abstain"}
             PROVE  /\ \A i \in Runs : runs[i].valid => ~Keeps(question.kind, runs[i].reply)
                    /\ result.status = "abstain" <=> question.kind = "numeric"
  BY DEF DefaultOnlyWithoutSurvivors
<1>1. result # Pending
  <2>1. Pending.status = "pending" BY DEF Pending
  <2> QED BY <2>1
<1>2. RunsTyped /\ KeptRuns = << >> /\ (result.status = "abstain" <=> question.kind = "numeric")
  BY <1>1 DEF EnsembleInv, ResultInv, Resulting
<1>3. Usable = {} BY <1>2, KeptAreUsable
<1> QED BY <1>2, <1>3 DEF Usable

\* The aggregate is made of the usable runs, of all of them, and of nothing else; each
\* was checked, and the default stands in only where there is none.
THEOREM UsableRunsAlwaysDecide == Spec => []UsableRunsDecide
<1>1. EnsembleInv => UsableRunsDecide
  BY EnsembleTyped, EnsembleOptions, EnsembleCurves, EnsembleSurvivors, EnsembleDefault
  DEF UsableRunsDecide
<1> QED BY <1>1, EnsembleInvHolds, PTL

(***************************************************************************)
(* ReportCompiler: texts put together and taken apart.                     *)
(***************************************************************************)
\* The chunks of a text are texts, none is empty, and together they are the text.
LEMMA ChunksCover ==
  ASSUME NEW text \in Seq(Lines), text # <<>>, NEW n \in Nat \ {0}
  PROVE  /\ Len(Chunks(text, n)) \in Nat \ {0}
         /\ DOMAIN Chunks(text, n) = 1..Len(Chunks(text, n))
         /\ Chunks(text, n) \in Seq(Seq(Lines))
         /\ \A k \in DOMAIN Chunks(text, n) : Chunks(text, n)[k] # <<>>
         /\ UNION {Range(Chunks(text, n)[k]) : k \in DOMAIN Chunks(text, n)} = Range(text)
         /\ Len(text) <= Len(Chunks(text, n)) * n
         /\ Len(Chunks(text, n)) = 1 => Chunks(text, n)[1] = text
         /\ Len(Chunks(text, n)) > 1 => Len(Chunks(text, n)[1]) = n
<1> DEFINE L == Len(text)
           m == (L + n - 1) \div n
           a(k) == (k - 1) * n
           b(k) == IF k * n < L THEN k * n ELSE L
           c == Chunks(text, n)
<1>1. L \in Nat \ {0} /\ DOMAIN text = 1..L /\ \A i \in 1..L : text[i] \in Lines OBVIOUS
<1>2. c = [k \in 1..m |-> SubSeq(text, a(k) + 1, b(k))] BY DEF Chunks
<1> HIDE DEF L
<1>3. /\ m \in Nat \ {0} /\ L <= m * n
      /\ \A k \in 1..m : a(k) \in Nat /\ a(k) < L /\ k * n \in Nat
      /\ \A i \in 1..L : \E k \in 1..m : a(k) < i /\ i <= k * n
      /\ m = 1 => L <= n
      /\ m > 1 => n < L
  BY <1>1, ChunkBounds
<1> HIDE DEF m
<1>4. ASSUME NEW k \in 1..m
      PROVE  /\ a(k) \in Nat /\ b(k) \in 1..L /\ a(k) < b(k) /\ b(k) <= L
             /\ b(k) = IF k * n < L THEN k * n ELSE L
  <2>1. a(k) = k * n - n BY <1>3
  <2>2. a(k) \in Nat /\ a(k) < L /\ k * n \in Nat BY <1>3
  <2> HIDE DEF a
  <2> QED BY <1>1, <2>1, <2>2
<1> HIDE DEF a, b
<1>5. ASSUME NEW k \in 1..m
      PROVE  /\ c[k] \in Seq(Lines) /\ Len(c[k]) = b(k) - a(k) /\ Len(c[k]) # 0
             /\ DOMAIN c[k] = 1..(b(k) - a(k))
             /\ \A i \in 1..(b(k) - a(k)) : c[k][i] = text[a(k) + i]
  <2>1. c[k] = SubSeq(text, a(k) + 1, b(k)) BY <1>2
  <2> DEFINE x == a(k)
             y == b(k)
  <2>2. x \in Nat /\ y \in Nat /\ x < y /\ y <= Len(text) BY <1>1, <1>4 DEF L
  <2> HIDE DEF x, y
  <2>3. /\ SubSeq(text, x + 1, y) \in Seq(Lines) /\ Len(SubSeq(text, x + 1, y)) = y - x
        /\ DOMAIN SubSeq(text, x + 1, y) = 1..(y - x)
        /\ \A i \in 1..(y - x) : SubSeq(text, x + 1, y)[i] = text[x + i]
    BY <2>2
  <2> QED BY <2>1, <2>2, <2>3 DEF x, y
<1> HIDE DEF c
<1>6. Len(c) = m /\ DOMAIN c = 1..m /\ c \in Seq(Seq(Lines))
  <2>1. DOMAIN c = 1..m /\ c = [k \in 1..m |-> c[k]] BY <1>2
  <2>2. c \in [1..m -> Seq(Lines)] BY <1>5, <2>1
  <2>3. m \in Nat BY <1>3
  <2> QED BY <2>1, <2>2, <2>3
<1>7. \A k \in 1..m : c[k] # <<>> BY <1>5
<1>8. UNION {Range(c[k]) : k \in 1..m} = Range(text)
  <2>1. ASSUME NEW k \in 1..m, NEW i \in DOMAIN c[k] PROVE c[k][i] \in Range(text)
    <3>1. i \in 1..(b(k) - a(k)) /\ c[k][i] = text[a(k) + i] BY <1>5, <2>1
    <3>2. a(k) + i \in 1..L BY <1>1, <1>4, <3>1
    <3> QED BY <1>1, <3>1, <3>2 DEF Range
  <2>2. ASSUME NEW i \in 1..L PROVE \E k \in 1..m : text[i] \in Range(c[k])
    <3>1. PICK k \in 1..m : a(k) < i /\ i <= k * n BY <1>3
    <3>2. i <= b(k)
      <4>1. i <= L /\ i <= k * n BY <1>1, <3>1
      <4> QED BY <1>4, <4>1
    <3>3. a(k) \in Nat /\ b(k) \in Nat /\ i \in Nat BY <1>1, <1>4
    <3>4. i - a(k) \in 1..(b(k) - a(k)) /\ a(k) + (i - a(k)) = i BY <3>1, <3>2, <3>3
    <3>5. c[k][i - a(k)] = text[i] BY <1>5, <3>4
    <3> QED BY <1>5, <3>4, <3>5 DEF Range
  <2>3. \A k \in 1..m : Range(c[k]) \subseteq Range(text) BY <2>1 DEF Range
  <2>4. \A x \in Range(text) : \E k \in 1..m : x \in Range(c[k]) BY <1>1, <2>2 DEF Range
  <2> QED BY <2>3, <2>4
<1>9. m = 1 => c[1] = text
  <2> SUFFICES ASSUME m = 1 PROVE c[1] = text OBVIOUS
  <2>1. 1 \in 1..m /\ L <= n BY <1>3
  <2>2. a(1) = 0 BY DEF a
  <2>3. b(1) = L
    <3>1. 1 * n = n OBVIOUS
    <3> QED BY <1>1, <2>1, <3>1 DEF b
  <2>4. c[1] = SubSeq(text, a(1) + 1, b(1)) BY <1>2, <2>1
  <2>5. a(1) + 1 = 1 BY <2>2
  <2> QED BY <2>3, <2>4, <2>5 DEF L
<1>10. m > 1 => Len(c[1]) = n
  <2> SUFFICES ASSUME m > 1 PROVE Len(c[1]) = n OBVIOUS
  <2>1. 1 \in 1..m /\ n < L BY <1>3
  <2>2. a(1) = 0 BY DEF a
  <2>3. b(1) = n
    <3>1. 1 * n = n OBVIOUS
    <3> QED BY <2>1, <3>1 DEF b
  <2> QED BY <1>5, <2>1, <2>2, <2>3
<1> QED BY <1>1, <1>3, <1>6, <1>7, <1>8, <1>9, <1>10 DEF c, L

\* A visible cut leaves the text or ends in a marker.
LEMMA CutIsVisible ==
  ASSUME NEW text \in Seq(Lines), text # <<>>, NEW n \in Nat
  PROVE  /\ VisiblyCut(text, n) \in Seq(Lines) /\ VisiblyCut(text, n) # <<>>
         /\ VisiblyCut(text, n) = text \/ Mark \in Range(VisiblyCut(text, n))
         /\ n < Len(text) => Mark \in Range(VisiblyCut(text, n))
<1>1. Len(text) \in Nat OBVIOUS
<1>2. CASE n >= Len(text) BY <1>1, <1>2 DEF VisiblyCut
<1>3. CASE n < Len(text)
  <2> DEFINE s == SubSeq(text, 1, n)
  <2>1. s \in Seq(Lines) /\ Len(s) = n BY <1>1, <1>3
  <2>2. VisiblyCut(text, n) = Append(s, Mark) BY <1>1, <1>3 DEF VisiblyCut
  <2> HIDE DEF s
  <2>3. Mark \in Lines BY DEF Mark, Lines
  <2>4. /\ Append(s, Mark) \in Seq(Lines) /\ Len(Append(s, Mark)) = n + 1
        /\ Append(s, Mark)[n + 1] = Mark
    BY <2>1, <2>3
  <2>5. n + 1 \in DOMAIN Append(s, Mark) BY <2>4
  <2>6. Mark \in Range(Append(s, Mark)) BY <2>4, <2>5 DEF Range
  <2> QED BY <2>2, <2>4, <2>6
<1> QED BY <1>1, <1>2, <1>3

\* An answer that condenses a text is labelled.
LEMMA CondensedIsLabelled ==
  ASSUME NEW text \in Seq(Lines), text # <<>>, NEW x \in Condensed(text)
  PROVE  x \in Seq(Lines) /\ x # <<>> /\ Mark \in Range(x)
<1>1. Mark \in Lines /\ Head(text) \in Lines BY DEF Mark, Lines
<1>2. CASE x = <<Mark>> \o text
  <2> DEFINE a == <<Mark>>
  <2>1. a \in Seq(Lines) BY <1>1
  <2>3. Mark \in Range(a) BY DEF Range
  <2>4. x = a \o text BY <1>2
  <2> HIDE DEF a
  <2>2. x \in Seq(Lines) /\ Range(x) = Range(a) \cup Range(text) BY <2>1, <2>4, TextsJoin
  <2>5. x # <<>> BY <2>2, <2>3 DEF Range
  <2> QED BY <2>2, <2>3, <2>5
<1>3. CASE x = <<Mark, Head(text)>>
  <2>1. x \in Seq(Lines) /\ x # <<>> /\ 1 \in DOMAIN x /\ x[1] = Mark BY <1>1, <1>3
  <2> QED BY <2>1 DEF Range
<1> QED BY <1>2, <1>3 DEF Condensed

(***************************************************************************)
(* Sections: their size, their order, the cut.                             *)
(***************************************************************************)
Sized(ss) == /\ ss \in Seq(Section) /\ \A i \in DOMAIN ss : ss[i].text # <<>>
             /\ IsFiniteSet(DOMAIN ss)

\* What there is to know of a list of sections.
LEMMA SectionFacts ==
  ASSUME NEW ss, Sized(ss)
  PROVE  /\ Len(ss) \in Nat /\ DOMAIN ss = 1..Len(ss) /\ DOMAIN ss \in SUBSET Nat
         /\ \A i \in DOMAIN ss : /\ ss[i].name \in Kinds /\ ss[i].text \in Seq(Lines)
                                 /\ ss[i].text # <<>> /\ Len(ss[i].text) \in Nat \ {0}
                                 /\ i \in Nat
<1>1. /\ Len(ss) \in Nat /\ DOMAIN ss = 1..Len(ss)
      /\ \A i \in DOMAIN ss : ss[i] \in Section
  BY DEF Sized
<1>2. ASSUME NEW i \in DOMAIN ss
      PROVE  /\ ss[i].name \in Kinds /\ ss[i].text \in Seq(Lines) /\ ss[i].text # <<>>
             /\ Len(ss[i].text) \in Nat \ {0}
  <2>1. ss[i].name \in Kinds /\ ss[i].text \in Seq(Lines) BY <1>1 DEF Section
  <2>2. ss[i].text # <<>> BY DEF Sized
  <2> DEFINE x == ss[i].text
  <2> HIDE DEF x
  <2>3. x \in Seq(Lines) /\ x # <<>> => Len(x) \in Nat \ {0} OBVIOUS
  <2> QED BY <2>1, <2>2, <2>3 DEF x
<1> QED BY <1>1, <1>2

\* The size of a list of sections is a number, and no section is larger.
LEMMA TotalCounts ==
  ASSUME NEW ss, Sized(ss)
  PROVE  /\ Total(ss) \in Nat
         /\ \A i \in DOMAIN ss : Len(ss[i].text) <= Total(ss)
<1> DEFINE f == [i \in DOMAIN ss |-> Len(ss[i].text)]
           D == DOMAIN ss
<1>1. IsFiniteSet(D) /\ DOMAIN f = D BY DEF Sized
<1>2. \A i \in D : f[i] \in Nat /\ f[i] = Len(ss[i].text) BY SectionFacts
<1>3. Total(ss) = SumFunctionOnSet(f, D) BY DEF Total, SumFunction
<1> HIDE DEF f, D
<1>4. SumFunctionOnSet(f, D) \in Nat
  <2>1. D \subseteq D OBVIOUS
  <2> QED BY <1>1, <1>2, <2>1, SumMonotone
<1>5. ASSUME NEW i \in D PROVE f[i] <= SumFunctionOnSet(f, D)
  BY <1>1, <1>2, PartBelowSum
<1> QED BY <1>2, <1>3, <1>4, <1>5 DEF D

\* The order of ByLength is one.
LongerFirst(ss, is) ==
  {p \in is \X is : \/ Len(ss[p[1]].text) > Len(ss[p[2]].text)
                    \/ Len(ss[p[1]].text) = Len(ss[p[2]].text) /\ p[1] < p[2]}

\* Of two sections one comes first.
LEMMA LongerFirstOrders ==
  ASSUME NEW ss, Sized(ss), NEW is \in SUBSET DOMAIN ss
  PROVE  IsFiniteSet(is) /\ Orders(LongerFirst(ss, is), is)
<1>1. \A i \in is : i \in Nat /\ Len(ss[i].text) \in Nat BY SectionFacts
<1>2. \A i, j \in is : <<i, j>> \in LongerFirst(ss, is) <=>
        \/ Len(ss[i].text) > Len(ss[j].text)
        \/ Len(ss[i].text) = Len(ss[j].text) /\ i < j
  BY DEF LongerFirst
<1>3. IsFiniteSet(is) BY FS_Subset DEF Sized
<1>4. \A i, j \in is : i # j => \/ <<i, j>> \in LongerFirst(ss, is)
                                \/ <<j, i>> \in LongerFirst(ss, is)
  BY <1>1, <1>2
<1>5. \A i \in is : <<i, i>> \notin LongerFirst(ss, is) BY <1>1, <1>2
<1>6. \A i, j, k \in is :
        <<i, j>> \in LongerFirst(ss, is) /\ <<j, k>> \in LongerFirst(ss, is)
          => <<i, k>> \in LongerFirst(ss, is)
  <2> SUFFICES ASSUME NEW i \in is, NEW j \in is, NEW k \in is,
                      <<i, j>> \in LongerFirst(ss, is), <<j, k>> \in LongerFirst(ss, is)
               PROVE  <<i, k>> \in LongerFirst(ss, is)
    OBVIOUS
  <2> DEFINE x == Len(ss[i].text)
             y == Len(ss[j].text)
             z == Len(ss[k].text)
  <2>1. (x > y \/ (x = y /\ i < j)) /\ (y > z \/ (y = z /\ j < k)) BY <1>2
  <2>2. x \in Nat /\ y \in Nat /\ z \in Nat /\ i \in Nat /\ j \in Nat /\ k \in Nat BY <1>1
  <2> HIDE DEF x, y, z
  <2>3. x > z \/ (x = z /\ i < k) BY <2>1, <2>2
  <2> QED BY <1>2, <2>3 DEF x, z
<1> QED BY <1>3, <1>4, <1>5, <1>6 DEF Orders

\* ByLength lists what it is given, all of it.
LEMMA ByLengthLists ==
  ASSUME NEW ss, Sized(ss), NEW is \in SUBSET DOMAIN ss
  PROVE  ByLength(ss, is) \in Seq(is) /\ Range(ByLength(ss, is)) = is
<1> DEFINE R == LongerFirst(ss, is)
           n == Cardinality(is)
<1>1. ByLength(ss, is) = Ordered(is, R) BY DEF ByLength, LongerFirst
<1>2. IsFiniteSet(is) /\ Orders(R, is) BY LongerFirstOrders
<1> HIDE DEF R
<1>3. n \in Nat /\ Ordered(is, R) \in [1..n -> is]
      /\ \A x \in is : \E k \in 1..n : Ordered(is, R)[k] = x
  BY <1>2, OrderedLists
<1> HIDE DEF n
<1>4. Ordered(is, R) \in Seq(is) BY <1>3
<1>5. Range(Ordered(is, R)) = is BY <1>3 DEF Range
<1> QED BY <1>1, <1>4, <1>5

\* Candidates lists the research sections, and then, for the paid compression only,
\* those of the resolution source.
LEMMA CandidatesList ==
  ASSUME NEW ss, Sized(ss), NEW m
  PROVE  LET c == Candidates(ss, m) IN
         /\ c \in Seq(DOMAIN ss)
         /\ \A i \in DOMAIN ss : ss[i].name # "resolution" => i \in Range(c)
         /\ m # "off" => \A k \in DOMAIN c : ss[c[k]].name # "resolution"
         /\ \A j, k \in DOMAIN c : j < k /\ ss[c[j]].name = "resolution" =>
                                     ss[c[k]].name = "resolution"
<1> DEFINE A == {i \in DOMAIN ss : ss[i].name \in Kinds \ {"resolution"}}
           B == {i \in DOMAIN ss : ss[i].name \in {"resolution"}}
           a == ByLength(ss, A)
           b == IF m = "off" THEN ByLength(ss, B) ELSE <<>>
           c == Candidates(ss, m)
<1>1. A \in SUBSET DOMAIN ss /\ B \in SUBSET DOMAIN ss OBVIOUS
<1>2. c = a \o b BY DEF Candidates
<1>3. \A i \in DOMAIN ss : i \in A <=> ss[i].name # "resolution" BY SectionFacts
<1>4. \A i \in B : ss[i].name = "resolution" OBVIOUS
<1> HIDE DEF A, B, c
<1>5. a \in Seq(A) /\ Range(a) = A BY <1>1, ByLengthLists
<1>6. b \in Seq(B) /\ (m # "off" => b = <<>>)
  <2>1. ByLength(ss, B) \in Seq(B) BY <1>1, ByLengthLists
  <2>2. <<>> \in Seq(B) OBVIOUS
  <2> QED BY <2>1, <2>2
<1> HIDE DEF a, b
<1>7. a \in Seq(DOMAIN ss) /\ b \in Seq(DOMAIN ss)
  <2>1. A \subseteq DOMAIN ss /\ B \subseteq DOMAIN ss BY <1>1
  <2> QED BY <1>5, <1>6, <2>1
<1>8. c \in Seq(DOMAIN ss) /\ Range(c) = Range(a) \cup Range(b) BY <1>2, <1>7, TextsJoin
<1>9. /\ Len(a) \in Nat /\ Len(b) \in Nat /\ DOMAIN c = 1..Len(a) + Len(b)
      /\ \A k \in DOMAIN c : c[k] = IF k <= Len(a) THEN a[k] ELSE b[k - Len(a)]
  BY <1>2, <1>7
<1>10. \A k \in 1..Len(a) : a[k] \in A BY <1>5
<1>11. \A k \in 1..Len(b) : b[k] \in B BY <1>6
<1>12. ASSUME NEW k \in DOMAIN c
       PROVE  c[k] \in DOMAIN ss /\ (ss[c[k]].name = "resolution" <=> k > Len(a))
  <2>1. CASE k <= Len(a)
    <3>1. k \in 1..Len(a) /\ c[k] = a[k] BY <1>9, <2>1
    <3>2. c[k] \in A BY <1>10, <3>1
    <3> QED BY <1>1, <1>3, <1>9, <2>1, <3>2
  <2>2. CASE k > Len(a)
    <3>1. k - Len(a) \in 1..Len(b) /\ c[k] = b[k - Len(a)] BY <1>9, <2>2
    <3>2. c[k] \in B BY <1>11, <3>1
    <3> QED BY <1>1, <1>4, <2>2, <3>2
  <2> QED BY <1>9, <2>1, <2>2
<1>13. \A i \in DOMAIN ss : ss[i].name # "resolution" => i \in Range(c) BY <1>3, <1>5, <1>8
<1>14. m # "off" => \A k \in DOMAIN c : ss[c[k]].name # "resolution"
  <2> SUFFICES ASSUME m # "off", NEW k \in DOMAIN c PROVE ss[c[k]].name # "resolution" OBVIOUS
  <2>1. Len(b) = 0 BY <1>6
  <2>2. ~(k > Len(a)) BY <1>9, <2>1
  <2> QED BY <1>12, <2>2
<1>15. ASSUME NEW j \in DOMAIN c, NEW k \in DOMAIN c, j < k, ss[c[j]].name = "resolution"
       PROVE  ss[c[k]].name = "resolution"
  <2>1. j > Len(a) BY <1>12, <1>15
  <2>2. k > Len(a) BY <1>9, <1>15, <2>1
  <2> QED BY <1>12, <2>2
<1> QED BY <1>8, <1>13, <1>14, <1>15 DEF c

\* The largest research section is one: the longest, of those the first.
LEMMA LargestIsOne ==
  ASSUME NEW ss, Sized(ss), NEW is \in SUBSET DOMAIN ss, is # {}
  PROVE  \E i \in is : \A j \in is : \/ Len(ss[j].text) < Len(ss[i].text)
                                     \/ Len(ss[j].text) = Len(ss[i].text) /\ i <= j
<1>1. /\ IsFiniteSet(is)
      /\ \A i \in is : i \in Nat /\ Len(ss[i].text) \in Nat /\ Len(ss[i].text) <= Total(ss)
      /\ Total(ss) \in Nat
  BY FS_Subset, SectionFacts, TotalCounts DEF Sized
<1> DEFINE M == {n \in 0..Total(ss) : \E i \in is : Len(ss[i].text) = n}
<1>2. PICK m \in M : \A n \in M : n <= m
  <2>1. M # {} BY <1>1
  <2>2. M \in SUBSET (0..Total(ss)) /\ \A n \in M : n \in Nat BY <1>1
  <2>3. IsFiniteSet(0..Total(ss)) BY <1>1, FS_Interval
  <2> HIDE DEF M
  <2>4. IsFiniteSet(M) BY <2>2, <2>3, FS_Subset
  <2> QED BY <2>1, <2>2, <2>4, GreatestNumber
<1> DEFINE I == {i \in is : Len(ss[i].text) = m}
<1>3. PICK i \in I : \A j \in I : i <= j
  <2>1. I \in SUBSET Nat /\ I # {} BY <1>1
  <2> HIDE DEF I
  <2> QED BY <2>1, LeastNumber
<1>4. ASSUME NEW j \in is
      PROVE  \/ Len(ss[j].text) < Len(ss[i].text)
             \/ Len(ss[j].text) = Len(ss[i].text) /\ i <= j
  <2>1. Len(ss[j].text) \in M BY <1>1
  <2>2. Len(ss[j].text) <= m /\ Len(ss[i].text) = m BY <1>2, <2>1
  <2>3. Len(ss[j].text) = m => i <= j BY <1>3
  <2>4. Len(ss[j].text) \in Nat /\ m \in Nat BY <1>1
  <2> QED BY <2>2, <2>3, <2>4
<1>5. i \in is OBVIOUS
<1> HIDE DEF I, M
<1>6. \A j \in is : \/ Len(ss[j].text) < Len(ss[i].text)
                    \/ Len(ss[j].text) = Len(ss[i].text) /\ i <= j
  BY <1>4
<1> QED BY <1>5, <1>6

\* The final cut leaves every section as it is, but for a research section that ends
\* in a marker then.
LEMMA OverflowCuts ==
  ASSUME Sized(fitted)
  PROVE  /\ Sized(Overflow) /\ Len(Overflow) = Len(fitted)
         /\ \A i \in DOMAIN fitted :
              /\ Overflow[i].name = fitted[i].name
              /\ \/ Overflow[i] = fitted[i]
                 \/ fitted[i].name # "resolution" /\ Mark \in Range(Overflow[i].text)
<1> DEFINE research == {i \in DOMAIN fitted : fitted[i].name # "resolution"}
           larger(i, j) == \/ Len(fitted[j].text) < Len(fitted[i].text)
                           \/ Len(fitted[j].text) = Len(fitted[i].text) /\ i <= j
           i == CHOOSE k \in research : \A j \in research : larger(k, j)
           keep == Larger(MinTarget, Len(fitted[i].text) - (Total(fitted) - Budget))
           ov == IF research = {} THEN fitted
                 ELSE [fitted EXCEPT ![i].text = VisiblyCut(@, keep)]
<1>1. Overflow = ov BY DEF Overflow
<1>2. CASE research = {} BY <1>1, <1>2
<1>3. CASE research # {}
  <2>1. i \in research
    <3>1. \E k \in research : \A j \in research : larger(k, j)
      <4>1. research \in SUBSET DOMAIN fitted OBVIOUS
      <4> HIDE DEF research
      <4> QED BY <1>3, <4>1, LargestIsOne
    <3> HIDE DEF research, larger
    <3> QED BY <3>1
  <2> HIDE DEF i
  <2>2. i \in DOMAIN fitted /\ fitted[i].name # "resolution" BY <2>1
  <2>3. keep \in Nat
    <3>1. Len(fitted[i].text) \in Nat /\ Total(fitted) \in Nat /\ Budget \in Nat /\ MinTarget \in Nat
      BY <2>2, SectionFacts, TotalCounts, ReportsAssumption
    <3> DEFINE x == Len(fitted[i].text)
               y == Total(fitted)
    <3> HIDE DEF x, y
    <3>2. x \in Nat /\ y \in Nat BY <3>1 DEF x, y
    <3>3. Larger(MinTarget, x - (y - Budget)) \in Nat BY <3>1, <3>2 DEF Larger
    <3> QED BY <3>3 DEF x, y
  <2> HIDE DEF keep
  <2> DEFINE t == fitted[i].text
             cut == VisiblyCut(t, keep)
  <2>4. t \in Seq(Lines) /\ t # <<>> BY <2>2, SectionFacts
  <2>5. /\ cut \in Seq(Lines) /\ cut # <<>> /\ (cut = t \/ Mark \in Range(cut))
    BY <2>3, <2>4, CutIsVisible
  <2>6. ov = [fitted EXCEPT ![i].text = cut] BY <1>3
  <2> HIDE DEF research, ov, cut
  <2>7. /\ DOMAIN ov = DOMAIN fitted
        /\ \A j \in DOMAIN fitted : j # i => ov[j] = fitted[j]
        /\ ov[i] = [fitted[i] EXCEPT !.text = cut]
    BY <2>2, <2>6
  <2>0. \A j \in DOMAIN fitted : fitted[j] \in Section BY DEF Sized
  <2>8. fitted[i] \in [name : Kinds, text : Seq(Lines)] BY <2>0, <2>2 DEF Section
  <2>9. /\ ov[i] \in [name : Kinds, text : Seq(Lines)] /\ ov[i].name = fitted[i].name
        /\ ov[i].text = cut
    BY <2>5, <2>7, <2>8
  <2>10. cut = t => ov[i] = fitted[i]
    <3> SUFFICES ASSUME cut = t PROVE ov[i] = fitted[i] OBVIOUS
    <3>1. fitted[i] = [name |-> fitted[i].name, text |-> fitted[i].text] BY <2>8
    <3>2. ov[i] = [name |-> ov[i].name, text |-> ov[i].text] BY <2>9
    <3> QED BY <2>9, <3>1, <3>2
  <2>11. ov \in Seq(Section) /\ Len(ov) = Len(fitted)
    <3>0. ov[i] \in Section BY <2>9 DEF Section
    <3>1. \A j \in DOMAIN fitted : ov[j] \in Section BY <2>0, <2>7, <3>0
    <3>2. Len(fitted) \in Nat /\ DOMAIN fitted = 1..Len(fitted) BY SectionFacts
    <3>3. ov \in Seq(Section)
      <4>1. ov = [j \in 1..Len(fitted) |-> ov[j]] BY <2>6, <3>2
      <4> QED BY <3>1, <3>2, <4>1
    <3> QED BY <2>7, <3>2, <3>3
  <2>12. Sized(ov)
    <3>1. \A j \in DOMAIN ov : ov[j].text # <<>> BY <2>5, <2>7, <2>9, SectionFacts
    <3> QED BY <2>7, <2>11, <3>1 DEF Sized
  <2>13. ASSUME NEW j \in DOMAIN fitted
         PROVE  /\ ov[j].name = fitted[j].name
                /\ \/ ov[j] = fitted[j]
                   \/ fitted[j].name # "resolution" /\ Mark \in Range(ov[j].text)
    BY <2>2, <2>5, <2>7, <2>9, <2>10
  <2> QED BY <1>1, <2>11, <2>12, <2>13
<1> QED BY <1>2, <1>3

\* The sections as Prepare takes them over from research.
LEMMA PreparedSections ==
  ASSUME NEW r \in Reports, NEW full, full = Ascending({i \in DOMAIN r : r[i].text # <<>>}),
         NEW ss, ss = [n \in DOMAIN full |-> r[full[n]]]
  PROVE  Sized(ss) /\ \A i \in DOMAIN ss : Mark \notin Range(ss[i].text)
<1> DEFINE I == {i \in DOMAIN r : r[i].text # <<>>}
           n == Cardinality(I)
<1>1. /\ r \in Seq(Section) /\ Len(r) \in Nat /\ DOMAIN r = 1..Len(r)
      /\ \A i \in DOMAIN r : r[i] \in Section /\ Mark \notin Range(r[i].text)
  BY ReportsAssumption
<1>2. I \in SUBSET Nat /\ IsFiniteSet(I)
  <2>1. I \in SUBSET (1..Len(r)) /\ I \in SUBSET Nat BY <1>1
  <2>2. IsFiniteSet(1..Len(r)) BY <1>1, FS_Interval
  <2> HIDE DEF I
  <2> QED BY <2>1, <2>2, FS_Subset
<1>3. full = Ascending(I) OBVIOUS
<1>4. \A i \in I : r[i] \in Section /\ r[i].text # <<>> /\ Mark \notin Range(r[i].text) BY <1>1
<1> HIDE DEF I
<1>5. n \in Nat /\ full \in [1..n -> I] BY <1>2, <1>3, AscendingLists
<1> HIDE DEF n
<1>6. DOMAIN ss = 1..n /\ \A k \in 1..n : full[k] \in I /\ ss[k] = r[full[k]] BY <1>5
<1>7. \A k \in 1..n : ss[k] \in Section /\ ss[k].text # <<>> /\ Mark \notin Range(ss[k].text)
  BY <1>4, <1>6
<1>8. ss \in Seq(Section)
  <2>0. ss = [k \in DOMAIN full |-> r[full[k]]] OBVIOUS
  <2>1. ss = [k \in 1..n |-> ss[k]] BY <1>6, <2>0
  <2>2. ss \in [1..n -> Section] BY <1>7, <2>1
  <2> QED BY <1>5, <2>2, NumberedIsSeq
<1>9. IsFiniteSet(1..n) BY <1>5, FS_Interval
<1>10. Sized(ss) BY <1>6, <1>7, <1>8, <1>9 DEF Sized
<1> QED BY <1>6, <1>7, <1>10

PartSize == IF Qwen THEN ChunkQwen ELSE ChunkOff
PartsOf(text) == Chunks(text, PartSize)

\* A chunk has some lines; for the paid compression more than a chunk is condensed to.
LEMMA PartSizeIsOne == PartSize \in Nat \ {0} /\ (~Qwen => PartSize > MinTarget \div 2)
<1>1. MinTarget \in Nat /\ ChunkOff \in Nat /\ ChunkOff > MinTarget \div 2 /\ ChunkQwen \in Nat \ {0}
  BY ReportsAssumption
<1>2. MinTarget \div 2 \in Nat BY <1>1
<1> QED BY <1>1, <1>2 DEF PartSize

\* The size a text is condensed to is a number; a text of that size or less is small.
LEMMA TargetBounds ==
  ASSUME Sized(fitted), NEW i \in DOMAIN fitted
  PROVE  LET text == fitted[i].text IN
         /\ Target(text) \in Nat
         /\ OverBudget /\ Target(text) >= Len(text) => Len(text) <= MinTarget
         /\ \A n \in Nat \ {0} : ChunkTarget(text, n) \in Nat
<1> DEFINE x == Len(fitted[i].text)
           y == Total(fitted)
           t == Target(fitted[i].text)
<1>1. x \in Nat \ {0} /\ y \in Nat /\ Budget \in Nat /\ MinTarget \in Nat
  BY SectionFacts, TotalCounts, ReportsAssumption
<1>2. t = Larger(Larger(x - (y - Budget), x \div 4), MinTarget) BY DEF Target
<1>3. OverBudget => y > Budget BY DEF OverBudget
<1> HIDE DEF x, y, t
<1>4. x \div 4 \in Nat /\ x \div 4 < x BY <1>1
<1>5. t \in Nat BY <1>1, <1>2, <1>4 DEF Larger
<1>6. OverBudget /\ t >= x => x <= MinTarget
  <2> SUFFICES ASSUME y > Budget, t >= x PROVE x <= MinTarget BY <1>3
  <2>1. x - (y - Budget) < x BY <1>1
  <2> QED BY <1>1, <1>2, <1>4, <2>1 DEF Larger
<1>7. ASSUME NEW n \in Nat \ {0} PROVE ChunkTarget(fitted[i].text, n) \in Nat
  <2>1. ChunkTarget(fitted[i].text, n) = Larger(MinTarget \div 2, t \div n) BY DEF ChunkTarget, t
  <2>2. MinTarget \div 2 \in Nat /\ t \div n \in Nat BY <1>1, <1>5
  <2> QED BY <2>1, <2>2 DEF Larger
<1> QED BY <1>5, <1>6, <1>7 DEF x, t

\* No more chunks are asked for than calls are left, and the paid compression asks for
\* one of every section it tries.
LEMMA AskedIsBounded ==
  ASSUME Sized(fitted), NEW i \in DOMAIN fitted, CallsLeft \in Nat \ {0}, NEW t \in Nat
  PROVE  LET asked == Asked(PartsOf(fitted[i].text), t) IN
         /\ asked \subseteq {k \in DOMAIN PartsOf(fitted[i].text) :
                               Len(PartsOf(fitted[i].text)[k]) > t}
         /\ Cardinality(asked) \in Nat /\ Cardinality(asked) <= CallsLeft
         /\ (\E k \in DOMAIN PartsOf(fitted[i].text) : Len(PartsOf(fitted[i].text)[k]) > t) =>
              asked # {}
<1> DEFINE c == PartsOf(fitted[i].text)
           long == {k \in DOMAIN c : Len(c[k]) > t}
           asked == {k \in long : Cardinality({j \in long : j < k}) < CallsLeft}
           D == DOMAIN c
<1>1. Asked(c, t) = asked BY DEF Asked
<1>2. fitted[i].text \in Seq(Lines) /\ fitted[i].text # <<>> BY SectionFacts
<1>3. Len(c) \in Nat /\ D = 1..Len(c) BY <1>2, PartSizeIsOne, ChunksCover DEF PartsOf
<1>4. IsFiniteSet(D) /\ D \in SUBSET Nat BY <1>3, FS_Interval
<1>5. long \in SUBSET D OBVIOUS
<1> HIDE DEF long, D
<1>6. long \in SUBSET Nat /\ IsFiniteSet(long) BY <1>4, <1>5, FS_Subset
<1>7. Cardinality(asked) \in Nat /\ Cardinality(asked) <= CallsLeft BY <1>6, FewBefore
<1>8. asked \subseteq long OBVIOUS
<1>9. long # {} => asked # {}
  <2> SUFFICES ASSUME long # {} PROVE asked # {} OBVIOUS
  <2>1. PICK m \in long : \A n \in long : m <= n BY <1>6, LeastNumber
  <2>2. {j \in long : j < m} = {}
    <3> SUFFICES ASSUME NEW j \in long, j < m PROVE FALSE OBVIOUS
    <3>1. j \in Nat /\ m \in Nat /\ m <= j BY <1>6, <2>1
    <3> QED BY <3>1
  <2>3. Cardinality({j \in long : j < m}) = 0 BY <2>2, FS_EmptySet
  <2>4. m \in asked BY <2>3
  <2> QED BY <2>4
<1> HIDE DEF asked, c
<1>10. (\E k \in DOMAIN c : Len(c[k]) > t) => asked # {} BY <1>9 DEF long
<1>11. asked \subseteq {k \in DOMAIN c : Len(c[k]) > t} BY <1>8 DEF long
<1> QED BY <1>1, <1>7, <1>10, <1>11 DEF c

\* A text that is longer than its target has a chunk that is longer than its own.
LEMMA SomeChunkIsLong ==
  ASSUME Sized(fitted), NEW i \in DOMAIN fitted, ~Qwen, Target(fitted[i].text) < Len(fitted[i].text)
  PROVE  LET c == PartsOf(fitted[i].text) IN
         \E k \in DOMAIN c : Len(c[k]) > ChunkTarget(fitted[i].text, Len(c))
<1> DEFINE text == fitted[i].text
           c == PartsOf(text)
           m == Len(c)
           t == Target(text)
           L == Len(text)
           h == MinTarget \div 2
           n == PartSize
           ct == ChunkTarget(text, m)
<1>1. text \in Seq(Lines) /\ text # <<>> /\ L \in Nat BY SectionFacts
<1>2. /\ m \in Nat \ {0} /\ DOMAIN c = 1..m /\ L <= m * n
      /\ m = 1 => c[1] = text
      /\ m > 1 => Len(c[1]) = n
  BY <1>1, PartSizeIsOne, ChunksCover DEF PartsOf
<1>3. n \in Nat \ {0} /\ n > h /\ h \in Nat /\ h <= MinTarget /\ MinTarget \in Nat
  BY PartSizeIsOne, ReportsAssumption
<1>4. t \in Nat /\ t < L /\ MinTarget <= t
  <2>1. t \in Nat BY TargetBounds
  <2>2. MinTarget <= t
    <3> DEFINE a == Larger(Len(text) - (Total(fitted) - Budget), Len(text) \div 4)
    <3>1. t = Larger(a, MinTarget) BY DEF Target
    <3> HIDE DEF a, t
    <3> QED BY <1>3, <2>1, <3>1 DEF Larger
  <2> QED BY <2>1, <2>2
<1>5. ct = Larger(h, t \div m) BY DEF ChunkTarget
<1> HIDE DEF text, c, m, t, L, h, n, ct
<1>6. CASE m = 1
  <2>1. t \div m = t BY <1>4, <1>6
  <2>2. ct < L BY <1>3, <1>4, <1>5, <2>1 DEF Larger
  <2>3. 1 \in DOMAIN c /\ Len(c[1]) = L BY <1>2, <1>6 DEF L
  <2>4. Len(c[1]) > ct BY <1>1, <1>3, <1>4, <1>5, <2>1, <2>2, <2>3 DEF Larger
  <2> QED BY <2>3, <2>4 DEF text, c, m, ct
<1>7. CASE m > 1
  <2> DEFINE d == t \div m
  <2>1. d \in Nat /\ d * m <= t BY <1>2, <1>4
  <2> HIDE DEF d
  <2>2. d < n
    <3> SUFFICES ASSUME d >= n PROVE FALSE BY <1>3, <2>1
    <3>1. d - n \in Nat BY <1>3, <2>1
    <3>2. (d - n) * m \in Nat /\ n * m \in Nat BY <1>2, <1>3, <3>1
    <3>3. n * m + (d - n) * m = d * m BY <1>2, <1>3, <2>1
    <3>4. n * m = m * n BY <1>2, <1>3
    <3> QED BY <1>1, <1>2, <1>4, <2>1, <3>2, <3>3, <3>4
  <2>3. ct < n BY <1>3, <1>5, <2>1, <2>2 DEF Larger, d
  <2>4. ct \in Nat BY <1>3, <1>5, <2>1 DEF Larger, d
  <2>5. 1 \in DOMAIN c /\ Len(c[1]) = n BY <1>2, <1>7
  <2>6. Len(c[1]) > ct BY <1>3, <2>3, <2>4, <2>5
  <2> QED BY <2>5, <2>6 DEF text, c, m, ct
<1> QED BY <1>2, <1>6, <1>7

(***************************************************************************)
(* ReportCompiler: the inductive invariant.                                *)
(***************************************************************************)
States == {"raw", "waits", "runs", "condensed", "failed", "limit", "paused", "cancelled"}
Job == [st : States, text : Seq(Lines)]

IsRes(i) == input[i].name = "resolution"
Settled(j) == fitted[j] # input[j] \/ Len(input[j].text) <= MinTarget

\* What holds of the sections as they came and as they are fitted.
SectionsInv ==
  /\ conf \in [mode : {"off", "review", "experimental"}, qwen : BOOLEAN, truncate : BOOLEAN]
  /\ Sized(input) /\ Sized(fitted) /\ Len(fitted) = Len(input)
  /\ \A i \in DOMAIN input : /\ fitted[i].name = input[i].name
                             /\ Mark \notin Range(input[i].text)
  /\ NoSilentLoss
  /\ ResolutionIsLast
  /\ Total(input) <= Budget => fitted = input

\* What is still to be condensed: no section of research is left out, and those of the
\* resolution source come after all of them.
QueueInv ==
  /\ todo \in Seq(DOMAIN fitted) /\ cur \in {0} \cup DOMAIN fitted
  /\ calls \in Nat /\ calls <= IF Qwen THEN CallsQwen ELSE CallsOff
  /\ Total(input) <= Budget => calls = 0 /\ at # "condense"
  /\ at \in {"fit", "condense"} =>
       /\ Qwen => \A n \in DOMAIN todo : ~IsRes(todo[n])
       /\ ~Qwen => /\ \A j \in DOMAIN input : \/ IsRes(j) \/ Settled(j) \/ j \in Range(todo)
                                              \/ at = "condense" /\ cur = j
                   /\ \A a, b \in DOMAIN todo : a < b /\ IsRes(todo[a]) => IsRes(todo[b])
  /\ at = "condense" =>
       /\ cur \in DOMAIN fitted
       /\ Qwen => ~IsRes(cur)
       /\ ~Qwen /\ IsRes(cur) => \A n \in DOMAIN todo : IsRes(todo[n])

\* A chunk is as it was, or its text says that something may be missing.
JobFits(job, part, least) ==
  /\ job.st # "cancelled"
  /\ job.st = "paused" => conf.mode = "review"
  /\ job.st \in {"raw", "waits", "runs"} => job.text = part
  /\ job.st \in {"waits", "runs"} => Len(job.text) > least
  /\ job.text = part \/ Mark \in Range(job.text)
  /\ ~Qwen /\ job.st \in {"condensed", "failed"} => Mark \in Range(job.text)
CurParts == PartsOf(fitted[cur].text)
TargetNow == ChunkTarget(fitted[cur].text, Len(jobs))

JobsInv ==
  /\ jobs \in Seq(Job)
  /\ at # "condense" => Running = {}
  /\ ~Qwen => \A j, k \in Running : j = k
  /\ at = "condense" =>
       /\ DOMAIN jobs = DOMAIN CurParts
       /\ ~Qwen => \E k \in DOMAIN jobs : jobs[k].st # "raw"
       /\ \A k \in DOMAIN jobs : JobFits(jobs[k], CurParts[k], TargetNow)

EndInv ==
  /\ at \in CompilerEnds \cup {"start", "fit", "condense", "write", "audit", "fallback"}
  /\ brief \in {"none", "empty", "heuristic", "draft", "revised"}
  /\ docs \subseteq {"compiler_input", "brief:pre-audit", "brief:draft"}
  /\ at = "start" => calls = 0 /\ jobs = <<>> /\ cur = 0 /\ fitted = <<>>
  /\ OnlyReviewPauses

CompInv == SectionsInv /\ QueueInv /\ JobsInv /\ EndInv

\* Before the first step there are no sections.
LEMMA CompInitial == CompilerInit => CompInv
<1> SUFFICES ASSUME CompilerInit PROVE CompInv OBVIOUS
<1> USE DEF CompilerInit
<1>1. DOMAIN input = {} /\ DOMAIN fitted = {} /\ DOMAIN jobs = {} /\ DOMAIN todo = {} OBVIOUS
<1>2. Sized(input) /\ Sized(fitted)
  <2>1. <<>> \in Seq(Section) OBVIOUS
  <2> QED BY <1>1, <2>1, FS_EmptySet DEF Sized
<1>3. SectionsInv BY <1>1, <1>2 DEF SectionsInv, NoSilentLoss, ResolutionIsLast
<1>4. Running = {} BY <1>1 DEF Running
<1>5. QueueInv
  <2>1. CallsOff \in Nat /\ CallsQwen \in Nat BY ReportsAssumption
  <2>2. <<>> \in Seq(DOMAIN fitted) OBVIOUS
  <2> QED BY <2>1, <2>2 DEF QueueInv
<1>6. JobsInv
  <2>1. <<>> \in Seq(Job) OBVIOUS
  <2> QED BY <1>4, <2>1 DEF JobsInv
<1>7. EndInv BY DEF EndInv, OnlyReviewPauses
<1> QED BY <1>3, <1>5, <1>6, <1>7 DEF CompInv

\* Sections that nobody touches keep what holds of them.
LEMMA SectionsStay ==
  ASSUME SectionsInv, UNCHANGED <<conf, input, fitted>>
  PROVE  SectionsInv'
BY DEF SectionsInv, NoSilentLoss, ResolutionIsLast, Qwen

\* A section changes by what is marked; those of the resolution source when every other
\* one has.
LEMMA SectionsChange ==
  ASSUME SectionsInv, UNCHANGED <<conf, input>>,
         Sized(fitted'), Len(fitted') = Len(fitted),
         \A i \in DOMAIN fitted :
           /\ fitted'[i].name = fitted[i].name
           /\ \/ Mark \in Range(fitted'[i].text)
              \/ Range(fitted'[i].text) = Range(fitted[i].text)
           /\ ~Qwen => fitted'[i] = fitted[i] \/ Mark \in Range(fitted'[i].text)
           /\ IsRes(i) /\ fitted'[i] # fitted[i] =>
                ~Qwen /\ \A j \in DOMAIN input : IsRes(j) \/ Settled(j),
         Total(input) <= Budget => fitted' = fitted
  PROVE  /\ SectionsInv' /\ DOMAIN fitted' = DOMAIN fitted
         /\ ~Qwen => \A j \in DOMAIN input : Settled(j) => Settled(j)'
<1>1. DOMAIN fitted = DOMAIN input /\ DOMAIN fitted' = DOMAIN fitted
  <2>1. Sized(input) /\ Sized(fitted) /\ Len(fitted) = Len(input) BY DEF SectionsInv
  <2>2. DOMAIN input = 1..Len(input) /\ DOMAIN fitted = 1..Len(fitted) BY <2>1, SectionFacts
  <2>3. DOMAIN fitted' = 1..Len(fitted') BY SectionFacts
  <2> QED BY <2>1, <2>2, <2>3
<1>2. ASSUME NEW i \in DOMAIN input
      PROVE  \/ Range(input[i].text) \subseteq Range(fitted'[i].text)
             \/ Mark \in Range(fitted'[i].text)
  BY <1>1 DEF SectionsInv, NoSilentLoss
<1>3. ASSUME NEW j \in DOMAIN input, ~Qwen, Settled(j) PROVE Settled(j)'
  <2>1. fitted'[j] # input[j] \/ Len(input[j].text) <= MinTarget
    <3>1. CASE fitted'[j] = fitted[j] BY <1>3, <3>1 DEF Settled
    <3>2. CASE Mark \in Range(fitted'[j].text) BY <3>2 DEF SectionsInv
    <3> QED BY <1>1, <1>3, <3>1, <3>2
  <2> QED BY <2>1 DEF Settled
<1>4. ASSUME NEW i \in DOMAIN input, IsRes(i), fitted'[i] # input[i]
      PROVE  ~Qwen /\ \A j \in DOMAIN input : IsRes(j) \/ Settled(j)'
  <2>1. ~Qwen /\ \A j \in DOMAIN input : IsRes(j) \/ Settled(j)
    <3>1. CASE fitted'[i] # fitted[i] BY <1>1, <1>4, <3>1
    <3>2. CASE fitted[i] # input[i]
      <4>1. ResolutionIsLast /\ input[i].name = "resolution" BY <1>4 DEF SectionsInv, IsRes
      <4> QED BY <3>2, <4>1 DEF ResolutionIsLast, IsRes, Settled
    <3> QED BY <1>4, <3>1, <3>2
  <2> QED BY <1>3, <2>1
<1>5. NoSilentLoss' BY <1>2 DEF NoSilentLoss
<1>6. ResolutionIsLast'
  <2> SUFFICES ASSUME NEW i \in DOMAIN input, input[i].name = "resolution", fitted'[i] # input[i]
               PROVE  /\ ~Qwen'
                      /\ \A j \in DOMAIN input :
                           \/ input[j].name = "resolution" \/ fitted'[j] # input[j]
                           \/ Len(input[j].text) <= MinTarget
    BY DEF ResolutionIsLast
  <2>1. IsRes(i) BY DEF IsRes
  <2>2. ~Qwen /\ \A j \in DOMAIN input : IsRes(j) \/ Settled(j)' BY <1>4, <2>1
  <2>3. ~Qwen' BY <2>2 DEF Qwen
  <2> QED BY <2>2, <2>3 DEF IsRes, Settled
<1>7. SectionsInv'
  <2>1. \A i \in DOMAIN input : fitted'[i].name = input[i].name BY <1>1 DEF SectionsInv
  <2>2. Total(input) <= Budget => fitted' = input BY DEF SectionsInv
  <2> QED BY <1>5, <1>6, <2>1, <2>2 DEF SectionsInv
<1> QED BY <1>1, <1>3, <1>7

\* Nothing is to be condensed any more.
LEMMA QueueStops ==
  ASSUME QueueInv, UNCHANGED <<conf, input, todo, cur, calls>>, DOMAIN fitted' = DOMAIN fitted,
         at' \notin {"fit", "condense"}
  PROVE  QueueInv'
BY DEF QueueInv, Qwen

\* The sections come in; none of them is settled, and every one of research is to be tried.
LEMMA PrepareKeeps == CompInv /\ Prepare => CompInv'
<1> SUFFICES ASSUME CompInv, Prepare PROVE CompInv' OBVIOUS
<1>1. /\ at = "start" /\ UNCHANGED <<cur, jobs, calls, draft, docs, source>>
      /\ calls = 0 /\ jobs = <<>> /\ cur = 0
  BY DEF Prepare, CompInv, EndInv
<1>2. PICK r \in Reports, m \in {"off", "review", "experimental"}, q, t, key \in BOOLEAN :
        LET full == Ascending({i \in DOMAIN r : r[i].text # <<>>})
            ss == [n \in DOMAIN full |-> r[full[n]]] IN
        /\ conf' = [mode |-> m, qwen |-> q, truncate |-> t]
        /\ input' = ss /\ fitted' = ss /\ todo' = Candidates(ss, m)
        /\ at' = IF ss = <<>> THEN "done" ELSE IF key THEN "fit" ELSE "fallback"
        /\ brief' = IF ss = <<>> THEN "empty" ELSE "none"
  BY DEF Prepare
<1> DEFINE full == Ascending({i \in DOMAIN r : r[i].text # <<>>})
           ss == [n \in DOMAIN full |-> r[full[n]]]
<1>3. /\ conf' = [mode |-> m, qwen |-> q, truncate |-> t]
      /\ input' = ss /\ fitted' = ss /\ todo' = Candidates(ss, m)
      /\ at' = IF ss = <<>> THEN "done" ELSE IF key THEN "fit" ELSE "fallback"
      /\ brief' = IF ss = <<>> THEN "empty" ELSE "none"
  BY <1>2
<1>4. Sized(ss) /\ \A i \in DOMAIN ss : Mark \notin Range(ss[i].text) BY PreparedSections
<1> HIDE DEF ss
<1>5. at' \in {"done", "fit", "fallback"} /\ (at' = "done" => brief' # "none")
      /\ brief' \in {"none", "empty"}
  BY <1>3
<1>6. Qwen' <=> m # "off" BY <1>3 DEF Qwen
<1>7. SectionsInv'
  <2>1. NoSilentLoss' BY <1>3 DEF NoSilentLoss
  <2>2. ResolutionIsLast' BY <1>3 DEF ResolutionIsLast
  <2>3. conf' \in [mode : {"off", "review", "experimental"}, qwen : BOOLEAN, truncate : BOOLEAN]
    BY <1>3
  <2> QED BY <1>3, <1>4, <2>1, <2>2, <2>3 DEF SectionsInv
<1>8. QueueInv'
  <2> DEFINE c == Candidates(ss, m)
  <2>1. /\ c \in Seq(DOMAIN ss)
        /\ \A i \in DOMAIN ss : ss[i].name # "resolution" => i \in Range(c)
        /\ m # "off" => \A k \in DOMAIN c : ss[c[k]].name # "resolution"
        /\ \A j, k \in DOMAIN c : j < k /\ ss[c[j]].name = "resolution" =>
                                    ss[c[k]].name = "resolution"
    BY <1>4, CandidatesList
  <2> HIDE DEF c
  <2>2. CallsOff \in Nat /\ CallsQwen \in Nat BY ReportsAssumption
  <2>3. todo' = c BY <1>3 DEF c
  <2>4. at' # "condense" BY <1>5
  <2>5. \A i : IsRes(i)' <=> ss[i].name = "resolution" BY <1>3 DEF IsRes
  <2>6. /\ todo' \in Seq(DOMAIN fitted') /\ cur' \in {0} \cup DOMAIN fitted' /\ calls' = 0
        /\ calls' <= IF Qwen' THEN CallsQwen ELSE CallsOff
    BY <1>1, <1>3, <2>1, <2>2, <2>3
  <2>7. Qwen' => \A n \in DOMAIN todo' : ~IsRes(todo[n])' BY <1>6, <2>1, <2>3, <2>5
  <2>8. \A j \in DOMAIN input' : IsRes(j)' \/ j \in Range(todo') BY <1>3, <2>1, <2>3, <2>5
  <2>9. \A a, b \in DOMAIN todo' : a < b /\ IsRes(todo[a])' => IsRes(todo[b])'
    BY <2>1, <2>3, <2>5
  <2> QED BY <2>4, <2>6, <2>7, <2>8, <2>9 DEF QueueInv
<1>9. JobsInv'
  <2>1. jobs' = <<>> /\ <<>> \in Seq(Job) /\ DOMAIN jobs' = {} BY <1>1
  <2>2. Running' = {} BY <2>1 DEF Running
  <2> QED BY <1>5, <2>1, <2>2 DEF JobsInv
<1>10. EndInv'
  <2>1. docs \subseteq {"compiler_input", "brief:pre-audit", "brief:draft"} BY DEF CompInv, EndInv
  <2> QED BY <1>1, <1>5, <2>1 DEF EndInv, OnlyReviewPauses, CompilerEnds
<1> QED BY <1>7, <1>8, <1>9, <1>10 DEF CompInv

\* The number of calls that are left is one.
LEMMA CallsLeftIsOne == ASSUME QueueInv PROVE CallsLeft \in Nat
<1>1. CallsOff \in Nat /\ CallsQwen \in Nat BY ReportsAssumption
<1> QED BY <1>1 DEF QueueInv, CallsLeft

\* The section that is tried next leaves the list; it is condensed, or small already.
LEMMA NextCandidateKeeps == CompInv /\ NextCandidate => CompInv'
<1> SUFFICES ASSUME CompInv, NextCandidate PROVE CompInv' OBVIOUS
<1> DEFINE i == Head(todo)
           text == fitted[i].text
           c == PartsOf(text)
           least == ChunkTarget(text, Len(c))
           asked == Asked(c, least)
<1>0. SectionsInv /\ QueueInv /\ JobsInv /\ EndInv BY DEF CompInv
<1>1. /\ at = "fit" /\ OverBudget /\ CallsLeft > 0 /\ todo # <<>>
      /\ todo' = Tail(todo) /\ cur' = i
      /\ UNCHANGED <<conf, input, fitted, draft, brief, docs, source>>
  BY DEF NextCandidate
<1>2. \/ Target(text) >= Len(text) /\ UNCHANGED <<at, jobs, calls>>
      \/ /\ ~(Target(text) >= Len(text)) /\ at' = "condense"
         /\ jobs' = [k \in DOMAIN c |-> [st |-> IF k \in asked THEN "waits" ELSE "raw",
                                         text |-> c[k]]]
         /\ calls' = calls + Cardinality(asked)
  <2>1. cur' = i BY <1>1
  <2> QED BY <2>1 DEF NextCandidate, PartsOf, PartSize
<1>3. /\ Sized(fitted) /\ Sized(input) /\ DOMAIN fitted = DOMAIN input
      /\ todo \in Seq(DOMAIN fitted)
  <2>1. Sized(input) /\ Sized(fitted) /\ Len(fitted) = Len(input) BY <1>0 DEF SectionsInv
  <2>2. DOMAIN input = 1..Len(input) /\ DOMAIN fitted = 1..Len(fitted) BY <2>1, SectionFacts
  <2> QED BY <1>0, <2>1, <2>2 DEF QueueInv
<1>4. /\ 1 \in DOMAIN todo /\ i = todo[1] /\ i \in DOMAIN fitted
      /\ todo' \in Seq(DOMAIN fitted)
      /\ \A n \in DOMAIN todo' : n + 1 \in DOMAIN todo /\ todo'[n] = todo[n + 1] /\ n > 0
      /\ \A j \in Range(todo) : j = i \/ j \in Range(todo')
  <2>1. /\ 1 \in DOMAIN todo /\ i = todo[1] /\ i \in DOMAIN fitted
        /\ todo' \in Seq(DOMAIN fitted) /\ Len(todo') = Len(todo) - 1 /\ Len(todo) \in Nat
        /\ DOMAIN todo = 1..Len(todo) /\ DOMAIN todo' = 1..(Len(todo) - 1)
        /\ \A n \in 1..(Len(todo) - 1) : todo'[n] = todo[n + 1]
    BY <1>1, <1>3
  <2>2. \A n \in DOMAIN todo' : n + 1 \in DOMAIN todo /\ todo'[n] = todo[n + 1] /\ n > 0
    BY <2>1
  <2>3. ASSUME NEW j \in Range(todo) PROVE j = i \/ j \in Range(todo')
    <3>1. PICK n \in DOMAIN todo : todo[n] = j BY DEF Range
    <3>2. CASE n = 1 BY <2>1, <3>1, <3>2
    <3>3. CASE n # 1
      <4>1. n - 1 \in DOMAIN todo' /\ (n - 1) + 1 = n BY <2>1, <3>1, <3>3
      <4>2. todo'[n - 1] = j BY <2>1, <3>1, <4>1
      <4> QED BY <4>1, <4>2 DEF Range
    <3> QED BY <3>2, <3>3
  <2> QED BY <2>1, <2>2, <2>3
<1>5. SectionsInv' BY <1>0, <1>1, SectionsStay
<1>6. ~(Total(input) <= Budget) /\ CallsLeft \in Nat \ {0}
  <2>1. ~(Total(fitted) <= Budget)
    <3>1. Total(fitted) > Budget BY <1>1 DEF OverBudget
    <3>2. Total(fitted) \in Nat /\ Budget \in Nat BY <1>3, TotalCounts, ReportsAssumption
    <3> DEFINE y == Total(fitted)
    <3> HIDE DEF y
    <3>3. y > Budget /\ y \in Nat BY <3>1, <3>2 DEF y
    <3>4. ~(y <= Budget) BY <3>2, <3>3
    <3> QED BY <3>4 DEF y
  <2>2. Total(input) <= Budget => fitted = input BY <1>0 DEF SectionsInv
  <2>3. CallsLeft \in Nat BY <1>0, CallsLeftIsOne
  <2> QED BY <1>1, <2>1, <2>2, <2>3
<1>7. (Qwen' <=> Qwen) /\ (\A j : IsRes(j)' <=> IsRes(j)) /\ (\A j : Settled(j)' <=> Settled(j))
  BY <1>1 DEF Qwen, IsRes, Settled
<1>8. /\ Qwen => \A n \in DOMAIN todo : ~IsRes(todo[n])
      /\ ~Qwen => /\ \A j \in DOMAIN input : IsRes(j) \/ Settled(j) \/ j \in Range(todo)
                  /\ \A a, b \in DOMAIN todo : a < b /\ IsRes(todo[a]) => IsRes(todo[b])
  BY <1>0, <1>1 DEF QueueInv
<1>9. Target(text) \in Nat /\ (\A n \in Nat \ {0} : ChunkTarget(text, n) \in Nat)
      /\ (Target(text) >= Len(text) => Len(text) <= MinTarget)
  BY <1>1, <1>3, <1>4, TargetBounds
<1>10. text \in Seq(Lines) /\ text # <<>> BY <1>3, <1>4, SectionFacts
<1>11. /\ Len(c) \in Nat \ {0} /\ DOMAIN c = 1..Len(c) /\ c \in Seq(Seq(Lines))
  BY <1>10, PartSizeIsOne, ChunksCover DEF PartsOf
<1>12. least \in Nat BY <1>9, <1>11
<1>13. /\ asked \subseteq {k \in DOMAIN c : Len(c[k]) > least}
       /\ Cardinality(asked) \in Nat /\ Cardinality(asked) <= CallsLeft
       /\ (\E k \in DOMAIN c : Len(c[k]) > least) => asked # {}
  BY <1>3, <1>4, <1>6, <1>12, AskedIsBounded
<1>14. i \in Nat /\ calls \in Nat BY <1>0, <1>3, <1>4, SectionFacts DEF QueueInv
<1>15. Qwen' => \A n \in DOMAIN todo' : ~IsRes(todo[n])' BY <1>4, <1>7, <1>8
<1>16. ~Qwen' => \A a, b \in DOMAIN todo' : a < b /\ IsRes(todo[a])' => IsRes(todo[b])'
  <2> SUFFICES ASSUME ~Qwen, NEW a \in DOMAIN todo', NEW b \in DOMAIN todo', a < b,
                      IsRes(todo'[a])
               PROVE  IsRes(todo'[b])
    BY <1>7
  <2>1. a \in Nat /\ b \in Nat
    <3>1. DOMAIN todo' = 1..Len(todo') BY <1>4
    <3> QED BY <3>1
  <2>2. /\ a + 1 \in DOMAIN todo /\ b + 1 \in DOMAIN todo /\ a + 1 < b + 1
        /\ todo'[a] = todo[a + 1] /\ todo'[b] = todo[b + 1]
    BY <1>4, <2>1
  <2> QED BY <1>8, <2>2
<1>17. EndInv'
  <2>1. at' \in {"fit", "condense"} BY <1>1, <1>2
  <2> QED BY <1>0, <1>1, <2>1 DEF EndInv, OnlyReviewPauses, CompilerEnds
<1> HIDE DEF asked, c, least
<1>18. CASE Target(text) >= Len(text) /\ UNCHANGED <<at, jobs, calls>>
  <2>1. Settled(i)
    <3>1. fitted[i] = input[i] => Len(input[i].text) <= MinTarget BY <1>9, <1>18
    <3> QED BY <3>1 DEF Settled
  <2>2. QueueInv'
    <3>1. at' = "fit" /\ calls' = calls /\ DOMAIN fitted' = DOMAIN fitted BY <1>1, <1>18
    <3>2. calls' <= IF Qwen' THEN CallsQwen ELSE CallsOff BY <1>0, <1>7, <3>1 DEF QueueInv
    <3>3. ~Qwen' => \A j \in DOMAIN input' : IsRes(j)' \/ Settled(j)' \/ j \in Range(todo')
      BY <1>1, <1>4, <1>7, <1>8, <2>1
    <3>4. ~(Total(input') <= Budget) BY <1>1, <1>6
    <3> HIDE DEF i
    <3> QED BY <1>1, <1>4, <1>14, <1>15, <1>16, <3>1, <3>2, <3>3, <3>4 DEF QueueInv
  <2>3. JobsInv'
    <3>1. at' = "fit" /\ jobs' = jobs BY <1>1, <1>18
    <3>2. Running' = Running BY <3>1 DEF Running
    <3> QED BY <1>0, <1>1, <1>7, <3>1, <3>2 DEF JobsInv
  <2> QED BY <1>5, <1>17, <2>2, <2>3 DEF CompInv
<1>19. CASE /\ ~(Target(text) >= Len(text)) /\ at' = "condense"
            /\ jobs' = [k \in DOMAIN c |-> [st |-> IF k \in asked THEN "waits" ELSE "raw",
                                            text |-> c[k]]]
            /\ calls' = calls + Cardinality(asked)
  <2>1. QueueInv'
    <3>1. calls' \in Nat /\ calls' <= IF Qwen' THEN CallsQwen ELSE CallsOff
      <4>1. CallsOff \in Nat /\ CallsQwen \in Nat BY ReportsAssumption
      <4> DEFINE n == Cardinality(asked)
      <4> HIDE DEF n
      <4>2. n \in Nat /\ n <= CallsLeft /\ calls' = calls + n BY <1>13, <1>19 DEF n
      <4>3. CallsLeft = (IF Qwen THEN CallsQwen ELSE CallsOff) - calls BY DEF CallsLeft
      <4> QED BY <1>7, <1>14, <4>1, <4>2, <4>3
    <3>2. ~Qwen' => \A j \in DOMAIN input' : \/ IsRes(j)' \/ Settled(j)' \/ j \in Range(todo')
                                             \/ cur' = j
      BY <1>1, <1>4, <1>7, <1>8
    <3>3. ~(Total(input') <= Budget) BY <1>1, <1>6
    <3>4. Qwen' => ~IsRes(cur)' BY <1>1, <1>4, <1>7, <1>8
    <3>5. ~Qwen' /\ IsRes(cur)' => \A n \in DOMAIN todo' : IsRes(todo[n])'
      <4> SUFFICES ASSUME ~Qwen, IsRes(i), NEW n \in DOMAIN todo' PROVE IsRes(todo'[n])
        BY <1>1, <1>7
      <4>1. n + 1 \in DOMAIN todo /\ todo'[n] = todo[n + 1] /\ n > 0 BY <1>4
      <4>2. DOMAIN todo = 1..Len(todo) BY <1>3
      <4>3. 1 < n + 1 BY <4>1, <4>2
      <4> QED BY <1>4, <1>8, <4>1, <4>3
    <3>6. at' = "condense" /\ DOMAIN fitted' = DOMAIN fitted /\ cur' \in DOMAIN fitted
      BY <1>1, <1>4, <1>19
    <3> QED BY <1>4, <1>15, <1>16, <3>1, <3>2, <3>3, <3>4, <3>5, <3>6, <1>1 DEF QueueInv
  <2>2. CurParts' = c /\ DOMAIN jobs' = DOMAIN c /\ Len(jobs') = Len(c) /\ TargetNow' = least
    <3>1. CurParts' = c BY <1>1 DEF CurParts, PartsOf, PartSize, Qwen, c
    <3>2. DOMAIN jobs' = DOMAIN c BY <1>19
    <3>3. jobs' = [k \in 1..Len(c) |-> jobs'[k]] BY <1>11, <1>19
    <3>4. Len(jobs') = Len(c) BY <1>11, <3>3
    <3>5. TargetNow' = least BY <1>1, <3>4 DEF TargetNow, ChunkTarget, Target, least
    <3> QED BY <3>1, <3>2, <3>4, <3>5
  <2>3. \A k \in DOMAIN c : /\ jobs'[k].st = (IF k \in asked THEN "waits" ELSE "raw")
                            /\ jobs'[k].text = c[k]
    BY <1>19
  <2>4. jobs' \in Seq(Job)
    <3>1. \A k \in DOMAIN c : jobs'[k] \in Job
      <4> SUFFICES ASSUME NEW k \in DOMAIN c PROVE jobs'[k] \in Job OBVIOUS
      <4>1. c[k] \in Seq(Lines) BY <1>11
      <4>2. jobs'[k] = [st |-> IF k \in asked THEN "waits" ELSE "raw", text |-> c[k]] BY <1>19
      <4> QED BY <4>1, <4>2 DEF Job, States
    <3>2. jobs' = [k \in 1..Len(c) |-> jobs'[k]] BY <1>11, <1>19
    <3>3. jobs' \in [1..Len(c) -> Job] BY <1>11, <3>1, <3>2
    <3> QED BY <1>11, <3>3, NumberedIsSeq
  <2>5. Running' = {}
    <3> SUFFICES ASSUME NEW k \in DOMAIN jobs' PROVE jobs'[k].st # "runs" BY DEF Running
    <3> QED BY <2>2, <2>3
  <2>6. ~Qwen' => \E k \in DOMAIN jobs' : jobs'[k].st # "raw"
    <3> SUFFICES ASSUME ~Qwen PROVE \E k \in DOMAIN jobs' : jobs'[k].st # "raw" BY <1>7
    <3>1. Target(text) < Len(text)
      <4>1. Len(text) \in Nat BY <1>3, <1>4, SectionFacts
      <4> DEFINE x == Target(text)
                 y == Len(text)
      <4> HIDE DEF x, y
      <4>2. x \in Nat /\ y \in Nat /\ ~(x >= y) BY <1>9, <1>19, <4>1 DEF x, y
      <4>3. x < y BY <4>2
      <4> QED BY <4>3 DEF x, y
    <3>2. \E k \in DOMAIN c : Len(c[k]) > least
      BY <1>3, <1>4, <3>1, SomeChunkIsLong DEF c, least
    <3>3. PICK k \in asked : TRUE BY <1>13, <3>2
    <3>4. k \in DOMAIN c BY <1>13
    <3> QED BY <2>2, <2>3, <3>4
  <2>8. JobsInv'
    <3>1. \A k \in DOMAIN jobs' : JobFits(jobs[k], CurParts[k], TargetNow)'
      <4> SUFFICES ASSUME NEW k \in DOMAIN jobs' PROVE JobFits(jobs[k], CurParts[k], TargetNow)'
        OBVIOUS
      <4> QED BY <2>2, <2>3, <1>7, <1>13 DEF JobFits
    <3> QED BY <1>19, <2>2, <2>4, <2>5, <2>6, <3>1 DEF JobsInv
  <2> QED BY <1>5, <1>17, <2>1, <2>8 DEF CompInv
<1> QED BY <1>2, <1>18, <1>19 DEF asked, c, least

\* What of the queue and the sections a step inside the compression leaves alone.
LEMMA CondenseGoesOn ==
  ASSUME CompInv, at = "condense", at' \in {"condense", "fallback"},
         UNCHANGED <<conf, input, fitted, todo, cur, calls, brief, docs>>
  PROVE  SectionsInv' /\ QueueInv' /\ EndInv'
<1>1. SectionsInv' BY SectionsStay DEF CompInv
<1>2. QueueInv'
  <2>1. at' = "condense" => QueueInv'
    BY DEF CompInv, QueueInv, Qwen, IsRes, Settled
  <2>2. at' = "fallback" => QueueInv' BY QueueStops DEF CompInv
  <2> QED BY <2>1, <2>2
<1>3. EndInv' BY DEF CompInv, EndInv, OnlyReviewPauses
<1> QED BY <1>1, <1>2, <1>3

\* What is known of the chunks while their section is condensed.
LEMMA JobFacts ==
  ASSUME CompInv, at = "condense"
  PROVE  /\ Sized(fitted) /\ cur \in DOMAIN fitted /\ jobs \in Seq(Job)
         /\ Len(jobs) \in Nat \ {0} /\ DOMAIN jobs = 1..Len(jobs)
         /\ IsFiniteSet(Running) /\ IsFiniteSet(DOMAIN jobs)
         /\ fitted[cur].text \in Seq(Lines)
         /\ DOMAIN CurParts = DOMAIN jobs
         /\ UNION {Range(CurParts[k]) : k \in DOMAIN jobs} = Range(fitted[cur].text)
         /\ TargetNow \in Nat
         /\ \A k \in DOMAIN jobs :
              /\ jobs[k] \in Job /\ JobFits(jobs[k], CurParts[k], TargetNow)
              /\ CurParts[k] \in Seq(Lines) /\ CurParts[k] # <<>>
<1>1. /\ Sized(fitted) /\ cur \in DOMAIN fitted /\ jobs \in Seq(Job)
      /\ DOMAIN CurParts = DOMAIN jobs
      /\ \A k \in DOMAIN jobs : JobFits(jobs[k], CurParts[k], TargetNow)
  BY DEF CompInv, SectionsInv, QueueInv, JobsInv
<1>2. fitted[cur].text \in Seq(Lines) /\ fitted[cur].text # <<>> BY <1>1, SectionFacts
<1>3. /\ Len(CurParts) \in Nat \ {0} /\ DOMAIN CurParts = 1..Len(CurParts)
      /\ CurParts \in Seq(Seq(Lines))
      /\ \A k \in DOMAIN CurParts : CurParts[k] # <<>>
      /\ UNION {Range(CurParts[k]) : k \in DOMAIN CurParts} = Range(fitted[cur].text)
  BY <1>2, PartSizeIsOne, ChunksCover DEF CurParts, PartsOf
<1>4. Len(jobs) \in Nat /\ DOMAIN jobs = 1..Len(jobs) /\ \A k \in DOMAIN jobs : jobs[k] \in Job
  BY <1>1
<1>5. Len(jobs) # 0
  <2>1. 1 \in DOMAIN CurParts BY <1>3
  <2>2. 1 \in 1..Len(jobs) BY <1>1, <1>4, <2>1
  <2> QED BY <1>4, <2>2
<1>6. \A k \in DOMAIN jobs : CurParts[k] \in Seq(Lines) BY <1>1, <1>3
<1>7. IsFiniteSet(DOMAIN jobs) BY <1>4, FS_Interval
<1>8. IsFiniteSet(Running)
  <2>1. Running \subseteq DOMAIN jobs BY DEF Running
  <2> QED BY <1>7, <2>1, FS_Subset
<1>9. TargetNow \in Nat BY <1>1, <1>4, <1>5, TargetBounds DEF TargetNow
<1> QED BY <1>1, <1>2, <1>3, <1>4, <1>5, <1>6, <1>7, <1>8, <1>9

\* One chunk gets another state or another text.
LEMMA OneJobChanges ==
  ASSUME CompInv, at = "condense", at' = "condense", NEW k \in DOMAIN jobs, NEW job \in Job,
         UNCHANGED <<conf, fitted, cur>>, jobs' = [jobs EXCEPT ![k] = job],
         JobFits(job, CurParts[k], TargetNow), ~Qwen => job.st # "raw",
         ~Qwen => Running' \subseteq {k}
  PROVE  JobsInv'
<1>1. /\ jobs \in Seq(Job) /\ Len(jobs) \in Nat /\ DOMAIN jobs = 1..Len(jobs)
      /\ DOMAIN CurParts = DOMAIN jobs
      /\ \A j \in DOMAIN jobs : jobs[j] \in Job /\ JobFits(jobs[j], CurParts[j], TargetNow)
  BY JobFacts
<1>2. /\ DOMAIN jobs' = DOMAIN jobs /\ jobs'[k] = job
      /\ \A j \in DOMAIN jobs : j # k => jobs'[j] = jobs[j]
  OBVIOUS
<1>3. \A j \in DOMAIN jobs : jobs'[j] \in Job BY <1>1, <1>2
<1>4. jobs' \in Seq(Job) /\ Len(jobs') = Len(jobs)
  <2>1. jobs' = [j \in 1..Len(jobs) |-> jobs'[j]] BY <1>1
  <2>2. jobs' \in [1..Len(jobs) -> Job] BY <1>1, <1>3, <2>1
  <2> QED BY <1>1, <2>2, NumberedIsSeq
<1>5. CurParts' = CurParts BY DEF CurParts, PartsOf, PartSize, Qwen
<1>6. TargetNow' = TargetNow BY <1>4 DEF TargetNow, ChunkTarget, Target
<1>7. \A j \in DOMAIN jobs : JobFits(jobs'[j], CurParts[j], TargetNow) BY <1>1, <1>2
<1>8. Qwen' <=> Qwen BY DEF Qwen
<1>9. \A j \in DOMAIN jobs' : JobFits(jobs[j], CurParts[j], TargetNow)'
  BY <1>2, <1>5, <1>6, <1>7, <1>8 DEF JobFits
<1>10. ~Qwen' => \E j \in DOMAIN jobs' : jobs'[j].st # "raw" BY <1>2, <1>8
<1>11. ~Qwen' => \A i, j \in Running' : i = j BY <1>8
<1> QED BY <1>1, <1>2, <1>4, <1>5, <1>9, <1>10, <1>11 DEF JobsInv

\* The paid compression starts a chunk only when no other one runs.
LEMMA StartChunkKeeps ==
  ASSUME NEW k \in DOMAIN jobs, CompInv, StartChunk(k) PROVE CompInv'
<1>1. /\ at = "condense" /\ k \in Waiting /\ jobs' = [jobs EXCEPT ![k].st = "runs"]
      /\ Cardinality(Running) < IF Qwen THEN Concurrency ELSE 1
      /\ UNCHANGED <<at, conf, input, fitted, todo, cur, calls, draft, brief, docs, source>>
  BY DEF StartChunk
<1>2. SectionsInv' /\ QueueInv' /\ EndInv' BY <1>1, CondenseGoesOn
<1> DEFINE job == [jobs[k] EXCEPT !.st = "runs"]
<1>3. jobs[k] \in Job /\ JobFits(jobs[k], CurParts[k], TargetNow) /\ jobs[k].st = "waits"
      /\ IsFiniteSet(Running) /\ jobs \in Seq(Job)
  BY <1>1, JobFacts DEF Waiting
<1>4. jobs[k] \in [st : States, text : Seq(Lines)] BY <1>3 DEF Job
<1>5. job \in [st : States, text : Seq(Lines)] /\ job.st = "runs" /\ job.text = jobs[k].text
  BY <1>4 DEF States
<1>6. jobs' = [jobs EXCEPT ![k] = job] BY <1>1
<1> HIDE DEF job
<1>7. JobFits(job, CurParts[k], TargetNow) BY <1>3, <1>5 DEF JobFits
<1>8. ~Qwen => Running' \subseteq {k}
  <2> SUFFICES ASSUME ~Qwen PROVE Running' \subseteq {k} OBVIOUS
  <2>1. Running = {}
    <3>1. Cardinality(Running) \in Nat /\ Cardinality(Running) < 1
      BY <1>1, <1>3, FS_CardinalityType
    <3>2. Cardinality(Running) = 0 BY <3>1
    <3> QED BY <1>3, <3>2, FS_EmptySet
  <2>2. \A j \in DOMAIN jobs' : j # k => jobs'[j].st # "runs" BY <1>6, <2>1 DEF Running
  <2> QED BY <2>2 DEF Running
<1>9. job.st # "raw" /\ job \in Job BY <1>5 DEF Job
<1>10. JobsInv' BY <1>1, <1>6, <1>7, <1>8, <1>9, OneJobChanges
<1> QED BY <1>2, <1>10 DEF CompInv

\* A chunk that answered is labelled, kept, or cut under a marker; the limit ends the paid
\* compression, of which no other chunk runs.
LEMMA ChunkAnswersKeeps ==
  ASSUME NEW k \in DOMAIN jobs, CompInv, ChunkAnswers(k) PROVE CompInv'
<1>1. /\ at = "condense" /\ k \in Running
      /\ UNCHANGED <<conf, input, fitted, todo, cur, calls, draft, brief, docs, source>>
  BY DEF ChunkAnswers
<1>2. PICK st \in {"condensed", "failed", "limit", "paused"} :
        /\ st = "condensed" => conf.mode # "review"
        /\ st = "paused" => conf.mode = "review"
        /\ \E text \in CASE st = "condensed" -> Condensed(jobs[k].text)
                         [] st = "failed" -> {KeptChunk(jobs[k].text)}
                         [] OTHER -> {jobs[k].text} :
             jobs' = [jobs EXCEPT ![k] = [st |-> st, text |-> text]]
        /\ at' = IF st = "limit" /\ ~Qwen THEN "fallback" ELSE at
  BY DEF ChunkAnswers
<1>3. PICK text \in CASE st = "condensed" -> Condensed(jobs[k].text)
                      [] st = "failed" -> {KeptChunk(jobs[k].text)}
                      [] OTHER -> {jobs[k].text} :
        jobs' = [jobs EXCEPT ![k] = [st |-> st, text |-> text]]
  BY <1>2
<1>4. /\ jobs[k].st = "runs" /\ jobs[k] \in Job /\ JobFits(jobs[k], CurParts[k], TargetNow)
      /\ CurParts[k] \in Seq(Lines) /\ CurParts[k] # <<>> /\ TargetNow \in Nat
      /\ jobs \in Seq(Job) /\ DOMAIN jobs = 1..Len(jobs) /\ Len(jobs) \in Nat
  BY <1>1, JobFacts DEF Running
<1>5. /\ jobs[k].text = CurParts[k] /\ Len(CurParts[k]) > TargetNow
      /\ jobs[k].text \in Seq(Lines) /\ jobs[k].text # <<>>
  BY <1>4 DEF JobFits
<1>6. text \in Seq(Lines) /\ (text = CurParts[k] \/ Mark \in Range(text))
      /\ (~Qwen /\ st \in {"condensed", "failed"} => Mark \in Range(text))
  <2>1. CASE st = "condensed"
    <3>1. text \in Condensed(jobs[k].text) BY <1>3, <2>1
    <3> QED BY <1>5, <3>1, CondensedIsLabelled
  <2>2. CASE st = "failed"
    <3>1. text = KeptChunk(jobs[k].text) BY <1>3, <2>2
    <3>2. CASE Qwen BY <1>5, <3>1, <3>2 DEF KeptChunk
    <3>3. CASE ~Qwen
      <4>1. text = VisiblyCut(CurParts[k], TargetNow) BY <1>5, <3>1, <3>3 DEF KeptChunk, TargetNow
      <4>2. TargetNow < Len(CurParts[k])
        <5>1. Len(CurParts[k]) \in Nat BY <1>4
        <5> DEFINE x == Len(CurParts[k])
                   y == TargetNow
        <5> HIDE DEF x, y
        <5>2. x \in Nat /\ y \in Nat /\ x > y BY <1>4, <1>5, <5>1 DEF x, y
        <5>3. y < x BY <5>2
        <5> QED BY <5>3 DEF x, y
      <4> QED BY <1>4, <4>1, <4>2, CutIsVisible
    <3> QED BY <3>2, <3>3
  <2>3. CASE st \in {"limit", "paused"}
    <3>1. text = jobs[k].text BY <1>3, <2>3
    <3> QED BY <1>5, <2>3, <3>1
  <2> QED BY <2>1, <2>2, <2>3
<1> DEFINE job == [st |-> st, text |-> text]
<1>7. job \in Job /\ job.st = st /\ job.text = text BY <1>6 DEF Job, States
<1>8. jobs' = [jobs EXCEPT ![k] = job] BY <1>3
<1> HIDE DEF job
<1>9. JobFits(job, CurParts[k], TargetNow)
  <2>1. st = "paused" => conf.mode = "review" BY <1>2
  <2> QED BY <1>6, <1>7, <2>1 DEF JobFits
<1>10. ~Qwen => Running' = {}
  <2> SUFFICES ASSUME ~Qwen PROVE Running' = {} OBVIOUS
  <2>1. \A j \in Running : j = k BY <1>1 DEF CompInv, JobsInv
  <2>2. DOMAIN jobs' = DOMAIN jobs /\ jobs'[k].st = st
        /\ \A j \in DOMAIN jobs : j # k => jobs'[j] = jobs[j]
    BY <1>7, <1>8
  <2>3. ASSUME NEW j \in DOMAIN jobs' PROVE jobs'[j].st # "runs"
    <3>1. j = k => jobs'[j].st = st BY <2>2
    <3>2. j # k => jobs'[j].st # "runs" BY <2>1, <2>2 DEF Running
    <3> QED BY <3>1, <3>2
  <2> QED BY <2>3 DEF Running
<1>11. CASE at' = "condense"
  <2>1. SectionsInv' /\ QueueInv' /\ EndInv' BY <1>1, <1>11, CondenseGoesOn
  <2>2. JobsInv'
    <3>1. job.st # "raw" BY <1>7
    <3>2. ~Qwen => Running' \subseteq {k} BY <1>10
    <3> QED BY <1>1, <1>7, <1>8, <1>9, <1>11, <3>1, <3>2, OneJobChanges
  <2> QED BY <2>1, <2>2 DEF CompInv
<1>12. CASE at' # "condense"
  <2>1. at' = "fallback" /\ ~Qwen BY <1>1, <1>2, <1>12
  <2>2. SectionsInv' /\ QueueInv' /\ EndInv' BY <1>1, <2>1, CondenseGoesOn
  <2>3. jobs' \in Seq(Job)
    <3>1. \A j \in DOMAIN jobs : jobs'[j] \in Job BY <1>4, <1>7, <1>8
    <3>2. jobs' = [j \in 1..Len(jobs) |-> jobs'[j]] BY <1>4, <1>8
    <3>3. jobs' \in [1..Len(jobs) -> Job] BY <1>4, <3>1, <3>2
    <3> QED BY <1>4, <3>3, NumberedIsSeq
  <2>4. JobsInv'
    <3>1. Running' = {} BY <1>10, <2>1
    <3> QED BY <2>1, <2>3, <3>1 DEF JobsInv
  <2> QED BY <2>2, <2>4 DEF CompInv
<1> QED BY <1>11, <1>12

\* The chunks are put together again: what is missing is marked, and for the paid
\* compression there is a mark.
LEMMA JoinIsMarked ==
  ASSUME CompInv, at = "condense", Running \cup Waiting = {},
         {k \in DOMAIN jobs : jobs[k].st \in {"limit", "paused"}} = {},
         NEW text, text = FlattenSeq([k \in DOMAIN jobs |-> jobs[k].text])
  PROVE  /\ text \in Seq(Lines) /\ text # <<>>
         /\ Mark \in Range(text) \/ Range(text) = Range(fitted[cur].text)
         /\ ~Qwen => Mark \in Range(text)
<1>1. /\ Len(jobs) \in Nat \ {0} /\ DOMAIN jobs = 1..Len(jobs)
      /\ UNION {Range(CurParts[k]) : k \in DOMAIN jobs} = Range(fitted[cur].text)
      /\ \A k \in DOMAIN jobs :
           /\ jobs[k] \in Job /\ JobFits(jobs[k], CurParts[k], TargetNow)
      /\ Sized(fitted) /\ cur \in DOMAIN fitted
  BY JobFacts
<1> DEFINE ts == [k \in DOMAIN jobs |-> jobs[k].text]
<1>2. ts \in Seq(Seq(Lines)) /\ ts # <<>> /\ DOMAIN ts = DOMAIN jobs
      /\ \A k \in DOMAIN jobs : ts[k] = jobs[k].text
  <2>1. \A k \in DOMAIN jobs : jobs[k].text \in Seq(Lines) BY <1>1 DEF Job
  <2>2. ts \in [1..Len(jobs) -> Seq(Lines)] BY <1>1, <2>1
  <2>3. Len(jobs) \in Nat /\ 1 \in DOMAIN ts BY <1>1
  <2>4. ts \in Seq(Seq(Lines)) BY <2>2, <2>3, NumberedIsSeq
  <2>5. ts # <<>> BY <2>3
  <2> QED BY <2>4, <2>5
<1>3. text = FlattenSeq(ts) OBVIOUS
<1> HIDE DEF ts
<1>4. text \in Seq(Lines) /\ Range(text) = UNION {Range(ts[k]) : k \in DOMAIN ts}
  BY <1>2, <1>3, FlattenIsAll
<1>5. Range(text) = UNION {Range(jobs[k].text) : k \in DOMAIN jobs}
  <2>1. {Range(ts[k]) : k \in DOMAIN ts} = {Range(jobs[k].text) : k \in DOMAIN jobs} BY <1>2
  <2> QED BY <1>4, <2>1
<1>6. Mark \in Range(text) \/ Range(text) = Range(fitted[cur].text)
  <2>1. CASE \E k \in DOMAIN jobs : Mark \in Range(jobs[k].text) BY <1>5, <2>1
  <2>2. CASE ~\E k \in DOMAIN jobs : Mark \in Range(jobs[k].text)
    <3>1. \A k \in DOMAIN jobs : jobs[k].text = CurParts[k] BY <1>1, <2>2 DEF JobFits
    <3>2. {Range(jobs[k].text) : k \in DOMAIN jobs} = {Range(CurParts[k]) : k \in DOMAIN jobs}
      BY <3>1
    <3> QED BY <1>1, <1>5, <3>2
  <2> QED BY <2>1, <2>2
<1>7. ~Qwen => Mark \in Range(text)
  <2> SUFFICES ASSUME ~Qwen PROVE Mark \in Range(text) OBVIOUS
  <2>1. PICK k \in DOMAIN jobs : jobs[k].st # "raw" BY DEF CompInv, JobsInv
  <2>2. jobs[k].st \in States /\ jobs[k].st # "cancelled" BY <1>1 DEF Job, JobFits
  <2>3. jobs[k].st \notin {"waits", "runs"} BY DEF Running, Waiting
  <2>4. jobs[k].st \notin {"limit", "paused"} OBVIOUS
  <2>5. jobs[k].st \in {"condensed", "failed"} BY <2>1, <2>2, <2>3, <2>4 DEF States
  <2>6. Mark \in Range(jobs[k].text) BY <1>1, <2>5 DEF JobFits
  <2> QED BY <1>5, <2>6
<1>8. text # <<>>
  <2> SUFFICES ASSUME text = <<>> PROVE FALSE OBVIOUS
  <2>0. Range(<<>>) = {} BY DEF Range
  <2>1. Range(text) = {} BY <2>0, Zenon
  <2>2. Range(fitted[cur].text) = {} BY <1>6, <2>1
  <2>3. Len(fitted[cur].text) \in Nat \ {0} /\ fitted[cur].text \in Seq(Lines)
    BY <1>1, SectionFacts
  <2>4. 1 \in DOMAIN fitted[cur].text BY <2>3
  <2> QED BY <2>2, <2>4 DEF Range
<1> QED BY <1>4, <1>6, <1>7, <1>8

\* The section that was condensed is settled, unless the experiment did it, and that
\* does not touch the resolution source; a compression that was given up runs no more.
LEMMA JoinChunksKeeps == CompInv /\ JoinChunks => CompInv'
<1> SUFFICES ASSUME CompInv, JoinChunks PROVE CompInv' OBVIOUS
<1> DEFINE bad == {k \in DOMAIN jobs : jobs[k].st \in {"limit", "paused"}}
           first == CHOOSE k \in bad : \A j \in bad : k <= j
           text == FlattenSeq([k \in DOMAIN jobs |-> jobs[k].text])
<1>1. /\ at = "condense" /\ Running \cup Waiting = {}
      /\ UNCHANGED <<conf, input, todo, cur, jobs, calls, draft, brief, docs, source>>
      /\ IF bad # {}
         THEN /\ at' = IF jobs[first].st = "paused" THEN "paused" ELSE "fallback"
              /\ UNCHANGED fitted
         ELSE at' = "fit" /\ fitted' = [fitted EXCEPT ![cur].text = text]
  BY DEF JoinChunks
<1>2. Running' = {} /\ jobs' \in Seq(Job) /\ at' # "condense"
  <2>1. Running' = Running /\ jobs \in Seq(Job) BY <1>1 DEF Running, CompInv, JobsInv
  <2> QED BY <1>1, <2>1
<1>3. JobsInv' BY <1>2 DEF JobsInv
<1>4. CASE bad # {}
  <2>1. first \in bad
    <3>1. bad \in SUBSET Nat
      <4>1. DOMAIN jobs = 1..Len(jobs) /\ Len(jobs) \in Nat BY <1>1, JobFacts
      <4> QED BY <4>1
    <3> HIDE DEF bad
    <3>2. \E k \in bad : \A j \in bad : k <= j BY <1>4, <3>1, LeastNumber
    <3> QED BY <3>2
  <2>2. jobs[first].st = "paused" => conf.mode = "review" BY <1>1, <2>1, JobFacts DEF JobFits
  <2> HIDE DEF first, bad
  <2>3. at' \in {"paused", "fallback"} /\ (at' = "paused" => conf.mode = "review")
        /\ fitted' = fitted
    BY <1>1, <1>4, <2>2
  <2>4. SectionsInv' BY <1>1, <2>3, SectionsStay DEF CompInv
  <2>5. QueueInv' BY <1>1, <2>3, QueueStops DEF CompInv
  <2>6. EndInv' BY <1>1, <2>3 DEF CompInv, EndInv, OnlyReviewPauses, CompilerEnds
  <2> QED BY <1>3, <2>4, <2>5, <2>6 DEF CompInv
<1>5. CASE bad = {}
  <2>1. at' = "fit" /\ fitted' = [fitted EXCEPT ![cur].text = text] BY <1>1, <1>5
  <2>2. /\ text \in Seq(Lines) /\ text # <<>>
        /\ Mark \in Range(text) \/ Range(text) = Range(fitted[cur].text)
        /\ ~Qwen => Mark \in Range(text)
    BY <1>1, <1>5, JoinIsMarked
  <2> HIDE DEF text, bad
  <2>3. Sized(fitted) /\ cur \in DOMAIN fitted BY <1>1, JobFacts
  <2>4. /\ Len(fitted) \in Nat /\ DOMAIN fitted = 1..Len(fitted)
        /\ \A i \in DOMAIN fitted : fitted[i] \in Section /\ fitted[i].text # <<>>
    BY <2>3, SectionFacts DEF Sized
  <2>5. /\ DOMAIN fitted' = DOMAIN fitted
        /\ \A i \in DOMAIN fitted : i # cur => fitted'[i] = fitted[i]
        /\ fitted'[cur] = [fitted[cur] EXCEPT !.text = text]
    BY <2>1, <2>3
  <2>6. fitted[cur] \in [name : Kinds, text : Seq(Lines)] BY <2>3, <2>4 DEF Section
  <2>7. /\ fitted'[cur] \in [name : Kinds, text : Seq(Lines)]
        /\ fitted'[cur].name = fitted[cur].name /\ fitted'[cur].text = text
    BY <2>2, <2>5, <2>6
  <2>8. Sized(fitted') /\ Len(fitted') = Len(fitted)
    <3>1. fitted'[cur] \in Section BY <2>7 DEF Section
    <3>2. \A i \in DOMAIN fitted : fitted'[i] \in Section BY <2>4, <2>5, <3>1
    <3>3. fitted' = [i \in 1..Len(fitted) |-> fitted'[i]] BY <2>1, <2>4
    <3>4. fitted' \in [1..Len(fitted) -> Section] BY <2>4, <3>2, <3>3
    <3>5. fitted' \in Seq(Section) /\ Len(fitted') = Len(fitted) BY <2>4, <3>4, NumberedIsSeq
    <3>6. \A i \in DOMAIN fitted' : fitted'[i].text # <<>> BY <2>2, <2>4, <2>5, <2>7
    <3>7. IsFiniteSet(DOMAIN fitted') BY <2>3, <2>5 DEF Sized
    <3> QED BY <3>5, <3>6, <3>7 DEF Sized
  <2>9. /\ SectionsInv /\ QueueInv /\ ~(Total(input) <= Budget)
        /\ DOMAIN fitted = DOMAIN input
    <3>1. SectionsInv /\ QueueInv BY DEF CompInv
    <3>2. ~(Total(input) <= Budget) BY <1>1, <3>1 DEF QueueInv
    <3>3. Sized(input) /\ Len(fitted) = Len(input) BY <3>1 DEF SectionsInv
    <3>4. DOMAIN input = 1..Len(input) BY <3>3, SectionFacts
    <3> QED BY <2>4, <3>1, <3>2, <3>3, <3>4
  <2>10. IsRes(cur) => ~Qwen /\ \A j \in DOMAIN input : IsRes(j) \/ Settled(j)
    <3> SUFFICES ASSUME IsRes(cur)
                 PROVE  ~Qwen /\ \A j \in DOMAIN input : IsRes(j) \/ Settled(j)
      OBVIOUS
    <3>1. ~Qwen BY <1>1, <2>9 DEF QueueInv
    <3>2. \A n \in DOMAIN todo : IsRes(todo[n]) BY <1>1, <2>9, <3>1 DEF QueueInv
    <3>3. ASSUME NEW j \in DOMAIN input PROVE IsRes(j) \/ Settled(j)
      <4>1. IsRes(j) \/ Settled(j) \/ j \in Range(todo) \/ cur = j
        BY <1>1, <2>9, <3>1 DEF QueueInv
      <4>2. j \in Range(todo) => IsRes(j) BY <3>2 DEF Range
      <4> QED BY <4>1, <4>2
    <3> QED BY <3>1, <3>3
  <2>11. SectionsInv' /\ (~Qwen => \A j \in DOMAIN input : Settled(j) => Settled(j)')
    <3>1. ASSUME NEW i \in DOMAIN fitted
          PROVE  /\ fitted'[i].name = fitted[i].name
                 /\ \/ Mark \in Range(fitted'[i].text)
                    \/ Range(fitted'[i].text) = Range(fitted[i].text)
                 /\ ~Qwen => fitted'[i] = fitted[i] \/ Mark \in Range(fitted'[i].text)
                 /\ IsRes(i) /\ fitted'[i] # fitted[i] =>
                      ~Qwen /\ \A j \in DOMAIN input : IsRes(j) \/ Settled(j)
      <4>1. CASE i = cur BY <2>2, <2>7, <2>10, <4>1
      <4>2. CASE i # cur BY <2>5, <4>2
      <4> QED BY <4>1, <4>2
    <3> QED BY <1>1, <2>8, <2>9, <3>1, SectionsChange
  <2>12. QueueInv'
    <3>1. (Qwen' <=> Qwen) /\ (\A j : IsRes(j)' <=> IsRes(j)) BY <1>1 DEF Qwen, IsRes
    <3>2. ~Qwen => \A j \in DOMAIN input : IsRes(j) \/ Settled(j)' \/ j \in Range(todo)
      <4> SUFFICES ASSUME ~Qwen, NEW j \in DOMAIN input
                   PROVE  IsRes(j) \/ Settled(j)' \/ j \in Range(todo)
        OBVIOUS
      <4>1. IsRes(j) \/ Settled(j) \/ j \in Range(todo) \/ cur = j
        BY <1>1, <2>9 DEF QueueInv
      <4>2. cur = j => Settled(j)'
        <5> SUFFICES ASSUME cur = j PROVE Settled(j)' OBVIOUS
        <5>1. Mark \in Range(fitted'[j].text) BY <2>2, <2>7
        <5>2. Mark \notin Range(input[j].text) BY <2>9 DEF SectionsInv
        <5>3. fitted'[j] # input[j] BY <5>1, <5>2
        <5> QED BY <1>1, <5>3 DEF Settled
      <4> QED BY <2>11, <4>1, <4>2
    <3>3. /\ todo \in Seq(DOMAIN fitted) /\ calls \in Nat
          /\ calls <= IF Qwen THEN CallsQwen ELSE CallsOff
          /\ Qwen => \A n \in DOMAIN todo : ~IsRes(todo[n])
          /\ ~Qwen => \A a, b \in DOMAIN todo : a < b /\ IsRes(todo[a]) => IsRes(todo[b])
      BY <1>1, <2>9 DEF QueueInv
    <3> QED BY <1>1, <2>1, <2>3, <2>5, <2>9, <3>1, <3>2, <3>3 DEF QueueInv
  <2>13. EndInv' BY <1>1, <2>1 DEF CompInv, EndInv, OnlyReviewPauses, CompilerEnds
  <2> QED BY <1>3, <2>11, <2>12, <2>13 DEF CompInv
<1> QED BY <1>4, <1>5

\* Nothing runs outside the compression; what comes after it touches no chunk.
LEMMA JobsStop ==
  ASSUME JobsInv, at # "condense", at' # "condense", UNCHANGED <<conf, jobs>>
  PROVE  JobsInv'
<1>1. Running' = Running BY DEF Running
<1> QED BY <1>1 DEF JobsInv, Qwen

\* The input is written as it is, or with its longest research section cut.
LEMMA FitEndsKeeps == CompInv /\ FitEnds => CompInv'
<1> SUFFICES ASSUME CompInv, FitEnds PROVE CompInv' OBVIOUS
<1>1. /\ at = "fit"
      /\ UNCHANGED <<conf, input, todo, cur, jobs, calls, draft, brief, source>>
  BY DEF FitEnds
<1>2. \/ at' = "paused" /\ conf.mode = "review" /\ UNCHANGED <<fitted, docs>>
      \/ at' = "fallback" /\ UNCHANGED <<fitted, docs>>
      \/ /\ at' = "write" /\ docs' = docs \cup {"compiler_input"}
         /\ fitted' = IF OverBudget THEN Overflow ELSE fitted
  BY DEF FitEnds
<1>3. SectionsInv /\ QueueInv /\ JobsInv /\ EndInv BY DEF CompInv
<1>4. JobsInv' BY <1>1, <1>2, <1>3, JobsStop
<1>5. EndInv' BY <1>1, <1>2, <1>3 DEF EndInv, OnlyReviewPauses, CompilerEnds
<1>6. SectionsInv' /\ DOMAIN fitted' = DOMAIN fitted
  <2>1. CASE fitted' = fitted BY <1>1, <1>3, <2>1, SectionsStay
  <2>2. CASE fitted' # fitted
    <3>1. OverBudget /\ fitted' = Overflow BY <1>2, <2>2
    <3>2. Sized(fitted) BY <1>3 DEF SectionsInv
    <3>3. /\ Sized(Overflow) /\ Len(Overflow) = Len(fitted)
          /\ \A i \in DOMAIN fitted :
               /\ Overflow[i].name = fitted[i].name
               /\ \/ Overflow[i] = fitted[i]
                  \/ fitted[i].name # "resolution" /\ Mark \in Range(Overflow[i].text)
      BY <3>2, OverflowCuts
    <3>4. ~(Total(input) <= Budget)
      <4>1. Total(input) <= Budget => fitted = input BY <1>3 DEF SectionsInv
      <4>2. Total(fitted) > Budget BY <3>1 DEF OverBudget
      <4>3. Total(fitted) \in Nat /\ Budget \in Nat BY <3>2, TotalCounts, ReportsAssumption
      <4> DEFINE y == Total(fitted)
      <4> HIDE DEF y
      <4>4. ~(y <= Budget) BY <4>2, <4>3 DEF y
      <4> QED BY <4>1, <4>4 DEF y
    <3>5. /\ Sized(input) /\ Len(fitted) = Len(input)
          /\ \A i \in DOMAIN input : fitted[i].name = input[i].name
      BY <1>3 DEF SectionsInv
    <3>6. DOMAIN fitted = DOMAIN input
      <4>1. DOMAIN input = 1..Len(input) /\ DOMAIN fitted = 1..Len(fitted)
        BY <3>2, <3>5, SectionFacts
      <4> QED BY <3>5, <4>1
    <3>7. \A i \in DOMAIN fitted : IsRes(i) => Overflow[i] = fitted[i]
      BY <3>3, <3>5, <3>6 DEF IsRes
    <3>8. Sized(fitted') /\ Len(fitted') = Len(fitted)
          /\ \A i \in DOMAIN fitted :
               /\ fitted'[i].name = fitted[i].name
               /\ \/ Mark \in Range(fitted'[i].text)
                  \/ Range(fitted'[i].text) = Range(fitted[i].text)
               /\ ~Qwen => fitted'[i] = fitted[i] \/ Mark \in Range(fitted'[i].text)
               /\ IsRes(i) /\ fitted'[i] # fitted[i] =>
                    ~Qwen /\ \A j \in DOMAIN input : IsRes(j) \/ Settled(j)
      BY <3>1, <3>3, <3>7
    <3> QED BY <1>1, <1>3, <3>4, <3>8, SectionsChange
  <2> QED BY <2>1, <2>2
<1>7. QueueInv' BY <1>1, <1>2, <1>3, <1>6, QueueStops
<1> QED BY <1>4, <1>5, <1>6, <1>7 DEF CompInv

\* Writing, auditing and falling back leave sections, calls and chunks as they are.
LEMMA EndingKeeps ==
  ASSUME CompInv, WriteBrief \/ Audit \/ FallbackReport
  PROVE  CompInv'
<1>1. /\ at \in {"write", "audit", "fallback"}
      /\ at' \in {"audit", "done", "fallback"}
      /\ at' = "done" => brief' # "none"
      /\ brief' = brief \/ brief' \in {"heuristic", "draft", "revised"}
      /\ docs' = docs \/ \E d \in {"brief:pre-audit", "brief:draft"} : docs' = docs \cup {d}
      /\ UNCHANGED <<conf, input, fitted, todo, cur, jobs, calls>>
  BY DEF WriteBrief, Audit, FallbackReport, Return
<1>2. SectionsInv' BY <1>1, SectionsStay DEF CompInv
<1>3. QueueInv' BY <1>1, QueueStops DEF CompInv
<1>4. JobsInv' BY <1>1, JobsStop DEF CompInv
<1>5. EndInv' BY <1>1 DEF CompInv, EndInv, OnlyReviewPauses, CompilerEnds
<1> QED BY <1>2, <1>3, <1>4, <1>5 DEF CompInv

\* The time-out of the question ends the chunks with the rest.
LEMMA CancelKeeps == CompInv /\ CancelCompile => CompInv'
<1> SUFFICES ASSUME CompInv, CancelCompile PROVE CompInv' OBVIOUS
<1>1. /\ at \notin CompilerEnds \cup {"start"} /\ at' = "cancelled"
      /\ jobs' = [k \in DOMAIN jobs |-> IF jobs[k].st \in {"waits", "runs"}
                                        THEN [jobs[k] EXCEPT !.st = "cancelled"] ELSE jobs[k]]
      /\ UNCHANGED <<conf, input, fitted, todo, cur, calls, draft, brief, docs, source>>
  BY DEF CancelCompile
<1>2. SectionsInv' BY <1>1, SectionsStay DEF CompInv
<1>3. QueueInv' BY <1>1, QueueStops DEF CompInv
<1>4. EndInv' BY <1>1 DEF CompInv, EndInv, OnlyReviewPauses, CompilerEnds
<1>5. jobs \in Seq(Job) /\ Len(jobs) \in Nat /\ DOMAIN jobs = 1..Len(jobs)
      /\ \A k \in DOMAIN jobs : jobs[k] \in Job
  BY DEF CompInv, JobsInv
<1>6. ASSUME NEW k \in DOMAIN jobs PROVE jobs'[k] \in Job /\ jobs'[k].st # "runs"
  <2>1. jobs[k] \in [st : States, text : Seq(Lines)] BY <1>5 DEF Job
  <2>2. CASE jobs[k].st \in {"waits", "runs"}
    <3>1. jobs'[k] = [jobs[k] EXCEPT !.st = "cancelled"] BY <1>1, <2>2
    <3>2. jobs'[k] \in [st : States, text : Seq(Lines)] /\ jobs'[k].st = "cancelled"
      BY <2>1, <3>1 DEF States
    <3> QED BY <3>2 DEF Job
  <2>3. CASE jobs[k].st \notin {"waits", "runs"}
    <3>1. jobs'[k] = jobs[k] BY <1>1, <2>3
    <3> QED BY <1>5, <2>3, <3>1
  <2> QED BY <2>2, <2>3
<1>7. jobs' \in Seq(Job)
  <2>1. jobs' = [k \in 1..Len(jobs) |-> jobs'[k]] BY <1>1, <1>5
  <2>2. jobs' \in [1..Len(jobs) -> Job] BY <1>5, <1>6, <2>1
  <2> QED BY <1>5, <2>2, NumberedIsSeq
<1>8. Running' = {}
  <2>1. DOMAIN jobs' = DOMAIN jobs BY <1>1
  <2> QED BY <1>6, <2>1 DEF Running
<1>9. JobsInv' BY <1>1, <1>7, <1>8 DEF JobsInv
<1> QED BY <1>2, <1>3, <1>4, <1>9 DEF CompInv

\* Every step of a compilation keeps the invariant.
LEMMA CompKept == CompInv /\ [CompilerNext]_compVars => CompInv'
<1> SUFFICES ASSUME CompInv, [CompilerNext]_compVars PROVE CompInv' OBVIOUS
<1>1. CASE Prepare BY <1>1, PrepareKeeps
<1>2. CASE NextCandidate BY <1>2, NextCandidateKeeps
<1>3. CASE FitEnds BY <1>3, FitEndsKeeps
<1>4. CASE WriteBrief \/ Audit \/ FallbackReport BY <1>4, EndingKeeps
<1>5. CASE JoinChunks BY <1>5, JoinChunksKeeps
<1>6. CASE \E k \in DOMAIN jobs : StartChunk(k) \/ ChunkAnswers(k)
  BY <1>6, StartChunkKeeps, ChunkAnswersKeeps
<1>7. CASE CancelCompile BY <1>7, CancelKeeps
<1>8. CASE UNCHANGED compVars
  <2>1. /\ UNCHANGED <<conf, input, fitted, todo, cur, jobs, calls, at, brief, docs>>
    BY <1>8 DEF compVars
  <2>2. SectionsInv' BY <2>1, SectionsStay DEF CompInv
  <2>3. QueueInv'
    <3>1. \A j : (IsRes(j)' <=> IsRes(j)) /\ (Settled(j)' <=> Settled(j))
      BY <2>1 DEF IsRes, Settled
    <3>2. Qwen' <=> Qwen BY <2>1 DEF Qwen
    <3> QED BY <2>1, <3>1, <3>2 DEF CompInv, QueueInv
  <2>4. JobsInv'
    <3>1. Running' = Running /\ CurParts' = CurParts /\ TargetNow' = TargetNow /\ (Qwen' <=> Qwen)
      BY <2>1 DEF Running, CurParts, PartsOf, PartSize, Qwen, TargetNow, ChunkTarget, Target
    <3>2. \A job, part, least : JobFits(job, part, least)' <=> JobFits(job, part, least)
      BY <2>1, <3>1 DEF JobFits
    <3> QED BY <2>1, <3>1, <3>2 DEF CompInv, JobsInv
  <2>5. EndInv' BY <2>1 DEF CompInv, EndInv, OnlyReviewPauses
  <2> QED BY <2>2, <2>3, <2>4, <2>5 DEF CompInv
<1> QED BY <1>1, <1>2, <1>3, <1>4, <1>5, <1>6, <1>7, <1>8 DEF CompilerNext, CompileStep

\* A compilation always satisfies it.
LEMMA CompInvHolds == CompilerSpec => []CompInv
BY CompInitial, CompKept, PTL DEF CompilerSpec

\* What it says of how condensing ends.
LEMMA CompEndsClean == CompInv => CondensingEndsClean
BY DEF CompInv, JobsInv, QueueInv, SectionsInv, EndInv, CondensingEndsClean,
       NoStreamIsOrphaned, CallsBounded

\* However the compression of the sections ends, no call of it runs on, no more calls were
\* made than are allowed and none for a report that fits, and only the review pauses
\* (_fit_sections_to_budget, _compress_sections_qwen).
THEOREM CondensingAlwaysEndsClean == CompilerSpec => []CondensingEndsClean
BY CompInvHolds, CompEndsClean, PTL

(***************************************************************************)
(* ReportCompiler: what the draft lost, and the list for the audit.        *)
(***************************************************************************)
\* The lines of a section that its list names.
LostAt(i) == {k \in DOMAIN fitted[i].text : /\ fitted[i].text[k] # Mark
                                            /\ ~Squashed(fitted[i].text[k])
                                            /\ DroppedSilently(fitted[i].text[k])
                                            /\ ~StatedBefore(Evidence, i, k)}

\* The list of a section names lines of it, each once, and all it should; a plan has none.
LEMMA LostIsListed ==
  ASSUME Sized(fitted), NEW i \in DOMAIN fitted
  PROVE  /\ Len(Lost(i)) \in Nat /\ Len(Lost(i)) <= Total(fitted)
         /\ DOMAIN Lost(i) = 1..Len(Lost(i))
         /\ i \notin Evidence => DOMAIN Lost(i) = {}
         /\ i \in Evidence =>
              \E g \in [DOMAIN Lost(i) -> LostAt(i)] :
                /\ \A n \in DOMAIN Lost(i) : Lost(i)[n] = fitted[i].text[g[n]]
                /\ \A m, n \in DOMAIN Lost(i) : g[m] = g[n] => m = n
                /\ \A k \in LostAt(i) : \E n \in DOMAIN Lost(i) : g[n] = k
<1> DEFINE text == fitted[i].text
           L == LostAt(i)
           c == Cardinality(L)
           g == Ascending(L)
<1>1. /\ Lost(i) = IF i \in Evidence THEN [n \in DOMAIN g |-> text[g[n]]] ELSE <<>>
  BY DEF Lost, LostLines, LostAt
<1>2. /\ text \in Seq(Lines) /\ Len(text) \in Nat /\ DOMAIN text = 1..Len(text)
      /\ Len(text) <= Total(fitted) /\ Total(fitted) \in Nat
  BY SectionFacts, TotalCounts
<1>3. L \in SUBSET (1..Len(text)) BY <1>2 DEF LostAt
<1> DEFINE y == Total(fitted)
           x == Len(text)
<1> HIDE DEF L, x, y, text
<1>4. x \in Nat /\ y \in Nat /\ x <= y /\ L \in SUBSET (1..x) BY <1>2, <1>3 DEF x, y
<1>5. IsFiniteSet(L) /\ L \in SUBSET Nat /\ c <= x
  <2>1. IsFiniteSet(1..x) /\ Cardinality(1..x) = x
    <3>1. 1 \in Int /\ x \in Int /\ 1 <= x + 1 BY <1>4
    <3>2. IsFiniteSet(1..x) /\ Cardinality(1..x) = IF 1 > x THEN 0 ELSE x - 1 + 1
      BY <3>1, FS_Interval
    <3> QED BY <1>4, <3>2
  <2>2. L \in SUBSET Nat BY <1>4
  <2>3. IsFiniteSet(L) /\ Cardinality(L) <= Cardinality(1..x) BY <1>4, <2>1, FS_Subset
  <2> QED BY <2>1, <2>2, <2>3
<1>6. /\ c \in Nat /\ g \in [1..c -> L]
      /\ \A m, n \in 1..c : g[m] = g[n] => m = n
      /\ \A k \in L : \E n \in 1..c : g[n] = k
  BY <1>5, AscendingLists
<1> HIDE DEF g, c
<1>7. CASE i \in Evidence
  <2>1. Lost(i) = [n \in 1..c |-> text[g[n]]] BY <1>1, <1>6, <1>7
  <2>2. Len(Lost(i)) = c /\ DOMAIN Lost(i) = 1..c
        /\ \A n \in 1..c : Lost(i)[n] = text[g[n]]
    <3> DEFINE s == [n \in 1..c |-> text[g[n]]]
    <3>1. DOMAIN s = 1..c /\ \A n \in 1..c : s[n] = text[g[n]] OBVIOUS
    <3>2. Len(s) = c BY <1>6
    <3> HIDE DEF s
    <3>3. Lost(i) = s BY <2>1 DEF s
    <3> QED BY <3>1, <3>2, <3>3
  <2>3. c \in Nat /\ c <= y BY <1>4, <1>5, <1>6
  <2> QED BY <1>6, <1>7, <2>2, <2>3 DEF y, L, text
<1>8. CASE i \notin Evidence
  <2>1. Lost(i) = <<>> BY <1>1, <1>8
  <2>2. Len(<<>>) = 0 /\ DOMAIN <<>> = {} /\ 1..0 = {} OBVIOUS
  <2>3. Len(Lost(i)) = 0 /\ DOMAIN Lost(i) = {} BY <2>1, <2>2, Zenon
  <2> QED BY <1>4, <1>8, <2>2, <2>3 DEF y
<1> QED BY <1>7, <1>8

\* The places of the lists at which a line is.
ListedAt(line) == {p \in (DOMAIN fitted) \X (1..Total(fitted)) :
                     p[2] \in DOMAIN Lost(p[1]) /\ Lost(p[1])[p[2]] = line}

\* No squashed table is listed.
LEMMA SquashedIsNotListed ==
  ASSUME Sized(fitted), NEW line, Squashed(line)
  PROVE  ListedAt(line) = {}
<1> SUFFICES ASSUME NEW j \in DOMAIN fitted, NEW n \in DOMAIN Lost(j), Lost(j)[n] = line
             PROVE  FALSE
  BY DEF ListedAt
<1>1. j \in Evidence BY LostIsListed
<1>2. PICK h \in [DOMAIN Lost(j) -> LostAt(j)] :
        \A m \in DOMAIN Lost(j) : Lost(j)[m] = fitted[j].text[h[m]]
  BY <1>1, LostIsListed
<1>3. h[n] \in LostAt(j) /\ fitted[j].text[h[n]] = line BY <1>2
<1> QED BY <1>3 DEF LostAt

\* A line of evidence has one first place, which alone is not stated before; there it is
\* listed.
LEMMA ClaimIsListedOnce ==
  ASSUME CompInv, NEW i \in Evidence, NEW k \in DOMAIN fitted[i].text,
         fitted[i].text[k] # Mark, DroppedSilently(fitted[i].text[k]),
         ~Squashed(fitted[i].text[k])
  PROVE  Cardinality(ListedAt(fitted[i].text[k])) = 1
<1> DEFINE v == fitted[i].text[k]
           T == Total(fitted)
           D == DOMAIN fitted
           Places(j) == {m \in DOMAIN fitted[j].text : fitted[j].text[m] = v}
           J == {j \in Evidence : Places(j) # {}}
           S == {p \in D \X (1..T) : p[2] \in DOMAIN Lost(p[1]) /\ Lost(p[1])[p[2]] = v}
<1>1. Sized(fitted) BY DEF CompInv, SectionsInv
<1>2. /\ D \in SUBSET Nat /\ T \in Nat
      /\ \A j \in D : /\ DOMAIN fitted[j].text \in SUBSET Nat
                      /\ \A m \in DOMAIN fitted[j].text : m \in 1..T
  <2>1. D \in SUBSET Nat /\ T \in Nat BY <1>1, SectionFacts, TotalCounts
  <2>2. ASSUME NEW j \in D, NEW m \in DOMAIN fitted[j].text PROVE m \in Nat /\ m \in 1..T
    <3>1. fitted[j].text \in Seq(Lines) /\ Len(fitted[j].text) \in Nat
          /\ Len(fitted[j].text) <= T
      BY <1>1, SectionFacts, TotalCounts
    <3> DEFINE x == Len(fitted[j].text)
    <3>2. m \in 1..x BY <3>1
    <3> HIDE DEF x, T
    <3>3. x \in Nat /\ x <= T BY <3>1 DEF x
    <3> QED BY <2>1, <3>2, <3>3
  <2> QED BY <2>1, <2>2
<1>3. Evidence \subseteq D BY DEF Evidence
<1> HIDE DEF T
<1>4. PICK j0 \in J : \A j \in J : j0 <= j
  <2>1. i \in J OBVIOUS
  <2>2. J \in SUBSET Nat BY <1>2, <1>3
  <2> HIDE DEF J
  <2> QED BY <2>1, <2>2, LeastNumber
<1>5. PICK m0 \in Places(j0) : \A m \in Places(j0) : m0 <= m
  <2>1. Places(j0) \in SUBSET Nat BY <1>2, <1>3
  <2>2. Places(j0) # {} OBVIOUS
  <2> HIDE DEF Places
  <2> QED BY <2>1, <2>2, LeastNumber
<1>6. /\ j0 \in Evidence /\ j0 \in D /\ j0 \in Nat /\ m0 \in Nat /\ m0 \in 1..T
      /\ m0 \in DOMAIN fitted[j0].text /\ fitted[j0].text[m0] = v
  BY <1>2, <1>3
<1>7. ASSUME NEW j \in Evidence, NEW m \in Places(j)
      PROVE  StatedBefore(Evidence, j, m) <=> ~(j = j0 /\ m = m0)
  <2>1. /\ j \in J /\ j \in Nat /\ m \in Nat /\ m \in DOMAIN fitted[j].text
        /\ fitted[j].text[m] = v /\ j0 <= j
    <3>1. j \in J OBVIOUS
    <3>2. j \in Nat /\ m \in Nat /\ m \in DOMAIN fitted[j].text /\ fitted[j].text[m] = v
      BY <1>2, <1>3
    <3>3. j0 <= j BY <1>4, <3>1
    <3> QED BY <3>1, <3>2, <3>3
  <2>2. ASSUME ~(j = j0 /\ m = m0) PROVE StatedBefore(Evidence, j, m)
    <3>1. j = j0 => m0 < m
      <4> SUFFICES ASSUME j = j0 PROVE m0 < m OBVIOUS
      <4>1. m0 <= m BY <1>5
      <4> QED BY <1>6, <2>1, <2>2, <4>1
    <3>2. j0 < j \/ (j0 = j /\ m0 < m) BY <1>6, <2>1, <3>1
    <3>3. fitted[j0].text[m0] = fitted[j].text[m] BY <1>6, <2>1
    <3> QED BY <1>6, <3>2, <3>3 DEF StatedBefore, T
  <2>3. ~StatedBefore(Evidence, j0, m0)
    <3> SUFFICES ASSUME NEW a \in Evidence, NEW b \in 1..Total(fitted),
                        b \in DOMAIN fitted[a].text, fitted[a].text[b] = fitted[j0].text[m0],
                        a < j0 \/ (a = j0 /\ b < m0)
                 PROVE  FALSE
      BY DEF StatedBefore
    <3>1. b \in Places(a) BY <1>6
    <3>2. a \in J /\ a \in Nat /\ b \in Nat BY <1>2, <1>3, <3>1
    <3>3. j0 <= a BY <1>4, <3>2
    <3>4. a = j0 /\ b < m0 BY <1>6, <3>2, <3>3
    <3>5. m0 <= b BY <1>5, <3>1, <3>4
    <3> QED BY <1>6, <3>2, <3>4, <3>5
  <2> QED BY <2>2, <2>3
<1> HIDE DEF J
<1>8. m0 \in LostAt(j0)
  <2>1. ~StatedBefore(Evidence, j0, m0) BY <1>6, <1>7
  <2> QED BY <1>6, <2>1 DEF LostAt
<1>9. PICK g \in [DOMAIN Lost(j0) -> LostAt(j0)] :
        /\ \A n \in DOMAIN Lost(j0) : Lost(j0)[n] = fitted[j0].text[g[n]]
        /\ \A m, n \in DOMAIN Lost(j0) : g[m] = g[n] => m = n
        /\ \A m \in LostAt(j0) : \E n \in DOMAIN Lost(j0) : g[n] = m
  BY <1>1, <1>6, LostIsListed
<1>10. PICK n0 \in DOMAIN Lost(j0) : g[n0] = m0 BY <1>8, <1>9
<1>11. <<j0, n0>> \in S
  <2>1. /\ Len(Lost(j0)) \in Nat /\ Len(Lost(j0)) <= T /\ DOMAIN Lost(j0) = 1..Len(Lost(j0))
    BY <1>1, <1>6, LostIsListed DEF T
  <2>2. n0 \in 1..T BY <1>2, <2>1
  <2>3. Lost(j0)[n0] = v BY <1>6, <1>9, <1>10
  <2> QED BY <1>6, <2>2, <2>3
<1>12. ASSUME NEW j \in D, NEW n \in DOMAIN Lost(j), Lost(j)[n] = v
       PROVE  j = j0 /\ n = n0
  <2>1. j \in Evidence BY <1>1, LostIsListed
  <2>2. PICK h \in [DOMAIN Lost(j) -> LostAt(j)] :
          \A m \in DOMAIN Lost(j) : Lost(j)[m] = fitted[j].text[h[m]]
    BY <1>1, <2>1, LostIsListed
  <2>3. h[n] \in LostAt(j) /\ fitted[j].text[h[n]] = v BY <1>12, <2>2
  <2>4. h[n] \in Places(j) /\ ~StatedBefore(Evidence, j, h[n]) BY <2>3 DEF LostAt
  <2>5. j = j0 /\ h[n] = m0 BY <1>7, <2>1, <2>4
  <2>6. g[n] \in LostAt(j0) /\ fitted[j0].text[g[n]] = v BY <1>9, <1>12, <2>5
  <2>7. g[n] \in Places(j0) /\ ~StatedBefore(Evidence, j0, g[n]) BY <2>6 DEF LostAt
  <2>8. g[n] = m0 BY <1>6, <1>7, <2>7
  <2> QED BY <1>9, <1>10, <2>5, <2>8
<1>13. S = {<<j0, n0>>}
  <2>1. ASSUME NEW p \in S PROVE p = <<j0, n0>>
    <3>1. p[1] \in D /\ p[2] \in DOMAIN Lost(p[1]) /\ Lost(p[1])[p[2]] = v /\ p = <<p[1], p[2]>>
      OBVIOUS
    <3>2. p[1] = j0 /\ p[2] = n0 BY <1>12, <3>1
    <3> QED BY <3>1, <3>2
  <2> HIDE DEF S
  <2> QED BY <1>11, <2>1
<1> HIDE DEF S
<1>14. Cardinality(S) = 1 BY <1>13, FS_Singleton
<1> QED BY <1>14 DEF S, T, ListedAt

\* A line that was lost is listed once when it is a claim, and not when it is a table.
LEMMA LossHasOnePlace == CompInv => LossIsListedOnce
<1> SUFFICES ASSUME CompInv, NEW i \in Evidence, NEW k \in DOMAIN fitted[i].text,
                    fitted[i].text[k] # Mark, DroppedSilently(fitted[i].text[k])
             PROVE  Cardinality(ListedAt(fitted[i].text[k])) =
                      IF Cardinality(fitted[i].text[k]) > AuditValues THEN 0 ELSE 1
  BY DEF LossIsListedOnce, ListedAt
<1>1. CASE Squashed(fitted[i].text[k])
  <2>1. ListedAt(fitted[i].text[k]) = {}
    BY <1>1, SquashedIsNotListed DEF CompInv, SectionsInv
  <2>2. Cardinality({}) = 0 BY FS_EmptySet
  <2> QED BY <1>1, <2>1, <2>2 DEF Squashed
<1>2. CASE ~Squashed(fitted[i].text[k])
  BY <1>2, ClaimIsListedOnce DEF Squashed
<1> QED BY <1>1, <1>2

(***************************************************************************)
(* ReportCompiler: the shares of the sections in the audit's list.         *)
(***************************************************************************)
\* The lines that come before the n-th one of section i.
BeforeLine(lens, i, n) ==
  SumFunction([j \in DOMAIN lens |-> Smallest(lens[j], IF j < i THEN n ELSE n - 1)])
Taken(lens, i) == {n \in 1..lens[i] : BeforeLine(lens, i, n) < AuditLines}
LensAreNumbers(lens) ==
  /\ IsFiniteSet(DOMAIN lens) /\ DOMAIN lens \in SUBSET Nat
  /\ \A i \in DOMAIN lens : lens[i] \in Nat

\* An earlier turn, or an earlier section in it, has fewer lines before it.
LEMMA BeforeGrows ==
  ASSUME NEW lens, LensAreNumbers(lens), NEW i \in DOMAIN lens, NEW j \in DOMAIN lens,
         NEW m \in Nat \ {0}, NEW n \in Nat \ {0}, m < n \/ (m = n /\ i <= j)
  PROVE  /\ BeforeLine(lens, i, m) \in Int /\ BeforeLine(lens, j, n) \in Int
         /\ BeforeLine(lens, i, m) <= BeforeLine(lens, j, n)
<1> DEFINE f == [c \in DOMAIN lens |-> Smallest(lens[c], IF c < i THEN m ELSE m - 1)]
           g == [c \in DOMAIN lens |-> Smallest(lens[c], IF c < j THEN n ELSE n - 1)]
           D == DOMAIN lens
<1>1. BeforeLine(lens, i, m) = SumFunctionOnSet(f, D) /\ BeforeLine(lens, j, n) = SumFunctionOnSet(g, D)
  BY DEF BeforeLine, SumFunction
<1>2. ASSUME NEW c \in D PROVE f[c] \in Int /\ g[c] \in Int /\ f[c] <= g[c]
  <2>1. lens[c] \in Nat /\ c \in Nat /\ i \in Nat /\ j \in Nat BY DEF LensAreNumbers
  <2>2. /\ f[c] = Smallest(lens[c], IF c < i THEN m ELSE m - 1)
        /\ g[c] = Smallest(lens[c], IF c < j THEN n ELSE n - 1)
    OBVIOUS
  <2> DEFINE l == lens[c]
  <2> HIDE DEF l, f, g
  <2>3. l \in Nat BY <2>1 DEF l
  <2> QED BY <2>1, <2>2, <2>3 DEF Smallest, l
<1> HIDE DEF f, g
<1>3. IsFiniteSet(D) BY DEF LensAreNumbers
<1>4. SumFunctionOnSet(f, D) \in Int /\ SumFunctionOnSet(g, D) \in Int
      /\ SumFunctionOnSet(f, D) <= SumFunctionOnSet(g, D)
  BY <1>2, <1>3, SumType, SumBelow
<1> QED BY <1>1, <1>4

\* A section that gives lines gives its first ones.
LEMMA TakenIsFirst ==
  ASSUME NEW lens, LensAreNumbers(lens), NEW i \in DOMAIN lens
  PROVE  /\ Shares(lens)[i] = Cardinality(Taken(lens, i))
         /\ Shares(lens)[i] \in Nat /\ Taken(lens, i) = 1..Shares(lens)[i]
<1>1. Shares(lens)[i] = Cardinality(Taken(lens, i)) BY DEF Shares, Taken, BeforeLine
<1>2. lens[i] \in Nat BY DEF LensAreNumbers
<1>3. Taken(lens, i) \in SUBSET (1..lens[i]) BY DEF Taken
<1>4. ASSUME NEW k \in Taken(lens, i), NEW m \in 1..lens[i], m <= k PROVE m \in Taken(lens, i)
  <2>1. k \in 1..lens[i] /\ BeforeLine(lens, i, k) < AuditLines BY DEF Taken
  <2>2. k \in Nat \ {0} /\ m \in Nat \ {0} /\ (m < k \/ (m = k /\ i <= i))
    <3>1. i \in Nat BY DEF LensAreNumbers
    <3>2. k \in Nat \ {0} /\ m \in Nat \ {0} BY <1>2, <2>1
    <3> QED BY <1>4, <3>1, <3>2
  <2>3. /\ BeforeLine(lens, i, m) \in Int /\ BeforeLine(lens, i, k) \in Int
        /\ BeforeLine(lens, i, m) <= BeforeLine(lens, i, k)
    BY <2>2, BeforeGrows
  <2>4. AuditLines \in Nat BY ReportsAssumption
  <2>5. BeforeLine(lens, i, m) < AuditLines BY <2>1, <2>3, <2>4
  <2> QED BY <2>5 DEF Taken
<1> DEFINE T == Taken(lens, i)
           L == lens[i]
<1> HIDE DEF T, L
<1>5. Cardinality(T) \in Nat /\ T = 1..Cardinality(T)
  <2>1. L \in Nat /\ T \in SUBSET (1..L) BY <1>2, <1>3 DEF T, L
  <2>2. \A k \in T, m \in 1..L : m <= k => m \in T BY <1>4 DEF T, L
  <2> QED BY <2>1, <2>2, PrefixIsInterval
<1> QED BY <1>1, <1>5 DEF T

\* The lines to list, in the order of the turns.
Pairs(lens) == {p \in (DOMAIN lens) \X Nat : p[2] \in 1..lens[p[1]]}
TurnOrder(lens) == {q \in Pairs(lens) \X Pairs(lens) :
                      \/ q[1][2] < q[2][2]
                      \/ q[1][2] = q[2][2] /\ q[1][1] < q[2][1]}

\* There are as many as the sections have, and each comes after those before it.
LEMMA PairsAreRanked ==
  ASSUME NEW lens, LensAreNumbers(lens)
  PROVE  /\ IsFiniteSet(Pairs(lens)) /\ Cardinality(Pairs(lens)) = SumFunction(lens)
         /\ Orders(TurnOrder(lens), Pairs(lens))
         /\ \A p \in Pairs(lens) :
              RankIn(Pairs(lens), TurnOrder(lens), p) = BeforeLine(lens, p[1], p[2]) + 1
<1> DEFINE D == DOMAIN lens
           K == Pairs(lens)
           R == TurnOrder(lens)
           T == SumFunctionOnSet(lens, D)
<1>1. IsFiniteSet(D) /\ D \in SUBSET Nat /\ \A i \in D : lens[i] \in Nat BY DEF LensAreNumbers
<1>2. \A p \in K : p[1] \in D /\ p[1] \in Nat /\ p[2] \in Nat \ {0} /\ p[2] <= lens[p[1]]
                   /\ p = <<p[1], p[2]>>
  <2> SUFFICES ASSUME NEW p \in K
               PROVE  p[1] \in D /\ p[1] \in Nat /\ p[2] \in Nat \ {0} /\ p[2] <= lens[p[1]]
                      /\ p = <<p[1], p[2]>>
    OBVIOUS
  <2>1. p[1] \in D /\ p[2] \in Nat /\ p[2] \in 1..lens[p[1]] /\ p = <<p[1], p[2]>> BY DEF Pairs
  <2>2. lens[p[1]] \in Nat BY <1>1, <2>1
  <2> QED BY <1>1, <2>1, <2>2
<1>3. \A i \in D, n \in Nat : <<i, n>> \in K <=> n \in 1..lens[i] BY DEF Pairs
<1>4. IsFiniteSet(K)
  <2>1. T \in Nat /\ \A i \in D : lens[i] <= T
    <3>1. D \subseteq D OBVIOUS
    <3>2. T \in Nat BY <1>1, <3>1, SumMonotone
    <3>3. ASSUME NEW i \in D PROVE lens[i] <= SumFunctionOnSet(lens, D)
      <4> HIDE DEF D
      <4> QED BY <1>1, PartBelowSum
    <3> QED BY <3>2, <3>3
  <2> HIDE DEF T
  <2>2. K \subseteq D \X (1..T)
    <3> SUFFICES ASSUME NEW p \in K PROVE p \in D \X (1..T) OBVIOUS
    <3>1. p[2] \in 1..T
      <4>1. lens[p[1]] \in Nat /\ lens[p[1]] <= T /\ p[2] \in Nat \ {0} /\ p[2] <= lens[p[1]]
        BY <1>1, <1>2, <2>1
      <4> QED BY <2>1, <4>1
    <3> QED BY <1>2, <3>1
  <2>3. IsFiniteSet(1..T) BY <2>1, FS_Interval
  <2>4. IsFiniteSet(D \X (1..T)) BY <1>1, <2>3, FS_Product
  <2> QED BY <2>2, <2>4, FS_Subset
<1>5. Cardinality(K) = SumFunction(lens)
  <2>1. ASSUME NEW i \in D PROVE lens[i] = Cardinality({n \in Nat : <<i, n>> \in K})
    <3> DEFINE l == lens[i]
    <3>1. {n \in Nat : <<i, n>> \in K} = 1..l
      <4>1. \A n \in Nat : <<i, n>> \in K <=> n \in 1..l BY <1>3
      <4>2. \A n \in 1..l : n \in Nat OBVIOUS
      <4> HIDE DEF l
      <4> QED BY <4>1, <4>2
    <3> HIDE DEF l
    <3>2. l \in Nat BY <1>1 DEF l
    <3>3. Cardinality(1..l) = l
      <4>1. 1 \in Int /\ l \in Int /\ (1 > l => l = 0) /\ l - 1 + 1 = l BY <3>2
      <4> QED BY <4>1, FS_Interval
    <3> QED BY <3>1, <3>3 DEF l
  <2>2. K \subseteq D \X Nat BY DEF Pairs
  <2> HIDE DEF K
  <2>3. Cardinality(K) = SumFunctionOnSet(lens, D) BY <1>1, <1>4, <2>1, <2>2, CountPairs
  <2> QED BY <2>3 DEF SumFunction
<1>6. \A p, q \in K : <<p, q>> \in R <=> p[2] < q[2] \/ (p[2] = q[2] /\ p[1] < q[1])
  <2> SUFFICES ASSUME NEW p \in K, NEW q \in K
               PROVE  <<p, q>> \in R <=> p[2] < q[2] \/ (p[2] = q[2] /\ p[1] < q[1])
    OBVIOUS
  <2> DEFINE w == <<p, q>>
  <2>1. w[1] = p /\ w[2] = q /\ w \in K \X K OBVIOUS
  <2>2. w \in R <=> w[1][2] < w[2][2] \/ (w[1][2] = w[2][2] /\ w[1][1] < w[2][1])
    <3> HIDE DEF w
    <3> QED BY <2>1 DEF TurnOrder
  <2> QED BY <2>1, <2>2
<1> HIDE DEF K, R
<1>7. Orders(R, K)
  <2>1. \A p, q \in K : p # q => <<p, q>> \in R \/ <<q, p>> \in R
    <3> SUFFICES ASSUME NEW p \in K, NEW q \in K, p # q PROVE <<p, q>> \in R \/ <<q, p>> \in R
      OBVIOUS
    <3>1. p[1] \in Nat /\ p[2] \in Nat /\ q[1] \in Nat /\ q[2] \in Nat BY <1>2
    <3>2. p[1] # q[1] \/ p[2] # q[2] BY <1>2
    <3>3. \/ p[2] < q[2] \/ (p[2] = q[2] /\ p[1] < q[1])
          \/ q[2] < p[2] \/ (q[2] = p[2] /\ q[1] < p[1])
      BY <3>1, <3>2
    <3> QED BY <1>6, <3>3
  <2>2. \A p \in K : <<p, p>> \notin R
    <3> SUFFICES ASSUME NEW p \in K PROVE <<p, p>> \notin R OBVIOUS
    <3>1. p[1] \in Nat /\ p[2] \in Nat BY <1>2
    <3>2. ~(p[2] < p[2]) /\ ~(p[1] < p[1]) BY <3>1
    <3> QED BY <1>6, <3>2
  <2>3. \A p, q, r \in K : <<p, q>> \in R /\ <<q, r>> \in R => <<p, r>> \in R
    <3> SUFFICES ASSUME NEW p \in K, NEW q \in K, NEW r \in K, <<p, q>> \in R, <<q, r>> \in R
                 PROVE  <<p, r>> \in R
      OBVIOUS
    <3>1. /\ p[1] \in Nat /\ p[2] \in Nat /\ q[1] \in Nat /\ q[2] \in Nat
          /\ r[1] \in Nat /\ r[2] \in Nat
      BY <1>2
    <3>2. /\ p[2] < q[2] \/ (p[2] = q[2] /\ p[1] < q[1])
          /\ q[2] < r[2] \/ (q[2] = r[2] /\ q[1] < r[1])
      BY <1>6
    <3>3. p[2] < r[2] \/ (p[2] = r[2] /\ p[1] < r[1]) BY <3>1, <3>2
    <3> QED BY <1>6, <3>3
  <2> QED BY <2>1, <2>2, <2>3 DEF Orders
<1>8. ASSUME NEW p \in K PROVE RankIn(K, R, p) = BeforeLine(lens, p[1], p[2]) + 1
  <2> DEFINE i == p[1]
             n == p[2]
             h == [j \in D |-> Smallest(lens[j], IF j < i THEN n ELSE n - 1)]
             B == {q \in K : <<q, p>> \in R}
  <2>0. i \in Nat /\ n \in Nat \ {0} BY <1>2
  <2>1. BeforeLine(lens, i, n) = SumFunctionOnSet(h, D) BY DEF BeforeLine, SumFunction
  <2>2. B \subseteq K /\ p \notin B /\ FirstOf(K, R, p) = B \cup {p}
    BY <1>7 DEF Orders, FirstOf
  <2>3. IsFiniteSet(B) BY <1>4, <2>2, FS_Subset
  <2>4. ASSUME NEW j \in D PROVE h[j] = Cardinality({m \in Nat : <<j, m>> \in B})
    <3> DEFINE l == lens[j]
               hj == h[j]
    <3>1. ASSUME NEW m \in Nat
          PROVE  <<j, m>> \in B <=> m \in 1..l /\ (m < n \/ (m = n /\ j < i))
      <4>1. <<j, m>> \in K <=> m \in 1..l BY <1>3
      <4>2. <<j, m>>[1] = j /\ <<j, m>>[2] = m OBVIOUS
      <4>3. <<j, m>> \in K => (<<<<j, m>>, p>> \in R <=> m < n \/ (m = n /\ j < i))
        BY <1>6, <4>2
      <4>4. <<j, m>> \in B <=> <<j, m>> \in K /\ <<<<j, m>>, p>> \in R OBVIOUS
      <4> HIDE DEF B, l, i, n
      <4> QED BY <4>1, <4>3, <4>4
    <3>2. hj = Smallest(l, IF j < i THEN n ELSE n - 1) OBVIOUS
    <3>3. l \in Nat /\ j \in Nat BY <1>1
    <3> HIDE DEF l, i, n, B, hj
    <3>4. hj \in Nat /\ \A m \in Nat : m \in 1..hj <=> m \in 1..l /\ (m < n \/ (m = n /\ j < i))
      BY <2>0, <3>2, <3>3 DEF Smallest
    <3>5. {m \in Nat : <<j, m>> \in B} = 1..hj
      <4>1. \A m \in 1..hj : m \in Nat BY <3>4
      <4>2. \A m \in Nat : <<j, m>> \in B <=> m \in 1..hj BY <3>1, <3>4
      <4> QED BY <4>1, <4>2
    <3>6. Cardinality(1..hj) = hj
      <4>1. 1 \in Int /\ hj \in Int /\ (1 > hj => hj = 0) /\ hj - 1 + 1 = hj BY <3>4
      <4> QED BY <4>1, FS_Interval
    <3> QED BY <3>5, <3>6 DEF hj
  <2>5. B \subseteq D \X Nat
    <3>1. K \subseteq D \X Nat BY DEF Pairs, K
    <3> QED BY <2>2, <3>1
  <2> HIDE DEF B, h, i, n
  <2>6. Cardinality(B) \in Nat /\ Cardinality(B) = SumFunctionOnSet(h, D)
    BY <1>1, <2>3, <2>4, <2>5, CountPairs
  <2>7. Cardinality(B \cup {p}) = Cardinality(B) + 1 BY <2>2, <2>3, FS_AddElement
  <2> QED BY <2>1, <2>2, <2>6, <2>7 DEF RankIn, i, n
<1> QED BY <1>4, <1>5, <1>7, <1>8 DEF K, R

\* The shares use up the limit, and are as even as the sections' lists allow.
LEMMA SharesAreEven ==
  ASSUME NEW lens, LensAreNumbers(lens)
  PROVE  /\ SumFunction(Shares(lens)) = Smallest(AuditLines, SumFunction(lens))
         /\ \A i, j \in DOMAIN lens : Shares(lens)[i] < lens[i] =>
                                        Shares(lens)[j] <= Shares(lens)[i] + 1
<1> DEFINE D == DOMAIN lens
           K == Pairs(lens)
           R == TurnOrder(lens)
           take == Shares(lens)
           G == {p \in K : RankIn(K, R, p) <= AuditLines}
<1>1. /\ IsFiniteSet(D) /\ D \in SUBSET Nat /\ \A i \in D : lens[i] \in Nat
      /\ AuditLines \in Nat
  BY ReportsAssumption DEF LensAreNumbers
<1>2. /\ IsFiniteSet(K) /\ Cardinality(K) = SumFunction(lens) /\ Orders(R, K)
      /\ \A p \in K : RankIn(K, R, p) = BeforeLine(lens, p[1], p[2]) + 1
  BY PairsAreRanked
<1>3. /\ DOMAIN take = D
      /\ \A i \in D : /\ take[i] \in Nat /\ Taken(lens, i) = 1..take[i]
                      /\ take[i] = Cardinality(Taken(lens, i))
  <2>1. DOMAIN take = D BY DEF Shares
  <2> QED BY <2>1, TakenIsFirst
<1>4. K \subseteq D \X Nat /\ \A i \in D, n \in Nat : <<i, n>> \in K <=> n \in 1..lens[i]
  BY DEF Pairs
<1> HIDE DEF K, R, take
<1>5. ASSUME NEW i \in D, NEW n \in Nat
      PROVE  <<i, n>> \in G <=> n \in Taken(lens, i)
  <2>1. <<i, n>>[1] = i /\ <<i, n>>[2] = n OBVIOUS
  <2>2. CASE n \in 1..lens[i]
    <3>1. <<i, n>> \in K /\ RankIn(K, R, <<i, n>>) = BeforeLine(lens, i, n) + 1
      BY <1>2, <1>4, <2>1, <2>2
    <3>2. BeforeLine(lens, i, n) \in Int
      <4>1. n \in Nat \ {0} /\ i <= i BY <1>1, <2>2
      <4> QED BY <4>1, BeforeGrows
    <3>3. RankIn(K, R, <<i, n>>) <= AuditLines <=> BeforeLine(lens, i, n) < AuditLines
      BY <1>1, <3>1, <3>2
    <3> QED BY <2>2, <3>1, <3>3 DEF Taken
  <2>3. CASE n \notin 1..lens[i] BY <1>4, <2>3 DEF Taken
  <2> QED BY <2>2, <2>3
<1>6. G \subseteq K OBVIOUS
<1>7. Cardinality(G) = Smallest(AuditLines, Cardinality(K))
  <2>1. Cardinality(K) \in Nat /\ \A p \in K : RankIn(K, R, p) \in 1..Cardinality(K)
    BY <1>2, RanksGrow
  <2>2. CASE AuditLines <= Cardinality(K)
    <3>1. AuditLines \in 0..Cardinality(K) BY <1>1, <2>1, <2>2
    <3>2. Cardinality(G) = AuditLines BY <1>2, <3>1, FirstRanked
    <3> QED BY <2>2, <3>2 DEF Smallest
  <2>3. CASE AuditLines > Cardinality(K)
    <3>1. \A p \in K : RankIn(K, R, p) <= AuditLines
      <4> SUFFICES ASSUME NEW p \in K PROVE RankIn(K, R, p) <= AuditLines OBVIOUS
      <4>1. RankIn(K, R, p) \in 1..Cardinality(K) BY <2>1
      <4> QED BY <1>1, <2>1, <2>3, <4>1
    <3>2. G = K BY <3>1
    <3>3. ~(AuditLines <= Cardinality(K)) BY <1>1, <2>1, <2>3
    <3> QED BY <3>2, <3>3 DEF Smallest
  <2> QED BY <1>1, <2>1, <2>2, <2>3
<1> HIDE DEF G
<1>8. SumFunction(take) = Smallest(AuditLines, SumFunction(lens))
  <2>1. IsFiniteSet(G) /\ G \subseteq D \X Nat BY <1>2, <1>4, <1>6, FS_Subset
  <2>2. ASSUME NEW i \in D PROVE take[i] = Cardinality({n \in Nat : <<i, n>> \in G})
    <3>1. Taken(lens, i) \subseteq Nat BY <1>3
    <3>2. {n \in Nat : <<i, n>> \in G} = Taken(lens, i) BY <1>5, <3>1
    <3> QED BY <1>3, <3>2
  <2>3. Cardinality(G) = SumFunctionOnSet(take, D) BY <1>1, <2>1, <2>2, CountPairs
  <2> QED BY <1>2, <1>3, <1>7, <2>3 DEF SumFunction
<1>9. ASSUME NEW i \in D, NEW j \in D, take[i] < lens[i] PROVE take[j] <= take[i] + 1
  <2> DEFINE t == take[i]
             u == take[j]
  <2>1. t \in Nat /\ u \in Nat /\ lens[i] \in Nat /\ t + 1 \in 1..lens[i] /\ t + 1 \notin 1..t
    <3>1. take[i] \in Nat /\ take[j] \in Nat /\ lens[i] \in Nat BY <1>1, <1>3
    <3> QED BY <1>9, <3>1
  <2>2. t + 1 \notin Taken(lens, i) BY <1>3, <2>1
  <2>3. ~(BeforeLine(lens, i, t + 1) < AuditLines) BY <2>1, <2>2 DEF Taken
  <2> SUFFICES ASSUME u > t + 1 PROVE FALSE
    <3> HIDE DEF t, u
    <3>1. ~(u > t + 1) => u <= t + 1 BY <2>1
    <3> QED BY <3>1 DEF t, u
  <2>4. Taken(lens, j) = 1..u BY <1>3
  <2> HIDE DEF t, u
  <2>5. t + 2 \in Taken(lens, j) BY <2>1, <2>4
  <2>6. BeforeLine(lens, j, t + 2) < AuditLines BY <2>5 DEF Taken
  <2>7. t + 1 \in Nat \ {0} /\ t + 2 \in Nat \ {0} /\ t + 1 < t + 2 BY <2>1
  <2>8. /\ BeforeLine(lens, i, t + 1) \in Int /\ BeforeLine(lens, j, t + 2) \in Int
        /\ BeforeLine(lens, i, t + 1) <= BeforeLine(lens, j, t + 2)
    BY <2>7, BeforeGrows
  <2> QED BY <1>1, <2>3, <2>6, <2>8
<1> QED BY <1>8, <1>9 DEF take

\* The lists of the sections have lengths that can be shared out.
LEMMA CompAudits == CompInv => AuditIsFair
<1> SUFFICES ASSUME CompInv PROVE AuditIsFair OBVIOUS
<1>1. Sized(fitted) BY DEF CompInv, SectionsInv
<1>2. DOMAIN Lens = DOMAIN fitted /\ \A i \in DOMAIN fitted : Lens[i] = Len(Lost(i)) BY DEF Lens
<1>3. DOMAIN fitted \in SUBSET Nat /\ IsFiniteSet(DOMAIN fitted) BY <1>1, SectionFacts DEF Sized
<1>4. \A i \in DOMAIN Lens : Lens[i] \in Nat BY <1>1, <1>2, LostIsListed
<1>5. LensAreNumbers(Lens) BY <1>2, <1>3, <1>4 DEF LensAreNumbers
<1>6. /\ SumFunction(Shares(Lens)) = Smallest(AuditLines, SumFunction(Lens))
      /\ \A i, j \in DOMAIN Lens : Shares(Lens)[i] < Lens[i] =>
                                     Shares(Lens)[j] <= Shares(Lens)[i] + 1
  BY <1>5, SharesAreEven
<1> QED BY <1>6 DEF AuditIsFair

\* The types that the runs check.
LEMMA CompTyped == CompInv => CompilerTypeOK
<1> SUFFICES ASSUME CompInv PROVE CompilerTypeOK OBVIOUS
<1>1. SectionsInv /\ QueueInv /\ JobsInv /\ EndInv BY DEF CompInv
<1>2. Sized(input) /\ Sized(fitted) /\ Len(fitted) = Len(input) BY <1>1 DEF SectionsInv
<1>3. ASSUME NEW ss \in {input, fitted}, NEW i \in DOMAIN ss
      PROVE  ss[i].name \in Kinds /\ ss[i].text \in Seq(Range(ss[i].text))
  <2>1. Sized(ss) BY <1>2
  <2>2. ss[i].name \in Kinds /\ ss[i].text \in Seq(Lines) BY <2>1, SectionFacts
  <2> DEFINE t == ss[i].text
             n == Len(t)
  <2>3. t = [k \in 1..n |-> t[k]] /\ n \in Nat /\ DOMAIN t = 1..n BY <2>2
  <2>4. \A k \in 1..n : t[k] \in Range(t) BY <2>3 DEF Range
  <2> HIDE DEF t, n
  <2>5. t \in [1..n -> Range(t)] BY <2>3, <2>4
  <2>6. t \in Seq(Range(t)) BY <2>3, <2>5, NumberedIsSeq
  <2> QED BY <2>2, <2>6 DEF t
<1>4. DOMAIN fitted = DOMAIN input
  <2>1. DOMAIN input = 1..Len(input) /\ DOMAIN fitted = 1..Len(fitted) BY <1>2, SectionFacts
  <2> QED BY <1>2, <2>1
<1>5. Range(todo) \subseteq DOMAIN fitted
  <2>1. todo \in Seq(DOMAIN fitted) BY <1>1 DEF QueueInv
  <2> QED BY <2>1 DEF Range
<1>6. \A k \in DOMAIN jobs : jobs[k].st \in States
  <2>1. jobs \in Seq(Job) BY <1>1 DEF JobsInv
  <2>2. \A k \in DOMAIN jobs : jobs[k] \in Job BY <2>1
  <2> QED BY <2>2 DEF Job
<1>7. /\ at \in CompilerEnds \cup {"start", "fit", "condense", "write", "audit", "fallback"}
      /\ conf \in [mode : {"off", "review", "experimental"}, qwen : BOOLEAN, truncate : BOOLEAN]
      /\ cur \in {0} \cup DOMAIN fitted /\ calls \in Nat
      /\ brief \in {"none", "empty", "heuristic", "draft", "revised"}
      /\ docs \subseteq {"compiler_input", "brief:pre-audit", "brief:draft"}
  BY <1>1 DEF SectionsInv, QueueInv, EndInv
<1> QED BY <1>3, <1>4, <1>5, <1>6, <1>7 DEF CompilerTypeOK, States

\* Nothing of the research is lost without a mark, the resolution source gives way last,
\* and each line of evidence that the draft lost is listed once for an audit whose limit
\* the sections share evenly (_fit_sections_to_budget, missing_value_lines, _audit_brief).
THEOREM BriefAlwaysComplete == CompilerSpec => []BriefIsComplete
<1>1. CompInv => BriefIsComplete
  BY CompTyped, LossHasOnePlace, CompAudits DEF CompInv, SectionsInv, BriefIsComplete
<1> QED BY <1>1, CompInvHolds, PTL

(***************************************************************************)
(* ResolutionScrape: the batches.  Every piece goes into one, and what     *)
(* shares a batch with others fits one input.                              *)
(***************************************************************************)
Piece == [url : Nat, len : Nat]
Source == [url : Nat, len : Nat \ {0}]
Batch == Seq(Piece) \ {<<>>}
InOneInput(bs) == \A i \in DOMAIN bs : Len(bs[i]) = 1 \/ Extent(bs[i], Overhead) <= MaxInput
InBatches(bs) == UNION {Range(bs[i]) : i \in DOMAIN bs}

\* What there is to know of one batch.
LEMMA BatchFacts ==
  ASSUME NEW b \in Batch
  PROVE  /\ Len(b) \in Nat \ {0} /\ DOMAIN b = 1..Len(b) /\ IsFiniteSet(DOMAIN b)
         /\ \A k \in DOMAIN b : b[k] \in Piece /\ b[k].len \in Nat /\ k \in Nat
<1>1. b \in Seq(Piece) /\ b # <<>> BY DEF Batch
<1>2. Len(b) \in Nat \ {0} /\ DOMAIN b = 1..Len(b) /\ \A k \in DOMAIN b : b[k] \in Piece BY <1>1
<1>3. IsFiniteSet(1..Len(b))
  <2> DEFINE n == Len(b)
  <2>1. 1 \in Int /\ n \in Int BY <1>2
  <2> HIDE DEF n
  <2>2. IsFiniteSet(1..n) BY <2>1, FS_Interval
  <2> QED BY <2>2 DEF n
<1>4. \A k \in DOMAIN b : b[k].len \in Nat /\ k \in Nat BY <1>2 DEF Piece
<1> QED BY <1>2, <1>3, <1>4

\* The next piece is in a batch, with those that were.
LEMMA OnePieceMore ==
  ASSUME NEW bs \in Seq(Batch), NEW p \in Piece
  PROVE  /\ AddPiece(bs, p) \in Seq(Batch)
         /\ InOneInput(bs) => InOneInput(AddPiece(bs, p))
         /\ InBatches(bs) \cup {p} \subseteq InBatches(AddPiece(bs, p))
<1> DEFINE n == Len(bs)
           u == AddPiece(bs, p)
           joins == bs # <<>> /\ Extent(Append(Last(bs), p), Overhead) <= MaxInput
<1>1. n \in Nat /\ DOMAIN bs = 1..n /\ \A i \in 1..n : bs[i] \in Batch OBVIOUS
<1>2. CASE joins
  <2> DEFINE b == bs[n]
             c == Append(b, p)
  <2>1. n \in 1..n /\ b \in Batch BY <1>1, <1>2
  <2>2. u = [bs EXCEPT ![n] = c] BY <1>2 DEF AddPiece
  <2>3. DOMAIN u = 1..n /\ u[n] = c /\ \A i \in 1..n : i # n => u[i] = bs[i]
    BY <1>1, <2>1, <2>2
  <2>4. Extent(c, Overhead) <= MaxInput BY <1>2 DEF Last
  <2>5. b \in Seq(Piece) /\ c = b \o <<p>> /\ <<p>> \in Seq(Piece) BY <2>1 DEF Batch
  <2>6. /\ c \in Seq(Piece) /\ Range(c) = Range(b) \cup {p}
    <3> DEFINE w == <<p>>
    <3>1. Range(w) = {p} BY DEF Range
    <3>2. w \in Seq(Piece) /\ c = b \o w BY <2>5
    <3> HIDE DEF b, c, w
    <3>3. b \o w \in Seq(Piece) /\ Range(b \o w) = Range(b) \cup Range(w)
      BY <2>5, <3>2, TextsJoin
    <3> QED BY <3>1, <3>2, <3>3
  <2>7. c # <<>> BY <2>6 DEF Range
  <2>8. \A i \in 1..n : u[i] \in Batch BY <1>1, <2>3, <2>6, <2>7 DEF Batch
  <2>9. u = [i \in 1..n |-> u[i]] BY <1>1, <2>2
  <2> HIDE DEF u, c, b, n
  <2>10. u \in [1..n -> Batch] BY <2>8, <2>9
  <2>11. u \in Seq(Batch) BY <1>1, <2>10, NumberedIsSeq
  <2>12. InOneInput(bs) => InOneInput(u) BY <1>1, <2>3, <2>4 DEF InOneInput
  <2>13. InBatches(bs) \cup {p} \subseteq InBatches(u)
    <3>1. \A i \in DOMAIN bs : Range(bs[i]) \subseteq Range(u[i]) BY <1>1, <2>3, <2>6 DEF b
    <3>2. p \in Range(u[n]) BY <2>3, <2>6
    <3> QED BY <1>1, <2>1, <2>3, <3>1, <3>2 DEF InBatches
  <2> QED BY <2>11, <2>12, <2>13 DEF u
<1>3. CASE ~joins
  <2>1. u = Append(bs, <<p>>) BY <1>3 DEF AddPiece
  <2>2. <<p>> \in Batch /\ Len(<<p>>) = 1 /\ Range(<<p>>) = {p}
    <3>1. <<p>> \in Seq(Piece) /\ <<p>> # <<>> /\ Len(<<p>>) = 1 OBVIOUS
    <3> QED BY <3>1 DEF Batch, Range
  <2> DEFINE w == <<p>>
  <2> HIDE DEF w
  <2>3. w \in Batch /\ Len(w) = 1 /\ Range(w) = {p} /\ u = Append(bs, w) BY <2>1, <2>2 DEF w
  <2>4. /\ Append(bs, w) \in Seq(Batch) /\ Len(Append(bs, w)) = n + 1
        /\ \A i \in 1..n + 1 : Append(bs, w)[i] = IF i <= n THEN bs[i] ELSE w
    BY <1>1, <2>3
  <2> HIDE DEF u, n
  <2>5. u \in Seq(Batch) /\ Len(u) = n + 1 /\ DOMAIN u = 1..n + 1 BY <2>3, <2>4
  <2>6. u[n + 1] = w /\ n + 1 \in 1..n + 1 /\ \A i \in 1..n : u[i] = bs[i] /\ i \in 1..n + 1
    BY <1>1, <2>3, <2>4
  <2>7. InOneInput(bs) => InOneInput(u)
    <3>1. \A i \in 1..n + 1 : i \in 1..n \/ i = n + 1 BY <1>1
    <3> QED BY <1>1, <2>3, <2>5, <2>6, <3>1 DEF InOneInput
  <2>8. InBatches(bs) \cup {p} \subseteq InBatches(u)
    <3>1. \A i \in DOMAIN bs : i \in DOMAIN u /\ u[i] = bs[i] BY <1>1, <2>5, <2>6
    <3>2. n + 1 \in DOMAIN u /\ p \in Range(u[n + 1]) BY <2>3, <2>5, <2>6
    <3> QED BY <3>1, <3>2 DEF InBatches
  <2> QED BY <2>5, <2>7, <2>8 DEF u
<1> QED BY <1>2, <1>3

Batched(g, ps) ==
  g = [i \in 0..Len(ps) |-> IF i = 0 THEN <<>> ELSE AddPiece(g[i - 1], ps[i])]

\* The pieces are all in batches.
LEMMA BatchesHold ==
  ASSUME Pieces \in Seq(Piece)
  PROVE  /\ Batches \in Seq(Batch) /\ InOneInput(Batches)
         /\ Range(Pieces) \subseteq InBatches(Batches)
<1> DEFINE ps == Pieces
           N == Len(ps)
           S == Seq(Batch)
           F == [w \in (1..N) \X S |-> AddPiece(w[2], ps[w[1]])]
<1> HIDE DEF ps
<1>1. N \in Nat /\ DOMAIN ps = 1..N /\ \A i \in 1..N : ps[i] \in Piece BY DEF ps
<1>2. \A i \in 1..N, x \in S : F[<<i, x>>] = AddPiece(x, ps[i]) /\ F[<<i, x>>] \in S
  <2> SUFFICES ASSUME NEW i \in 1..N, NEW x \in S
               PROVE  F[<<i, x>>] = AddPiece(x, ps[i]) /\ F[<<i, x>>] \in S
    OBVIOUS
  <2>1. F[<<i, x>>] = AddPiece(x, ps[i]) OBVIOUS
  <2>2. AddPiece(x, ps[i]) \in S BY <1>1, OnePieceMore
  <2> QED BY <2>1, <2>2
<1>3. <<>> \in S OBVIOUS
<1> HIDE DEF S, F, N
<1>4. PICK h \in [0..N -> S] : Iterates(h, <<>>, F, N) BY <1>1, <1>2, <1>3, IteratesExist
<1>5. \A i \in 0..N : h[i] = IF i = 0 THEN <<>> ELSE AddPiece(h[i - 1], ps[i])
  <2> SUFFICES ASSUME NEW i \in 0..N
               PROVE  h[i] = IF i = 0 THEN <<>> ELSE AddPiece(h[i - 1], ps[i])
    OBVIOUS
  <2>1. h[i] = IF i = 0 THEN <<>> ELSE F[<<i, h[i - 1]>>] BY <1>4 DEF Iterates
  <2>2. i # 0 => i \in 1..N /\ i - 1 \in 0..N BY <1>1
  <2>3. i # 0 => h[i - 1] \in S BY <2>2
  <2> QED BY <1>2, <2>1, <2>2, <2>3
<1>6. Batched(h, ps)
  <2>1. h = [i \in 0..N |-> h[i]] OBVIOUS
  <2> QED BY <1>5, <2>1 DEF Batched, N
<1>7. PICK g : Batched(g, ps) /\ Batches = g[N]
  <2>1. Batches = (CHOOSE k : Batched(k, ps))[N] BY DEF Batches, Batched, N, ps
  <2>2. Batched(CHOOSE k : Batched(k, ps), ps) BY <1>6
  <2> QED BY <2>1, <2>2
<1>8. \A i \in 0..N : g[i] = IF i = 0 THEN <<>> ELSE AddPiece(g[i - 1], ps[i])
  BY <1>7 DEF Batched, N
<1> DEFINE Good(n) == /\ g[n] \in S /\ InOneInput(g[n])
                      /\ \A i \in 1..n : ps[i] \in InBatches(g[n])
           P == {n \in 0..N : ~Good(n)}
<1>9. P = {}
  <2> SUFFICES ASSUME P # {} PROVE FALSE OBVIOUS
  <2>1. PICK n \in P : \A m \in P : n <= m
    <3>1. P \in SUBSET Nat OBVIOUS
    <3> HIDE DEF P
    <3> QED BY <3>1, LeastNumber
  <2>2. n \in 0..N /\ ~Good(n) OBVIOUS
  <2>3. n # 0
    <3> SUFFICES ASSUME n = 0 PROVE FALSE OBVIOUS
    <3>1. g[0] = <<>> /\ 0 \in 0..N BY <1>1, <1>8
    <3>2. InOneInput(<<>>) BY DEF InOneInput
    <3>3. 1..0 = {} OBVIOUS
    <3>4. Good(0) BY <1>3, <3>1, <3>2, <3>3
    <3> QED BY <2>2, <3>4
  <2>4. n - 1 \in 0..N /\ ~(n <= n - 1) /\ n \in 1..N BY <1>1, <2>2, <2>3
  <2>5. n - 1 \notin P
    <3> HIDE DEF P
    <3> QED BY <2>1, <2>4
  <2>6. Good(n - 1) BY <2>4, <2>5
  <2>7. g[n] = AddPiece(g[n - 1], ps[n]) BY <1>8, <2>2, <2>3
  <2>8. /\ g[n] \in S /\ InOneInput(g[n])
        /\ InBatches(g[n - 1]) \cup {ps[n]} \subseteq InBatches(g[n])
    BY <1>1, <2>4, <2>6, <2>7, OnePieceMore DEF S
  <2>9. \A i \in 1..n : i \in 1..(n - 1) \/ i = n BY <2>4
  <2>10. Good(n) BY <2>6, <2>8, <2>9
  <2> QED BY <2>2, <2>10
<1>10. Good(N)
  <2>1. N \in 0..N BY <1>1
  <2> QED BY <1>9, <2>1
<1>11. Range(ps) \subseteq InBatches(g[N]) BY <1>1, <1>10 DEF Range
<1> QED BY <1>7, <1>10, <1>11 DEF S, ps

\* The parts of a source are pieces, and a source that is short enough is one.
LEMMA PartsArePieces ==
  ASSUME NEW s \in Source
  PROVE  /\ SourceParts(s) \in Seq(Piece) /\ Range(SourceParts(s)) # {}
         /\ s.len <= MaxInput => s \in Range(SourceParts(s))
<1> DEFINE L == s.len
           m == (L + MaxInput - 1) \div MaxInput
           part(k) == [url |-> s.url, len |-> Least(MaxInput, L - (k - 1) * MaxInput)]
           t == SourceParts(s)
<1>1. s.url \in Nat /\ L \in Nat \ {0} /\ MaxInput \in Nat \ {0}
  BY ResolutionAssumption DEF Source
<1>2. t = [k \in 1..m |-> part(k)] BY DEF SourceParts
<1> HIDE DEF L
<1>3. /\ m \in Nat \ {0} /\ \A k \in 1..m : (k - 1) * MaxInput \in Nat /\ (k - 1) * MaxInput < L
      /\ m > 1 => MaxInput < L
  <2> DEFINE M == m
             n == MaxInput
  <2>1. L \in Nat \ {0} /\ n \in Nat \ {0} /\ M = (L + n - 1) \div n BY <1>1
  <2> HIDE DEF M, n
  <2>2. /\ M \in Nat \ {0} /\ \A k \in 1..M : (k - 1) * n \in Nat /\ (k - 1) * n < L
        /\ M > 1 => n < L
    BY <2>1, ChunkBounds
  <2> QED BY <2>2 DEF M, n
<1>4. ASSUME NEW k \in 1..m PROVE part(k) \in Piece
  <2> DEFINE x == L - (k - 1) * MaxInput
  <2>1. x \in Nat BY <1>1, <1>3
  <2> HIDE DEF x
  <2>2. Least(MaxInput, x) \in Nat BY <1>1, <2>1 DEF Least
  <2>3. [url |-> s.url, len |-> Least(MaxInput, x)] \in Piece BY <1>1, <2>2 DEF Piece
  <2> QED BY <2>3 DEF x
<1> HIDE DEF m, t, part
<1>5. t \in [1..m -> Piece] /\ DOMAIN t = 1..m BY <1>2, <1>4
<1>6. t \in Seq(Piece) BY <1>3, <1>5, NumberedIsSeq
<1>7. 1 \in DOMAIN t /\ t[1] = part(1) BY <1>2, <1>3, <1>5
<1>8. t[1] \in Range(t) BY <1>7 DEF Range
<1>9. ASSUME L <= MaxInput PROVE part(1) = s
  <2>1. L - (1 - 1) * MaxInput = L BY <1>1
  <2>2. Least(MaxInput, L) = L BY <1>1, <1>9 DEF Least
  <2>3. s = [url |-> s.url, len |-> s.len] BY DEF Source
  <2>4. part(1) = [url |-> s.url, len |-> Least(MaxInput, L - (1 - 1) * MaxInput)] BY DEF part
  <2> QED BY <2>1, <2>2, <2>3, <2>4 DEF L
<1> QED BY <1>6, <1>7, <1>8, <1>9 DEF t, L

\* The pieces come from all the sources.
LEMMA PiecesHold ==
  ASSUME sources \in Seq(Source), sources # <<>>
  PROVE  /\ Pieces \in Seq(Piece) /\ Range(Pieces) # {}
         /\ \A i \in DOMAIN sources : sources[i].len <= MaxInput => sources[i] \in Range(Pieces)
<1> DEFINE n == Len(sources)
           ss == [i \in DOMAIN sources |-> SourceParts(sources[i])]
<1>1. /\ n \in Nat \ {0} /\ DOMAIN sources = 1..n
      /\ \A i \in DOMAIN sources : sources[i] \in Source
  OBVIOUS
<1>2. \A i \in DOMAIN ss : /\ ss[i] = SourceParts(sources[i]) /\ ss[i] \in Seq(Piece)
                           /\ Range(ss[i]) # {}
                           /\ sources[i].len <= MaxInput => sources[i] \in Range(ss[i])
  BY <1>1, PartsArePieces
<1>3. ss = [i \in 1..n |-> ss[i]] /\ DOMAIN ss = 1..n BY <1>1
<1>4. Pieces = FlattenSeq(ss) BY DEF Pieces
<1> HIDE DEF n, ss
<1>5. ss \in [1..n -> Seq(Piece)] BY <1>2, <1>3
<1>6. ss \in Seq(Seq(Piece)) /\ Len(ss) = n BY <1>1, <1>5, NumberedIsSeq
<1>7. ss # <<>>
  <2>1. 1 \in DOMAIN ss BY <1>1, <1>3
  <2> QED BY <2>1
<1>8. Pieces \in Seq(Piece) /\ Range(Pieces) = UNION {Range(ss[i]) : i \in DOMAIN ss}
  BY <1>4, <1>6, <1>7, FlattenIsAll
<1>9. \A i \in DOMAIN ss : Range(ss[i]) \subseteq Range(Pieces) BY <1>8
<1>10. 1 \in DOMAIN ss BY <1>1, <1>3
<1>11. Range(Pieces) # {} BY <1>2, <1>9, <1>10
<1> QED BY <1>1, <1>2, <1>3, <1>8, <1>9, <1>11

\* A piece is in its prompt as a whole if its header fits beside it.
LEMMA PieceIsRead ==
  ASSUME NEW b \in Batch, Len(b) = 1 \/ Extent(b, Overhead) <= MaxInput,
         NEW k \in DOMAIN b, b[k].len + Header <= MaxInput
  PROVE  k \in ReadWhole(b)
<1> DEFINE D == 1..Len(b)
           K == 1..k
           sub == SubSeq(b, 1, k)
           f == [j \in DOMAIN sub |-> sub[j].len + Header]
           h == [j \in D |-> b[j].len + Header]
           g == [j \in D |-> b[j].len + Overhead]
<1>0. Header \in Nat /\ Overhead \in Nat /\ Header <= Overhead /\ MaxInput \in Nat
  BY ResolutionAssumption
<1>1. /\ Len(b) \in Nat \ {0} /\ DOMAIN b = D /\ IsFiniteSet(D) /\ k \in D /\ k \in Nat
      /\ \A j \in D : b[j].len \in Nat
  BY BatchFacts
<1>2. DOMAIN sub = K /\ \A j \in K : sub[j] = b[j] /\ j \in D
  <2>1. b \in Seq(Piece) /\ k <= Len(b) BY <1>1 DEF Batch
  <2>2. /\ Len(sub) = k /\ DOMAIN sub = 1..Len(sub)
        /\ \A j \in 1..k : sub[j] = b[1 + j - 1]
    BY <1>1, <2>1
  <2>3. \A j \in 1..k : 1 + j - 1 = j /\ j \in D BY <1>1, <2>1
  <2> QED BY <2>2, <2>3
<1>3. Extent(sub, Header) = SumFunctionOnSet(f, K)
  <2>1. DOMAIN f = K BY <1>2
  <2> QED BY <2>1 DEF Extent, SumFunction
<1>4. Extent(b, Overhead) = SumFunctionOnSet(g, D)
  <2>1. g = [j \in DOMAIN b |-> b[j].len + Overhead] /\ DOMAIN g = D BY <1>1
  <2> HIDE DEF D
  <2> QED BY <2>1 DEF Extent, SumFunction
<1>5. \A j \in D : h[j] = b[j].len + Header /\ g[j] = b[j].len + Overhead OBVIOUS
<1>6. \A j \in K : f[j] = b[j].len + Header BY <1>2
<1>7. K \subseteq D BY <1>2
<1>8. \A j \in D : h[j] \in Nat /\ g[j] \in Nat /\ h[j] <= g[j]
  <2> SUFFICES ASSUME NEW j \in D PROVE h[j] \in Nat /\ g[j] \in Nat /\ h[j] <= g[j] OBVIOUS
  <2> DEFINE x == b[j].len
  <2>1. x \in Nat /\ h[j] = x + Header /\ g[j] = x + Overhead BY <1>1
  <2> HIDE DEF x, h, g
  <2> QED BY <1>0, <2>1
<1> SUFFICES Extent(sub, Header) <= MaxInput BY DEF ReadWhole
<1> HIDE DEF f, g, h, sub
<1>9. CASE Len(b) = 1
  <2>1. k = 1 /\ K = {1} BY <1>1, <1>9
  <2>2. \A j \in {1} : f[j] = b[1].len + Header BY <1>6, <2>1
  <2> DEFINE v == b[1].len + Header
  <2>3. v \in Int /\ v <= MaxInput BY <1>0, <1>1, <2>1
  <2>4. IsFiniteSet({1}) /\ Cardinality({1}) = 1 BY FS_Singleton
  <2> HIDE DEF v
  <2>5. \A j \in {1} : f[j] = v BY <2>2 DEF v
  <2>6. SumFunctionOnSet(f, {1}) = v * Cardinality({1}) BY <2>3, <2>4, <2>5, SumAlike
  <2>7. v * 1 = v BY <2>3
  <2> QED BY <1>3, <2>1, <2>3, <2>4, <2>6, <2>7
<1>10. CASE Extent(b, Overhead) <= MaxInput
  <2> HIDE DEF D, K
  <2>1. IsFiniteSet(K) BY <1>1, <1>7, FS_Subset
  <2>2. SumFunctionOnSet(f, K) = SumFunctionOnSet(h, K)
    <3>1. \A j \in K : h[j] \in Int /\ f[j] = h[j] BY <1>5, <1>6, <1>7, <1>8
    <3> QED BY <2>1, <3>1, SumSame
  <2>3. /\ SumFunctionOnSet(h, K) \in Nat /\ SumFunctionOnSet(h, D) \in Nat
        /\ SumFunctionOnSet(h, K) <= SumFunctionOnSet(h, D)
    BY <1>1, <1>7, <1>8, SumMonotone
  <2>4. SumFunctionOnSet(g, D) \in Nat /\ SumFunctionOnSet(h, D) <= SumFunctionOnSet(g, D)
    <3>1. \A j \in D : h[j] \in Int /\ g[j] \in Int /\ h[j] <= g[j] BY <1>8
    <3>2. SumFunctionOnSet(h, D) <= SumFunctionOnSet(g, D) BY <1>1, <3>1, SumBelow
    <3>3. D \subseteq D OBVIOUS
    <3>4. SumFunctionOnSet(g, D) \in Nat BY <1>1, <1>8, <3>3, SumMonotone
    <3> QED BY <3>2, <3>4
  <2> DEFINE a == SumFunctionOnSet(h, K)
             c == SumFunctionOnSet(h, D)
             e == SumFunctionOnSet(g, D)
  <2>5. a \in Nat /\ c \in Nat /\ e \in Nat /\ a <= c /\ c <= e /\ e <= MaxInput
    BY <1>4, <1>10, <2>3, <2>4
  <2> HIDE DEF a, c, e
  <2>6. a <= MaxInput BY <1>0, <2>5
  <2> QED BY <1>3, <2>2, <2>6 DEF a
<1> QED BY <1>9, <1>10

(***************************************************************************)
(* ResolutionScrape: the scrape itself.  Every way out of it gives back    *)
(* the claim and settles the history; the summaries go on while there are  *)
(* batches, of which there is one as soon as there is a source.            *)
(***************************************************************************)
ScrapeInv ==
  /\ rs \in ScrapEnds \cup {"start", "scraping", "series", "summary", "join"}
  /\ cleaning \in BOOLEAN /\ tiers \in Seq(DOMAIN KeptOf) /\ sources \in Seq(Source)
  /\ history \in {"off", "runs", "done", "limit", "cancelled"} /\ (rs = "start" => history = "off")
  /\ ReserveIsHandedOn /\ HistoryIsJoined
  /\ batchNo \in 0..MaxCalls /\ (rs \in {"start", "scraping", "series"} => batchNo = 0)
  /\ rs = "summary" => sources # <<>> /\ batchNo < Len(Summarised)
  /\ rs \in {"start", "scraping", "series", "summary"} => announced = <<>>

\* There are no more calls than allowed, and one if there is a source.
LEMMA CallsAreFew ==
  ASSUME sources \in Seq(Source), sources # <<>>
  PROVE  /\ Len(Summarised) \in 1..MaxCalls
         /\ DOMAIN Summarised = 1..Len(Summarised)
         /\ \A i \in DOMAIN Batches : \/ i \in DOMAIN Summarised /\ Summarised[i] = Batches[i]
                                      \/ i \in (MaxCalls + 1)..Len(Batches)
<1> DEFINE bs == Batches
           n == Len(bs)
           m == Least(MaxCalls, n)
<1>1. Pieces \in Seq(Piece) /\ Range(Pieces) # {} BY PiecesHold
<1>2. bs \in Seq(Batch) /\ Range(Pieces) \subseteq InBatches(bs) BY <1>1, BatchesHold
<1>3. n \in Nat /\ DOMAIN bs = 1..n BY <1>2
<1>4. n # 0
  <2>1. DOMAIN bs # {} BY <1>1, <1>2 DEF InBatches
  <2> QED BY <1>3, <2>1
<1>5. MaxCalls \in Nat \ {0} BY ResolutionAssumption
<1>6. m \in 1..MaxCalls /\ m <= n /\ (m = MaxCalls \/ m = n)
  <2> HIDE DEF n
  <2> QED BY <1>3, <1>4, <1>5 DEF Least
<1>7. Summarised = SubSeq(bs, 1, m) BY DEF Summarised
<1> HIDE DEF bs, m
<1>8. /\ Len(Summarised) = m /\ DOMAIN Summarised = 1..m
      /\ \A i \in 1..m : Summarised[i] = bs[i]
  <2>1. m \in Nat /\ m <= Len(bs) BY <1>5, <1>6
  <2>2. /\ Len(SubSeq(bs, 1, m)) = m /\ DOMAIN SubSeq(bs, 1, m) = 1..m
        /\ \A i \in 1..m : SubSeq(bs, 1, m)[i] = bs[i]
    BY <1>2, <2>1
  <2> QED BY <1>7, <2>2
<1>9. ASSUME NEW i \in 1..n PROVE i \in 1..m \/ i \in (MaxCalls + 1)..n
  <2> HIDE DEF n
  <2>1. i \in Nat /\ 1 <= i /\ i <= n /\ m \in Nat BY <1>3, <1>5, <1>6
  <2>2. CASE i <= m BY <2>1, <2>2
  <2>3. CASE i > m BY <1>3, <1>5, <1>6, <2>1, <2>3
  <2> QED BY <2>1, <2>2, <2>3
<1>10. \A i \in DOMAIN bs : \/ i \in DOMAIN Summarised /\ Summarised[i] = bs[i]
                            \/ i \in (MaxCalls + 1)..Len(bs)
  BY <1>3, <1>8, <1>9
<1>11. Len(Summarised) \in 1..MaxCalls /\ DOMAIN Summarised = 1..Len(Summarised)
  BY <1>6, <1>8
<1> QED BY <1>10, <1>11 DEF bs

\* What one source leaves room for is read whole, or named.
LEMMA ScrapeCovers == ScrapeInv => SourcesAreCovered
<1> SUFFICES ASSUME ScrapeInv, NEW s \in ToSet(sources), s.len + Header <= MaxInput
             PROVE  \/ s.url \in Omitted
                    \/ \E i \in DOMAIN Summarised : \E k \in ReadWhole(Summarised[i]) :
                         Summarised[i][k] = s
  BY DEF SourcesAreCovered
<1>1. sources \in Seq(Source) BY DEF ScrapeInv
<1>2. PICK j \in DOMAIN sources : s = sources[j] BY DEF ToSet
<1>3. sources # <<>> BY <1>2
<1>4. s \in Source BY <1>1, <1>2
<1>5. s.len <= MaxInput
  <2>1. s.len \in Nat /\ Header \in Nat /\ MaxInput \in Nat
    BY <1>4, ResolutionAssumption DEF Source
  <2> QED BY <2>1
<1>6. Pieces \in Seq(Piece) /\ s \in Range(Pieces) BY <1>1, <1>2, <1>3, <1>5, PiecesHold
<1>7. Batches \in Seq(Batch) /\ InOneInput(Batches) /\ s \in InBatches(Batches)
  BY <1>6, BatchesHold
<1>8. PICK i \in DOMAIN Batches : s \in Range(Batches[i]) BY <1>7 DEF InBatches
<1>9. Batches[i] \in Batch BY <1>7
<1>10. CASE i \in (MaxCalls + 1)..Len(Batches)
  <2>1. s \in ToSet(Batches[i]) BY <1>8 DEF Range, ToSet
  <2>2. s \in UNION {ToSet(Batches[x]) : x \in (MaxCalls + 1)..Len(Batches)} BY <1>10, <2>1
  <2> QED BY <2>2 DEF Omitted
<1>11. CASE i \in DOMAIN Summarised /\ Summarised[i] = Batches[i]
  <2>1. PICK k \in DOMAIN Batches[i] : Batches[i][k] = s BY <1>8 DEF Range
  <2>2. Len(Batches[i]) = 1 \/ Extent(Batches[i], Overhead) <= MaxInput BY <1>7 DEF InOneInput
  <2>3. k \in ReadWhole(Batches[i]) BY <1>9, <2>1, <2>2, PieceIsRead
  <2> QED BY <1>11, <2>1, <2>3
<1> QED BY <1>1, <1>3, <1>10, <1>11, CallsAreFew

LEMMA ScrapeBegins == ResolutionInit => ScrapeInv
<1> SUFFICES ASSUME ResolutionInit PROVE ScrapeInv OBVIOUS
<1>1. MaxCalls \in Nat /\ 0 \in 0..MaxCalls BY ResolutionAssumption
<1>2. <<>> \in Seq(DOMAIN KeptOf) /\ <<>> \in Seq(Source) OBVIOUS
<1> QED BY <1>1, <1>2
     DEF ResolutionInit, ScrapeInv, ReserveIsHandedOn, HistoryIsJoined, ScrapEnds

\* A way out settles the history.
LEMMA LeaveJoins ==
  ASSUME NEW how \in ScrapEnds, Leave(how), ScrapeInv, how = "done" => history # "limit"
  PROVE  /\ rs' = how /\ HistoryIsJoined'
         /\ history' \in {"off", "runs", "done", "limit", "cancelled"}
<1>1. rs' = how /\ history' = IF history = "runs" THEN "cancelled" ELSE history BY DEF Leave
<1> QED BY <1>1 DEF HistoryIsJoined, ScrapeInv

LEMMA SummarisedKept == ASSUME UNCHANGED sources PROVE Summarised' = Summarised
BY DEF Summarised, Batches, Pieces

LEMMA ScrapeStep == ScrapeInv /\ [ResolutionNext]_scrapVars => ScrapeInv'
<1> SUFFICES ASSUME ScrapeInv, [ResolutionNext]_scrapVars PROVE ScrapeInv' OBVIOUS
<1>1. CASE FindUrls
  <2>1. PICK q \in SourceLists, llm \in BOOLEAN :
          /\ tiers' = q /\ cleaning' = llm
          /\ IF q = <<>> THEN rs' = "done" /\ reserved' = FALSE /\ UNCHANGED history
             ELSE /\ rs' = "scraping" /\ reserved' = TRUE
                  /\ history' = IF llm THEN "runs" ELSE "off"
    BY <1>1 DEF FindUrls
  <2>2. rs = "start" /\ UNCHANGED <<sources, batchNo, announced>> BY <1>1 DEF FindUrls
  <2>3. history = "off" /\ announced = <<>> BY <2>2 DEF ScrapeInv
  <2>4. tiers' \in Seq(DOMAIN KeptOf) BY <2>1, ResolutionAssumption
  <2> QED BY <2>1, <2>2, <2>3, <2>4 DEF ScrapeInv, ReserveIsHandedOn, HistoryIsJoined, ScrapEnds
<1>2. CASE HistoryEnds
  <2>1. /\ rs \notin ScrapEnds /\ history' \in {"done", "limit"}
        /\ UNCHANGED <<rs, cleaning, tiers, sources, reserved, batchNo, announced>>
    BY <1>2 DEF HistoryEnds, ScrapeInv, HistoryIsJoined
  <2>2. rs # "start" BY <1>2 DEF HistoryEnds, ScrapeInv
  <2>3. Summarised' = Summarised BY <2>1, SummarisedKept
  <2> QED BY <2>1, <2>2, <2>3 DEF ScrapeInv, ReserveIsHandedOn, HistoryIsJoined, ScrapEnds
<1>3. CASE ScrapePages
  <2>1. /\ rs = "scraping" /\ reserved' = FALSE /\ UNCHANGED <<cleaning, tiers, batchNo, announced>>
        /\ batchNo = 0 /\ announced = <<>>
    BY <1>3 DEF ScrapePages, Release, ScrapeInv
  <2>2. CASE Leave("raised") /\ UNCHANGED sources
    <3>1. "raised" \in ScrapEnds /\ "raised" # "done" BY DEF ScrapEnds
    <3>2. /\ rs' = "raised" /\ HistoryIsJoined'
          /\ history' \in {"off", "runs", "done", "limit", "cancelled"}
      BY <2>2, <3>1, LeaveJoins
    <3> QED BY <2>1, <2>2, <3>2 DEF ScrapeInv, ReserveIsHandedOn, ScrapEnds
  <2>3. ASSUME NEW len \in [DOMAIN tiers -> PageLengths], rs' = "series", UNCHANGED history,
               LET asKept(i) == [url |-> i, len |-> Least(len[i], KeptOf[tiers[i]])]
                   usable == Ascending({i \in DOMAIN tiers : asKept(i).len > 0})
               IN sources' = [n \in DOMAIN usable |-> asKept(usable[n])]
        PROVE ScrapeInv'
    <3> DEFINE asKept(i) == [url |-> i, len |-> Least(len[i], KeptOf[tiers[i]])]
               K == {i \in DOMAIN tiers : asKept(i).len > 0}
               u == Ascending(K)
               n == Cardinality(K)
    <3>1. /\ tiers \in Seq(DOMAIN KeptOf) /\ Len(tiers) \in Nat /\ DOMAIN tiers = 1..Len(tiers)
          /\ \A i \in DOMAIN tiers : tiers[i] \in DOMAIN KeptOf
      BY DEF ScrapeInv
    <3>2. \A i \in DOMAIN tiers : asKept(i) \in Source \/ ~(asKept(i).len > 0)
      <4> SUFFICES ASSUME NEW i \in DOMAIN tiers PROVE asKept(i) \in Source \/ ~(asKept(i).len > 0)
        OBVIOUS
      <4>1. len[i] \in Nat /\ KeptOf[tiers[i]] \in Nat
        <5>1. len[i] \in PageLengths /\ PageLengths \subseteq Nat BY <2>3, ResolutionAssumption
        <5>2. tiers[i] \in DOMAIN KeptOf BY <3>1
        <5>3. \A t \in DOMAIN KeptOf : KeptOf[t] \in Nat BY ResolutionAssumption
        <5> QED BY <5>1, <5>2, <5>3
      <4> DEFINE x == Least(len[i], KeptOf[tiers[i]])
      <4>2. x \in Nat BY <4>1 DEF Least
      <4> HIDE DEF x
      <4>3. asKept(i) = [url |-> i, len |-> x] BY DEF x
      <4>4. i \in Nat BY <3>1
      <4> QED BY <4>2, <4>3, <4>4 DEF Source
    <3> HIDE DEF asKept
    <3>3. K \in SUBSET Nat /\ IsFiniteSet(K) /\ \A i \in K : asKept(i) \in Source
      <4>1. K \subseteq 1..Len(tiers) BY <3>1
      <4>2. IsFiniteSet(1..Len(tiers))
        <5> DEFINE m == Len(tiers)
        <5>1. 1 \in Int /\ m \in Int BY <3>1
        <5> HIDE DEF m
        <5>2. IsFiniteSet(1..m) BY <5>1, FS_Interval
        <5> QED BY <5>2 DEF m
      <4>3. IsFiniteSet(K) BY <4>1, <4>2, FS_Subset
      <4>4. K \in SUBSET Nat BY <3>1
      <4>5. \A i \in K : asKept(i) \in Source BY <3>2
      <4> QED BY <4>3, <4>4, <4>5
    <3>4. sources' = [x \in DOMAIN u |-> asKept(u[x])] BY <2>3 DEF asKept
    <3> HIDE DEF K, u, n
    <3>5. n \in Nat /\ u \in [1..n -> K] BY <3>3, AscendingLists DEF u, n
    <3>6. DOMAIN u = 1..n /\ \A x \in 1..n : asKept(u[x]) \in Source BY <3>3, <3>5
    <3>7. sources' \in [1..n -> Source] BY <3>4, <3>6
    <3>8. sources' \in Seq(Source) BY <3>5, <3>7, NumberedIsSeq
    <3> QED BY <2>1, <2>3, <3>8
         DEF ScrapeInv, ReserveIsHandedOn, HistoryIsJoined, ScrapEnds
  <2> QED BY <1>3, <2>2, <2>3 DEF ScrapePages
<1>4. CASE SeriesAndTables
  <2>1. /\ rs = "series" /\ batchNo = 0 /\ announced = <<>> /\ sources \in Seq(Source)
        /\ UNCHANGED <<cleaning, tiers, sources, history, reserved, batchNo>>
    BY <1>4 DEF SeriesAndTables, ScrapeInv
  <2>2. Summarised' = Summarised BY <2>1, SummarisedKept
  <2>3. sources # <<>> => 0 < Len(Summarised)
    <3>1. sources # <<>> => Len(Summarised) \in 1..MaxCalls BY <2>1, CallsAreFew
    <3>2. MaxCalls \in Nat BY ResolutionAssumption
    <3> QED BY <3>1, <3>2
  <2>4. CASE cleaning /\ sources # <<>> /\ rs' = "summary" /\ UNCHANGED announced
    BY <2>1, <2>2, <2>3, <2>4 DEF ScrapeInv, ReserveIsHandedOn, HistoryIsJoined, ScrapEnds
  <2>5. CASE rs' = "join"
    BY <2>1, <2>5 DEF ScrapeInv, ReserveIsHandedOn, HistoryIsJoined, ScrapEnds
  <2> QED BY <1>4, <2>4, <2>5 DEF SeriesAndTables
<1>5. CASE Summarise
  <2>1. /\ rs = "summary" /\ UNCHANGED <<cleaning, tiers, sources, reserved>>
        /\ sources \in Seq(Source) /\ sources # <<>> /\ batchNo < Len(Summarised)
        /\ announced = <<>>
    BY <1>5 DEF Summarise, ScrapeInv
  <2>2. Summarised' = Summarised BY <2>1, SummarisedKept
  <2> DEFINE m == Len(Summarised)
  <2>3. /\ m \in 1..MaxCalls /\ MaxCalls \in Nat /\ batchNo \in 0..MaxCalls /\ batchNo < m
        /\ Len(Summarised') = m
    BY <2>1, <2>2, CallsAreFew, ResolutionAssumption DEF ScrapeInv
  <2> HIDE DEF m
  <2>4. batchNo + 1 \in 0..MaxCalls BY <2>3
  <2>5. CASE batchNo' = batchNo + 1 /\ UNCHANGED history /\ batchNo' < m /\ UNCHANGED <<rs, announced>>
    BY <2>1, <2>3, <2>4, <2>5
    DEF ScrapeInv, ReserveIsHandedOn, HistoryIsJoined, ScrapEnds
  <2>6. CASE rs' = "join" /\ UNCHANGED history /\ batchNo' \in {batchNo, batchNo + 1}
    BY <2>1, <2>3, <2>4, <2>6 DEF ScrapeInv, ReserveIsHandedOn, HistoryIsJoined, ScrapEnds
  <2>7. CASE Leave("raised") /\ UNCHANGED <<announced, batchNo>>
    <3>1. "raised" \in ScrapEnds /\ "raised" # "done" BY DEF ScrapEnds
    <3>2. /\ rs' = "raised" /\ HistoryIsJoined'
          /\ history' \in {"off", "runs", "done", "limit", "cancelled"}
      BY <2>7, <3>1, LeaveJoins
    <3> QED BY <2>1, <2>3, <2>7, <3>2 DEF ScrapeInv, ReserveIsHandedOn, ScrapEnds
  <2> QED BY <1>5, <2>5, <2>6, <2>7 DEF Summarise, m
<1>6. CASE JoinHistory
  <2>1. /\ rs = "join" /\ history # "runs"
        /\ UNCHANGED <<cleaning, tiers, sources, reserved, batchNo, announced>>
    BY <1>6 DEF JoinHistory
  <2> DEFINE how == IF history = "limit" THEN "raised" ELSE "done"
  <2>2. how \in ScrapEnds /\ (how = "done" => history # "limit") /\ Leave(how)
    BY <1>6 DEF JoinHistory, ScrapEnds
  <2> HIDE DEF how
  <2>3. /\ rs' = how /\ HistoryIsJoined'
        /\ history' \in {"off", "runs", "done", "limit", "cancelled"}
    BY <2>2, LeaveJoins
  <2> QED BY <2>1, <2>2, <2>3 DEF ScrapeInv, ReserveIsHandedOn, ScrapEnds
<1>7. CASE CancelScrape
  <2>1. "cancelled" \in ScrapEnds /\ "cancelled" # "done" BY DEF ScrapEnds
  <2>2. /\ rs' = "cancelled" /\ HistoryIsJoined'
        /\ history' \in {"off", "runs", "done", "limit", "cancelled"}
    BY <1>7, <2>1, LeaveJoins DEF CancelScrape
  <2>3. reserved' = FALSE /\ UNCHANGED <<cleaning, tiers, sources, batchNo, announced>>
    BY <1>7 DEF CancelScrape, Release
  <2> QED BY <2>2, <2>3 DEF ScrapeInv, ReserveIsHandedOn, ScrapEnds
<1>8. CASE UNCHANGED scrapVars
  <2>1. /\ UNCHANGED sources
        /\ UNCHANGED <<rs, cleaning, tiers, sources, history, reserved, batchNo, announced>>
    BY <1>8 DEF scrapVars
  <2>2. Summarised' = Summarised BY <2>1, SummarisedKept
  <2> QED BY <2>1, <2>2 DEF ScrapeInv, ReserveIsHandedOn, HistoryIsJoined, ScrapEnds
<1> QED BY <1>1, <1>2, <1>3, <1>4, <1>5, <1>6, <1>7, <1>8 DEF ResolutionNext

LEMMA ScrapeInvHolds == ResolutionSpec => []ScrapeInv
BY ScrapeBegins, ScrapeStep, PTL DEF ResolutionSpec

\* However the scrape of the resolution pages ends, its claim on the credits is given
\* back, its history task is not left running nor its limit lost, and a page short enough
\* for one prompt is in a summary as a whole or named as left out
\* (scrape_resolution_sources, _batch_resolution_sources, _assemble_resolution_section).
THEOREM ScrapeAlwaysAccounted == ResolutionSpec => []ScrapeIsAccountedFor
<1>1. ScrapeInv => ScrapeIsAccountedFor
  BY ScrapeCovers DEF ScrapeInv, ScrapTypeOK, ScrapeIsAccountedFor
<1> QED BY <1>1, ScrapeInvHolds, PTL

(***************************************************************************)
(* SourceExplorer: what a request adds to the account of the pages.        *)
(***************************************************************************)
Links == UNION {ToSet(Site[url].links) : url \in DOMAIN Site}
ResultPart == [len : Nat, links : SUBSET Links]
PageAccount == [fetched : Seq(DOMAIN Site), texts : SUBSET DOMAIN Site, shown : SUBSET Links,
                parts : Seq(ResultPart)]
Account == {a \in PageAccount : Len(a.fetched) <= MaxPages /\ a.texts \subseteq ToSet(a.fetched)}

\* A page shows links of the site, and finitely many.
LEMMA NewLinksAreLinks ==
  ASSUME NEW url \in DOMAIN Site, NEW acc
  PROVE  /\ NewLinks(Site[url].links, acc) \subseteq Links
         /\ Cardinality(NewLinks(Site[url].links, acc)) \in Nat
<1> DEFINE ls == Site[url].links
           K == {i \in DOMAIN ls : ls[i] \notin acc.shown \cup ToSet(acc.fetched)}
           u == Ascending(K)
           n == Cardinality(K)
           m == Lower(MaxLinks, Len(u))
<1>1. /\ ls \in Seq(ToSet(ls)) /\ ToSet(ls) \subseteq Links BY ExplorerAssumption DEF Links
<1>2. Len(ls) \in Nat /\ DOMAIN ls = 1..Len(ls) /\ \A i \in DOMAIN ls : ls[i] \in ToSet(ls)
  BY <1>1
<1>3. K \in SUBSET Nat /\ IsFiniteSet(K) /\ K \subseteq DOMAIN ls
  <2>1. K \in SUBSET Nat /\ K \subseteq 1..Len(ls) BY <1>2
  <2>2. IsFiniteSet(1..Len(ls))
    <3> DEFINE k == Len(ls)
    <3>1. 1 \in Int /\ k \in Int BY <1>2
    <3> HIDE DEF k
    <3>2. IsFiniteSet(1..k) BY <3>1, FS_Interval
    <3> QED BY <3>2 DEF k
  <2>3. IsFiniteSet(K) BY <2>1, <2>2, FS_Subset
  <2> QED BY <2>1, <2>3
<1>4. NewLinks(ls, acc) = {ls[u[k]] : k \in 1..m} BY DEF NewLinks
<1> HIDE DEF ls, K, u, n
<1>5. n \in Nat /\ u \in [1..n -> K] BY <1>3, AscendingLists DEF u, n
<1>6. u \in Seq(K) /\ Len(u) = n BY <1>5, NumberedIsSeq
<1>7. m \in Nat /\ m <= n
  <2>1. MaxLinks \in Nat BY ExplorerAssumption
  <2> QED BY <1>5, <1>6, <2>1 DEF Lower
<1> HIDE DEF m
<1>8. \A k \in 1..m : ls[u[k]] \in Links
  <2> SUFFICES ASSUME NEW k \in 1..m PROVE ls[u[k]] \in Links OBVIOUS
  <2>1. k \in 1..n BY <1>5, <1>7
  <2>2. u[k] \in DOMAIN ls BY <1>3, <1>5, <2>1
  <2> QED BY <1>1, <1>2, <2>2
<1>9. IsFiniteSet(1..m)
  <2>1. 1 \in Int /\ m \in Int BY <1>7
  <2> QED BY <2>1, FS_Interval
<1> DEFINE g == [k \in 1..m |-> ls[u[k]]]
           new == {ls[u[k]] : k \in 1..m}
<1>10. g \in Surjection(1..m, new)
  <2>1. g \in [1..m -> new] /\ \A x \in new : \E k \in 1..m : g[k] = x OBVIOUS
  <2> HIDE DEF g, new
  <2> QED BY <2>1 DEF Surjection
<1>11. IsFiniteSet(new)
  <2> HIDE DEF g, new
  <2> QED BY <1>9, <1>10, FS_Surjection
<1>12. Cardinality(new) \in Nat
  <2> HIDE DEF new
  <2> QED BY <1>11, FS_CardinalityType
<1> QED BY <1>4, <1>8, <1>12 DEF ls

\* One page more is within the limit, and its text is held only if it counts.
LEMMA VisitKeeps == ASSUME NEW a \in Account, NEW url PROVE Visit(a, url) \in Account
<1> DEFINE c == Visit(a, url)
<1>1. /\ a \in PageAccount /\ Len(a.fetched) <= MaxPages /\ a.texts \subseteq ToSet(a.fetched)
      /\ a.fetched \in Seq(DOMAIN Site) /\ a.texts \in SUBSET DOMAIN Site
      /\ a.shown \in SUBSET Links /\ a.parts \in Seq(ResultPart)
  BY DEF Account, PageAccount
<1>2. ASSUME NEW p \in ResultPart PROVE Append(a.parts, p) \in Seq(ResultPart)
  <2> DEFINE ps == a.parts
  <2>1. ps \in Seq(ResultPart) BY <1>1
  <2> HIDE DEF ps
  <2>2. Append(ps, p) \in Seq(ResultPart) BY <2>1
  <2> QED BY <2>2 DEF ps
<1>3. Part(Notice, {}) \in ResultPart BY ExplorerAssumption DEF Part, ResultPart
<1>4. CASE Refused(a, url)
  <2> DEFINE ps == Append(a.parts, Part(Notice, {}))
  <2>1. ps \in Seq(ResultPart) BY <1>2, <1>3
  <2>2. c = [a EXCEPT !.parts = ps] BY <1>4 DEF Visit
  <2> HIDE DEF ps, c
  <2>3. c \in PageAccount /\ c.fetched = a.fetched /\ c.texts = a.texts
    BY <1>1, <2>1, <2>2 DEF PageAccount
  <2> QED BY <1>1, <2>3 DEF Account, c
<1>5. CASE ~Refused(a, url)
  <2> DEFINE page == Site[url]
             f == Append(a.fetched, url)
             seen == [a EXCEPT !.fetched = f]
             new == NewLinks(page.links, seen)
  <2>1. url \in DOMAIN Site /\ ~(Len(a.fetched) >= MaxPages) BY <1>5 DEF Refused
  <2>2. f \in Seq(DOMAIN Site) /\ Len(f) <= MaxPages /\ a.texts \subseteq ToSet(f)
        /\ url \in ToSet(f)
    <3> DEFINE g == a.fetched
    <3>1. g \in Seq(DOMAIN Site) /\ ~(Len(g) >= MaxPages) /\ a.texts \subseteq ToSet(g)
      BY <1>1, <2>1
    <3> HIDE DEF g
    <3>2. /\ Append(g, url) \in Seq(DOMAIN Site) /\ Len(g) \in Nat
          /\ Len(Append(g, url)) = Len(g) + 1 /\ DOMAIN Append(g, url) = 1..Len(g) + 1
          /\ DOMAIN g = 1..Len(g)
          /\ \A k \in 1..Len(g) + 1 : Append(g, url)[k] = IF k <= Len(g) THEN g[k] ELSE url
      BY <2>1, <3>1
    <3>3. Len(Append(g, url)) <= MaxPages BY <3>1, <3>2, ExplorerAssumption
    <3>4. \A k \in DOMAIN g : Append(g, url)[k] = g[k] /\ k \in DOMAIN Append(g, url) BY <3>2
    <3>5. Append(g, url)[Len(g) + 1] = url /\ Len(g) + 1 \in DOMAIN Append(g, url) BY <3>2
    <3>6. ToSet(g) \subseteq ToSet(Append(g, url)) /\ url \in ToSet(Append(g, url))
      BY <3>4, <3>5 DEF ToSet
    <3> QED BY <3>1, <3>2, <3>3, <3>6 DEF g
  <2>3. new \subseteq Links /\ Cardinality(new) \in Nat BY <2>1, NewLinksAreLinks
  <2>4. page.len \in Nat /\ page.ok \in BOOLEAN BY <2>1, ExplorerAssumption
  <2> DEFINE p == Part(page.len + Cardinality(new), new)
             ps == Append(seen.parts, p)
             qs == Append(seen.parts, Part(Notice, {}))
  <2>5. p \in ResultPart
    <3> DEFINE x == page.len + Cardinality(new)
    <3>1. x \in Nat BY <2>3, <2>4
    <3> HIDE DEF x, new
    <3>2. Part(x, new) \in ResultPart BY <2>3, <3>1 DEF Part, ResultPart
    <3> QED BY <3>2 DEF x
  <2>6. /\ seen \in PageAccount /\ seen.fetched = f /\ seen.texts = a.texts
        /\ seen.shown = a.shown /\ seen.parts = a.parts
    <3> HIDE DEF f
    <3> QED BY <1>1, <2>2 DEF PageAccount
  <2>7. ps \in Seq(ResultPart) /\ qs \in Seq(ResultPart) BY <1>2, <1>3, <2>5, <2>6
  <2>8. c = IF page.ok /\ ~page.doc
            THEN [seen EXCEPT !.parts = ps, !.texts = seen.texts \cup {url},
                              !.shown = seen.shown \cup new]
            ELSE [seen EXCEPT !.parts = qs,
                              !.texts = IF page.ok THEN seen.texts \cup {url} ELSE seen.texts]
    BY <1>5 DEF Visit
  <2> DEFINE texts1 == seen.texts \cup {url}
             shown1 == seen.shown \cup new
             texts2 == IF page.ok THEN texts1 ELSE seen.texts
  <2>9. /\ texts1 \in SUBSET DOMAIN Site /\ texts2 \in SUBSET DOMAIN Site
        /\ texts1 \subseteq ToSet(f) /\ texts2 \subseteq ToSet(f)
        /\ shown1 \in SUBSET Links
    BY <1>1, <2>1, <2>2, <2>3, <2>6
  <2>10. \/ c = [seen EXCEPT !.parts = ps, !.texts = texts1, !.shown = shown1]
         \/ c = [seen EXCEPT !.parts = qs, !.texts = texts2]
    BY <2>8
  <2> HIDE DEF texts1, texts2, shown1, ps, qs, seen, c, p, new, f, page
  <2>11. c \in PageAccount /\ c.fetched = f /\ c.texts \subseteq ToSet(f)
    BY <2>6, <2>7, <2>9, <2>10 DEF PageAccount
  <2> QED BY <2>2, <2>11 DEF Account, c
<1> QED BY <1>4, <1>5

VisitedBy(g, urls, a) ==
  g = [n \in 0..Len(urls) |-> IF n = 0 THEN a ELSE Visit(g[n - 1], urls[n])]

\* All that is asked for in one fetch.
LEMMA VisitedKeeps ==
  ASSUME NEW U, NEW urls \in Seq(U), fetched \in Seq(DOMAIN Site), Len(fetched) <= MaxPages,
         texts \in SUBSET DOMAIN Site, texts \subseteq ToSet(fetched), shown \in SUBSET Links
  PROVE  Visited(urls) \in Account
<1> DEFINE N == Len(urls)
           a == [fetched |-> fetched, texts |-> texts, shown |-> shown, parts |-> <<>>]
           F == [w \in (1..N) \X Account |-> Visit(w[2], urls[w[1]])]
<1>1. N \in Nat OBVIOUS
<1>2. a \in Account
  <2>1. a \in PageAccount BY DEF PageAccount
  <2> QED BY <2>1 DEF Account
<1>3. \A i \in 1..N, x \in Account : F[<<i, x>>] = Visit(x, urls[i]) /\ F[<<i, x>>] \in Account
  <2> SUFFICES ASSUME NEW i \in 1..N, NEW x \in Account
               PROVE  F[<<i, x>>] = Visit(x, urls[i]) /\ F[<<i, x>>] \in Account
    OBVIOUS
  <2>1. F[<<i, x>>] = Visit(x, urls[i]) OBVIOUS
  <2>2. Visit(x, urls[i]) \in Account BY VisitKeeps
  <2> QED BY <2>1, <2>2
<1>4. Visited(urls) = (CHOOSE g : VisitedBy(g, urls, a))[N] BY DEF Visited, VisitedBy
<1> HIDE DEF N, a, F
<1>5. PICK h \in [0..N -> Account] : Iterates(h, a, F, N) BY <1>1, <1>2, <1>3, IteratesExist
<1>6. \A i \in 0..N : h[i] = IF i = 0 THEN a ELSE Visit(h[i - 1], urls[i])
  <2> SUFFICES ASSUME NEW i \in 0..N PROVE h[i] = IF i = 0 THEN a ELSE Visit(h[i - 1], urls[i])
    OBVIOUS
  <2>1. h[i] = IF i = 0 THEN a ELSE F[<<i, h[i - 1]>>] BY <1>5 DEF Iterates
  <2>2. i # 0 => i \in 1..N /\ i - 1 \in 0..N BY <1>1
  <2>3. i # 0 => h[i - 1] \in Account BY <2>2
  <2> QED BY <1>3, <2>1, <2>2, <2>3
<1>7. VisitedBy(h, urls, a)
  <2>1. h = [i \in 0..N |-> h[i]] OBVIOUS
  <2> QED BY <1>6, <2>1 DEF VisitedBy, N
<1>8. PICK g : VisitedBy(g, urls, a) /\ Visited(urls) = g[N]
  <2>1. VisitedBy(CHOOSE g : VisitedBy(g, urls, a), urls, a) BY <1>7
  <2> QED BY <1>4, <2>1
<1>9. \A i \in 0..N : g[i] = IF i = 0 THEN a ELSE Visit(g[i - 1], urls[i])
  BY <1>8 DEF VisitedBy, N
<1> DEFINE P == {n \in 0..N : g[n] \notin Account}
<1>10. P = {}
  <2> SUFFICES ASSUME P # {} PROVE FALSE OBVIOUS
  <2>1. PICK n \in P : \A m \in P : n <= m
    <3>1. P \in SUBSET Nat OBVIOUS
    <3> HIDE DEF P
    <3> QED BY <3>1, LeastNumber
  <2>2. n \in 0..N /\ g[n] \notin Account OBVIOUS
  <2>3. n # 0 BY <1>2, <1>9, <2>2
  <2>4. n - 1 \in 0..N /\ ~(n <= n - 1) BY <1>1, <2>2, <2>3
  <2>5. n - 1 \notin P
    <3> HIDE DEF P
    <3> QED BY <2>1, <2>4
  <2>6. g[n - 1] \in Account BY <2>4, <2>5
  <2>7. g[n] = Visit(g[n - 1], urls[n]) BY <1>9, <2>2, <2>3
  <2> QED BY <2>2, <2>6, <2>7, VisitKeeps
<1>11. N \in 0..N BY <1>1
<1> QED BY <1>8, <1>10, <1>11

\* The size of a result is a number.
LEMMA SizeCounts == ASSUME NEW ps \in Seq(ResultPart) PROVE Size(ps) \in Nat
<1> DEFINE f == [k \in DOMAIN ps |-> ps[k].len]
           D == DOMAIN ps
<1>1. IsFiniteSet(D)
  <2> DEFINE n == Len(ps)
  <2>1. n \in Nat /\ D = 1..n /\ 1 \in Int /\ n \in Int OBVIOUS
  <2> HIDE DEF n, D
  <2>2. IsFiniteSet(1..n) BY <2>1, FS_Interval
  <2> QED BY <2>1, <2>2
<1>2. \A k \in D : f[k] \in Nat
  <2> SUFFICES ASSUME NEW k \in D PROVE ps[k].len \in Nat OBVIOUS
  <2>1. ps[k] \in ResultPart OBVIOUS
  <2> QED BY <2>1 DEF ResultPart
<1>3. Size(ps) = SumFunctionOnSet(f, D) BY DEF Size, SumFunction
<1>4. D \subseteq D OBVIOUS
<1> HIDE DEF f, D
<1> QED BY <1>1, <1>2, <1>3, <1>4, SumMonotone

(***************************************************************************)
(* SourceExplorer: the pass over a conversation.  While it is too long     *)
(* every long result that the pass comes to is cut, so that one is cut     *)
(* only after all before it; and what the conversation takes is the total  *)
(* and a notice for every result that was cut.                             *)
(***************************************************************************)
Message == [role : {"system", "user", "assistant"}, len : Nat, cut : BOOLEAN]
Shortened(m) == [m EXCEPT !.len = Trimmed + Notice, !.cut = TRUE]
Long(m) == m.role = "user" /\ ~(m.len <= Trimmed)
CutUpTo(ms, i) == {j \in 3..i : ms[j].role = "user" /\ ms[j].cut}
TrimState == [total : Int, ms : Seq(Message)]

PassInv(ms, b, i) ==
  /\ b \in TrimState /\ Len(b.ms) = Len(ms)
  /\ \A j \in DOMAIN ms : \/ b.ms[j] = ms[j]
                          \/ j \in 3..i /\ Long(ms[j]) /\ b.ms[j] = Shortened(ms[j])
  /\ b.total > MaxConversation => \A j \in 3..i : Long(ms[j]) => b.ms[j].cut
  /\ \A j, k \in 3..i : k < j /\ b.ms[j] # ms[j] /\ Long(ms[k]) => b.ms[k].cut
  /\ Chars(b.ms) <= b.total + Notice * Cardinality(CutUpTo(b.ms, i))

\* The characters of a conversation are a number, and one message changes them by its own.
LEMMA CharsChange ==
  ASSUME NEW ms \in Seq(Message), NEW i \in DOMAIN ms, NEW m \in Message,
         NEW ns, ns = [ms EXCEPT ![i] = m]
  PROVE  /\ Chars(ms) \in Nat /\ Chars(ns) \in Nat /\ ns \in Seq(Message) /\ Len(ns) = Len(ms)
         /\ Chars(ns) = Chars(ms) - ms[i].len + m.len
<1> DEFINE D == 1..Len(ms)
           R == D \ {i}
           f == [k \in DOMAIN ms |-> ms[k].len]
           g == [k \in DOMAIN ns |-> ns[k].len]
<1>1. Len(ms) \in Nat /\ DOMAIN ms = D /\ \A k \in D : ms[k] \in Message OBVIOUS
<1>2. IsFiniteSet(D)
  <2> DEFINE n == Len(ms)
  <2>1. 1 \in Int /\ n \in Int BY <1>1
  <2> HIDE DEF n
  <2>2. IsFiniteSet(1..n) BY <2>1, FS_Interval
  <2> QED BY <2>2 DEF n
<1>3. DOMAIN ns = D /\ ns[i] = m /\ \A k \in D : k # i => ns[k] = ms[k] BY <1>1
<1>4. ns \in [1..Len(ms) -> Message] BY <1>1, <1>3
<1>5. ns \in Seq(Message) /\ Len(ns) = Len(ms) BY <1>1, <1>4, NumberedIsSeq
<1>6. Chars(ms) = SumFunctionOnSet(f, D) /\ Chars(ns) = SumFunctionOnSet(g, D)
  <2>1. DOMAIN f = D /\ DOMAIN g = D BY <1>1, <1>3
  <2> HIDE DEF D
  <2> QED BY <2>1 DEF Chars, SumFunction
<1>7. \A k \in D : f[k] = ms[k].len /\ f[k] \in Nat /\ f[k] \in Int BY <1>1 DEF Message
<1>8. \A k \in D : g[k] \in Nat /\ g[k] \in Int /\ (k # i => g[k] = f[k])
  <2> SUFFICES ASSUME NEW k \in D PROVE g[k] \in Nat /\ g[k] \in Int /\ (k # i => g[k] = f[k])
    OBVIOUS
  <2>1. g[k] = ns[k].len BY <1>3
  <2>2. CASE k = i BY <1>3, <2>1, <2>2 DEF Message
  <2>3. CASE k # i BY <1>3, <1>7, <2>1, <2>3
  <2> QED BY <2>2, <2>3
<1>9. f[i] = ms[i].len /\ g[i] = m.len /\ i \in D BY <1>1, <1>3
<1> HIDE DEF f, g
<1>10. R \subseteq D /\ IsFiniteSet(R) BY <1>2, FS_Subset
<1> HIDE DEF D
<1>11. SumFunctionOnSet(f, D) = f[i] + SumFunctionOnSet(f, R) BY <1>2, <1>7, <1>9, SumRemove
<1>12. SumFunctionOnSet(g, D) = g[i] + SumFunctionOnSet(g, R) BY <1>2, <1>8, <1>9, SumRemove
<1> HIDE DEF R
<1>13. SumFunctionOnSet(g, R) = SumFunctionOnSet(f, R)
  <2>1. \A k \in R : k # i /\ k \in D BY DEF R
  <2>2. \A k \in R : f[k] \in Int /\ g[k] = f[k] BY <1>7, <1>8, <2>1
  <2> QED BY <1>10, <2>2, SumSame
<1>14. /\ SumFunctionOnSet(f, R) \in Nat /\ SumFunctionOnSet(f, D) \in Nat
       /\ SumFunctionOnSet(g, D) \in Nat
  <2>1. SumFunctionOnSet(f, R) \in Nat /\ SumFunctionOnSet(f, D) \in Nat
    BY <1>2, <1>7, <1>10, SumMonotone
  <2>2. D \subseteq D OBVIOUS
  <2>3. SumFunctionOnSet(g, D) \in Nat BY <1>2, <1>8, <2>2, SumMonotone
  <2> QED BY <2>1, <2>3
<1> DEFINE x == f[i]
           y == g[i]
           s == SumFunctionOnSet(f, R)
           cm == Chars(ms)
           cn == Chars(ns)
<1>15. /\ x \in Nat /\ y \in Nat /\ s \in Nat /\ cm = x + s /\ cn = y + s
       /\ x = ms[i].len /\ y = m.len
  BY <1>6, <1>7, <1>8, <1>9, <1>11, <1>12, <1>13, <1>14
<1> HIDE DEF x, y, s, cm, cn
<1>16. cm \in Nat /\ cn \in Nat /\ cn = cm - x + y BY <1>15
<1> QED BY <1>5, <1>15, <1>16 DEF cm, cn

\* What one step of the pass does.
LEMMA ShortenDoes ==
  ASSUME NEW b \in TrimState, NEW i \in DOMAIN b.ms
  PROVE  /\ Shorten(b, i) \in TrimState /\ Len(Shorten(b, i).ms) = Len(b.ms)
         /\ Chars(b.ms) \in Nat
         /\ \/ Shorten(b, i) = b /\ (b.total <= MaxConversation \/ ~Long(b.ms[i]))
            \/ /\ ~(b.total <= MaxConversation) /\ Long(b.ms[i])
               /\ Shorten(b, i).total = b.total - b.ms[i].len + Trimmed
               /\ Shorten(b, i).ms = [b.ms EXCEPT ![i] = Shortened(b.ms[i])]
               /\ Chars(Shorten(b, i).ms) = Chars(b.ms) - b.ms[i].len + Trimmed + Notice
<1> DEFINE ms == b.ms
           m == ms[i]
           c == Shorten(b, i)
           t == b.total - (m.len - Trimmed)
           ns == [ms EXCEPT ![i] = Shortened(m)]
<1>1. b.total \in Int /\ ms \in Seq(Message) BY DEF TrimState
<1>2. m \in Message /\ m.len \in Nat
  <2> HIDE DEF ms
  <2>1. i \in DOMAIN ms BY DEF ms
  <2>2. m \in Message BY <1>1, <2>1
  <2> QED BY <2>2 DEF Message
<1>3. Trimmed \in Nat /\ Notice \in Nat /\ MaxConversation \in Nat BY ExplorerAssumption
<1>4. Shortened(m) \in Message /\ Shortened(m).len = Trimmed + Notice
  <2> DEFINE k == Trimmed + Notice
  <2>1. k \in Nat BY <1>3
  <2> HIDE DEF k, m
  <2>2. [m EXCEPT !.len = k, !.cut = TRUE] \in Message
        /\ [m EXCEPT !.len = k, !.cut = TRUE].len = k
    BY <1>2, <2>1 DEF Message
  <2> QED BY <2>2 DEF Shortened, k
<1>5. c = IF b.total <= MaxConversation \/ m.role # "user" \/ m.len <= Trimmed THEN b
          ELSE [total |-> t, ms |-> ns]
  BY DEF Shorten, ShortenedTo, Shortened
<1>6. /\ Chars(ms) \in Nat /\ ns \in Seq(Message) /\ Len(ns) = Len(ms)
      /\ Chars(ns) = Chars(ms) - m.len + (Trimmed + Notice)
  <2> HIDE DEF ms
  <2>1. i \in DOMAIN ms BY DEF ms
  <2> DEFINE q == Shortened(m)
  <2>2. q \in Message /\ q.len = Trimmed + Notice BY <1>4
  <2> HIDE DEF q
  <2>3. ns = [ms EXCEPT ![i] = q] BY DEF q
  <2> HIDE DEF ns
  <2> QED BY <1>1, <2>1, <2>2, <2>3, CharsChange
<1>7. CASE b.total <= MaxConversation \/ ~Long(m)
  <2>1. c = b BY <1>5, <1>7 DEF Long
  <2> QED BY <1>6, <1>7, <2>1
<1>8. CASE ~(b.total <= MaxConversation) /\ Long(m)
  <2>1. c = [total |-> t, ms |-> ns] BY <1>5, <1>8 DEF Long
  <2>2. t \in Int /\ t = b.total - m.len + Trimmed BY <1>1, <1>2, <1>3
  <2>3. c \in TrimState BY <1>6, <2>1, <2>2 DEF TrimState
  <2>4. c.total = t /\ c.ms = ns BY <2>1
  <2>5. Chars(ms) - m.len + (Trimmed + Notice) = Chars(ms) - m.len + Trimmed + Notice
    <3> DEFINE x == Chars(ms)
               y == m.len
    <3>1. x \in Nat /\ y \in Nat BY <1>2, <1>6
    <3> HIDE DEF x, y
    <3>2. x - y + (Trimmed + Notice) = x - y + Trimmed + Notice BY <1>3, <3>1
    <3> QED BY <3>2 DEF x, y
  <2>6. Chars(c.ms) = Chars(ms) - m.len + Trimmed + Notice BY <1>6, <2>4, <2>5
  <2> QED BY <1>6, <1>8, <2>2, <2>3, <2>4, <2>6
<1> QED BY <1>7, <1>8

\* At the start of the pass nothing is cut that was not.
LEMMA PassBegins ==
  ASSUME NEW ms \in Seq(Message), Len(ms) >= 4
  PROVE  PassInv(ms, Untrimmed(ms), 2)
<1> DEFINE b == Untrimmed(ms)
<1>1. Chars(ms) \in Nat
  <2>1. 1 \in DOMAIN ms /\ ms[1] \in Message OBVIOUS
  <2> QED BY <2>1, CharsChange
<1>2. b.ms = ms /\ b.total = Chars(ms) BY DEF Untrimmed
<1>3. b \in TrimState BY <1>1 DEF TrimState, Untrimmed
<1>4. 3..2 = {} OBVIOUS
<1>5. CutUpTo(ms, 2) = {} BY <1>4 DEF CutUpTo
<1>6. Chars(ms) <= Chars(ms) + Notice * Cardinality(CutUpTo(ms, 2))
  <2>1. Cardinality({}) = 0 BY FS_EmptySet
  <2>2. Notice * 0 = 0 BY ExplorerAssumption
  <2>3. Chars(ms) + 0 = Chars(ms) /\ Chars(ms) <= Chars(ms) BY <1>1
  <2> QED BY <1>5, <2>1, <2>2, <2>3
<1> HIDE DEF b
<1> QED BY <1>2, <1>3, <1>4, <1>6 DEF PassInv, b

\* The pass goes on.
LEMMA PassGoesOn ==
  ASSUME NEW ms \in Seq(Message), NEW i \in 3..Len(ms), NEW b, PassInv(ms, b, i - 1)
  PROVE  PassInv(ms, Shorten(b, i), i)
<1> DEFINE c == Shorten(b, i)
           C == CutUpTo(b.ms, i - 1)
           E == CutUpTo(c.ms, i)
<1>0. /\ i \in Nat /\ i \in DOMAIN ms /\ ~(i \in 3..(i - 1)) /\ Len(ms) \in Nat
      /\ \A j \in 3..i : j \in 3..(i - 1) \/ j = i
      /\ \A j \in 3..(i - 1) : j \in 3..i /\ j < i /\ j # i
      /\ \A j \in 3..i : j \in DOMAIN ms
  OBVIOUS
<1>1. /\ b \in TrimState /\ Len(b.ms) = Len(ms)
      /\ \A j \in DOMAIN ms : \/ b.ms[j] = ms[j]
                              \/ j \in 3..(i - 1) /\ Long(ms[j]) /\ b.ms[j] = Shortened(ms[j])
      /\ b.total > MaxConversation => \A j \in 3..(i - 1) : Long(ms[j]) => b.ms[j].cut
      /\ \A j, k \in 3..(i - 1) : k < j /\ b.ms[j] # ms[j] /\ Long(ms[k]) => b.ms[k].cut
      /\ Chars(b.ms) <= b.total + Notice * Cardinality(C)
  BY DEF PassInv
<1>2. b.ms \in Seq(Message) /\ b.total \in Int BY <1>1 DEF TrimState
<1>3. DOMAIN b.ms = DOMAIN ms /\ \A j \in DOMAIN ms : b.ms[j] \in Message
  <2> DEFINE n == b.ms
  <2> HIDE DEF n
  <2>1. n \in Seq(Message) /\ Len(n) = Len(ms) BY <1>1, <1>2 DEF n
  <2>2. DOMAIN n = DOMAIN ms /\ \A j \in DOMAIN ms : n[j] \in Message BY <2>1
  <2> QED BY <2>2 DEF n
<1>4. b.ms[i] = ms[i] BY <1>0, <1>1
<1>5. i \in DOMAIN b.ms BY <1>0, <1>3
<1>6. /\ c \in TrimState /\ Len(c.ms) = Len(ms) /\ Chars(b.ms) \in Nat
      /\ \/ c = b /\ (b.total <= MaxConversation \/ ~Long(ms[i]))
         \/ /\ ~(b.total <= MaxConversation) /\ Long(ms[i])
            /\ c.total = b.total - ms[i].len + Trimmed
            /\ c.ms = [b.ms EXCEPT ![i] = Shortened(ms[i])]
            /\ Chars(c.ms) = Chars(b.ms) - ms[i].len + Trimmed + Notice
  BY <1>1, <1>4, <1>5, ShortenDoes
<1>7. ms[i].len \in Nat
  <2>1. ms[i] \in Message BY <1>0
  <2> QED BY <2>1 DEF Message
<1>8. MaxConversation \in Nat /\ Trimmed \in Nat /\ Notice \in Nat BY ExplorerAssumption
<1>9. IsFiniteSet(C) /\ IsFiniteSet(E) /\ Cardinality(C) \in Nat /\ Cardinality(E) \in Nat
  <2>1. IsFiniteSet(3..(i - 1)) /\ IsFiniteSet(3..i)
    <3> DEFINE p == i - 1
    <3>1. 3 \in Int /\ p \in Int /\ i \in Int BY <1>0
    <3> HIDE DEF p
    <3>2. IsFiniteSet(3..p) /\ IsFiniteSet(3..i) BY <3>1, FS_Interval
    <3> QED BY <3>2 DEF p
  <2>2. C \subseteq 3..(i - 1) /\ E \subseteq 3..i BY DEF CutUpTo
  <2> HIDE DEF C, E
  <2>3. IsFiniteSet(C) /\ IsFiniteSet(E) BY <2>1, <2>2, FS_Subset
  <2> QED BY <2>3, FS_CardinalityType
<1> HIDE DEF c
<1>10. CASE c = b /\ (b.total <= MaxConversation \/ ~Long(ms[i]))
  <2>1. \A j \in DOMAIN ms : \/ c.ms[j] = ms[j]
                             \/ j \in 3..i /\ Long(ms[j]) /\ c.ms[j] = Shortened(ms[j])
    BY <1>0, <1>1, <1>10
  <2>2. c.total > MaxConversation => \A j \in 3..i : Long(ms[j]) => c.ms[j].cut
    <3> SUFFICES ASSUME c.total > MaxConversation, NEW j \in 3..i, Long(ms[j]) PROVE c.ms[j].cut
      OBVIOUS
    <3>1. ~(b.total <= MaxConversation) BY <1>2, <1>8, <1>10
    <3> QED BY <1>0, <1>1, <1>10, <3>1
  <2>3. \A j, k \in 3..i : k < j /\ c.ms[j] # ms[j] /\ Long(ms[k]) => c.ms[k].cut
    <3> SUFFICES ASSUME NEW j \in 3..i, NEW k \in 3..i, k < j, c.ms[j] # ms[j], Long(ms[k])
                 PROVE  c.ms[k].cut
      OBVIOUS
    <3>1. j \in 3..(i - 1) BY <1>0, <1>4, <1>10
    <3>2. k \in 3..(i - 1) BY <1>0, <3>1
    <3> QED BY <1>1, <1>10, <3>1, <3>2
  <2>4. Chars(c.ms) <= c.total + Notice * Cardinality(E)
    <3>1. C \subseteq E BY <1>0, <1>10 DEF CutUpTo
    <3> DEFINE x == Cardinality(C)
               y == Cardinality(E)
    <3>2. x \in Nat /\ y \in Nat /\ x <= y
      <4> HIDE DEF C, E
      <4> QED BY <1>9, <3>1, FS_Subset
    <3> DEFINE ch == Chars(b.ms)
               tt == b.total
               nx == Notice * x
               ny == Notice * y
               nz == Notice * (y - x)
    <3>3. ch \in Nat /\ tt \in Int /\ ch <= tt + nx BY <1>1, <1>2, <1>6
    <3> HIDE DEF x, y
    <3>4. nx \in Nat /\ ny \in Nat /\ nz \in Nat /\ ny = nx + nz
      <4>1. y - x \in Nat BY <3>2
      <4>2. Notice * (y - x) = Notice * y - Notice * x BY <1>8, <3>2
      <4>3. Notice * x \in Nat /\ Notice * y \in Nat /\ Notice * (y - x) \in Nat BY <1>8, <3>2, <4>1
      <4> DEFINE px == Notice * x
                 py == Notice * y
                 pz == Notice * (y - x)
      <4>4. px \in Nat /\ py \in Nat /\ pz \in Nat /\ pz = py - px BY <4>2, <4>3
      <4> HIDE DEF px, py, pz
      <4>5. py = px + pz BY <4>4
      <4> QED BY <4>4, <4>5 DEF px, py, pz
    <3> HIDE DEF ch, tt, nx, ny, nz
    <3>5. ch <= tt + ny BY <3>3, <3>4
    <3> QED BY <1>10, <3>5 DEF ch, tt, ny, y
  <2> QED BY <1>6, <2>1, <2>2, <2>3, <2>4 DEF PassInv, c
<1>11. CASE /\ ~(b.total <= MaxConversation) /\ Long(ms[i])
            /\ c.total = b.total - ms[i].len + Trimmed
            /\ c.ms = [b.ms EXCEPT ![i] = Shortened(ms[i])]
            /\ Chars(c.ms) = Chars(b.ms) - ms[i].len + Trimmed + Notice
  <2>1. c.ms[i] = Shortened(ms[i]) /\ \A j \in DOMAIN ms : j # i => c.ms[j] = b.ms[j]
    BY <1>3, <1>5, <1>11
  <2>2. Shortened(ms[i]).cut /\ Shortened(ms[i]).role = "user"
    <3>1. ms[i] \in Message BY <1>0
    <3> DEFINE m == ms[i]
    <3>2. m \in Message /\ m.role = "user" BY <1>11, <3>1 DEF Long
    <3> HIDE DEF m
    <3>3. Shortened(m).cut /\ Shortened(m).role = "user" BY <3>2 DEF Shortened, Message
    <3> QED BY <3>3 DEF m
  <2>3. b.total > MaxConversation BY <1>2, <1>8, <1>11
  <2>4. \A j \in 3..i : Long(ms[j]) => c.ms[j].cut
    <3> SUFFICES ASSUME NEW j \in 3..i, Long(ms[j]) PROVE c.ms[j].cut OBVIOUS
    <3>1. CASE j = i BY <2>1, <2>2, <3>1
    <3>2. CASE j # i BY <1>0, <1>1, <2>1, <2>3, <3>2
    <3> QED BY <3>1, <3>2
  <2>5. \A j \in DOMAIN ms : \/ c.ms[j] = ms[j]
                             \/ j \in 3..i /\ Long(ms[j]) /\ c.ms[j] = Shortened(ms[j])
    <3> SUFFICES ASSUME NEW j \in DOMAIN ms
                 PROVE  \/ c.ms[j] = ms[j]
                        \/ j \in 3..i /\ Long(ms[j]) /\ c.ms[j] = Shortened(ms[j])
      OBVIOUS
    <3>1. CASE j = i BY <1>0, <1>11, <2>1, <3>1
    <3>2. CASE j # i BY <1>0, <1>1, <2>1, <3>2
    <3> QED BY <3>1, <3>2
  <2>6. E = C \cup {i}
    <3>1. ASSUME NEW j \in 3..(i - 1) PROVE c.ms[j] = b.ms[j] BY <1>0, <2>1
    <3>2. i \in E BY <1>0, <2>1, <2>2 DEF CutUpTo
    <3>3. ASSUME NEW j \in C PROVE j \in E BY <1>0, <3>1 DEF CutUpTo
    <3>4. ASSUME NEW j \in E, j # i PROVE j \in C BY <1>0, <3>1, <3>4 DEF CutUpTo
    <3> QED BY <3>2, <3>3, <3>4
  <2>7. Chars(c.ms) <= c.total + Notice * Cardinality(E)
    <3>1. i \notin C BY <1>0 DEF CutUpTo
    <3> DEFINE x == Cardinality(C)
    <3>2. x \in Nat /\ Cardinality(E) = x + 1
      <4> HIDE DEF C, E
      <4> QED BY <1>9, <2>6, <3>1, FS_AddElement
    <3> DEFINE ch == Chars(b.ms)
               tt == b.total
               l == ms[i].len
               nx == Notice * x
    <3>3. ch \in Nat /\ tt \in Int /\ ch <= tt + nx /\ l \in Nat BY <1>1, <1>2, <1>6, <1>7
    <3>4. Chars(c.ms) = ch - l + Trimmed + Notice /\ c.total = tt - l + Trimmed BY <1>11
    <3> HIDE DEF x, ch, tt, l
    <3>5. nx \in Nat /\ Notice * (x + 1) = nx + Notice BY <1>8, <3>2
    <3> HIDE DEF nx
    <3>6. ch - l + Trimmed + Notice <= tt - l + Trimmed + (nx + Notice) BY <1>8, <3>3, <3>5
    <3> QED BY <3>2, <3>4, <3>5, <3>6
  <2>8. \A j, k \in 3..i : k < j /\ c.ms[j] # ms[j] /\ Long(ms[k]) => c.ms[k].cut BY <2>4
  <2> QED BY <1>6, <2>4, <2>5, <2>7, <2>8 DEF PassInv, c
<1> QED BY <1>6, <1>10, <1>11

Passes(p, ms) ==
  p = [i \in 2..(Len(ms) - 1) |-> IF i = 2 THEN Untrimmed(ms) ELSE Shorten(p[i - 1], i)]

\* What a conversation is trimmed to is the end of a pass.
LEMMA TrimPasses ==
  ASSUME NEW ms \in Seq(Message), Len(ms) >= 4
  PROVE  \E b : PassInv(ms, b, Len(ms) - 1) /\ Trim(ms) = b.ms
<1> DEFINE n == Len(ms)
           N == n - 3
           S == {b \in TrimState : Len(b.ms) = n}
           F == [w \in (1..N) \X S |-> Shorten(w[2], w[1] + 2)]
           a == Untrimmed(ms)
<1>0. n \in Nat /\ n >= 4 OBVIOUS
<1>1. n \in Nat /\ N \in Nat \ {0} /\ n - 1 = N + 2
  <2> HIDE DEF n
  <2> QED BY <1>0
<1>2. a \in S
  <2>1. PassInv(ms, a, 2) BY PassBegins
  <2> QED BY <2>1 DEF PassInv
<1> HIDE DEF n, a
<1>3. \A i \in 1..N, x \in S : F[<<i, x>>] = Shorten(x, i + 2) /\ F[<<i, x>>] \in S
  <2> SUFFICES ASSUME NEW i \in 1..N, NEW x \in S
               PROVE  F[<<i, x>>] = Shorten(x, i + 2) /\ F[<<i, x>>] \in S
    OBVIOUS
  <2>1. F[<<i, x>>] = Shorten(x, i + 2) OBVIOUS
  <2>2. x \in TrimState /\ Len(x.ms) = n /\ x.ms \in Seq(Message) BY DEF TrimState
  <2>3. i + 2 \in 1..n BY <1>1
  <2>4. i + 2 \in DOMAIN x.ms
    <3> DEFINE k == x.ms
    <3> HIDE DEF k
    <3>1. k \in Seq(Message) /\ Len(k) = n BY <2>2 DEF k
    <3>2. DOMAIN k = 1..n BY <3>1
    <3> QED BY <2>3, <3>2 DEF k
  <2>5. Shorten(x, i + 2) \in TrimState /\ Len(Shorten(x, i + 2).ms) = n BY <2>2, <2>4, ShortenDoes
  <2> QED BY <2>1, <2>5
<1> HIDE DEF S, F
<1>4. PICK h \in [0..N -> S] : Iterates(h, a, F, N)
  <2> HIDE DEF N
  <2> QED BY <1>1, <1>2, <1>3, IteratesExist
<1> DEFINE p == [i \in 2..(n - 1) |-> h[i - 2]]
<1>5. \A i \in 2..(n - 1) : p[i] = IF i = 2 THEN a ELSE Shorten(p[i - 1], i)
  <2> SUFFICES ASSUME NEW i \in 2..(n - 1) PROVE p[i] = IF i = 2 THEN a ELSE Shorten(p[i - 1], i)
    OBVIOUS
  <2>1. i - 2 \in 0..N /\ p[i] = h[i - 2] BY <1>1
  <2>2. h[i - 2] = IF i - 2 = 0 THEN a ELSE F[<<i - 2, h[(i - 2) - 1]>>]
    BY <1>4, <2>1 DEF Iterates
  <2>3. CASE i = 2
    <3>1. i - 2 = 0 BY <2>3
    <3> QED BY <2>1, <2>2, <2>3, <3>1
  <2>4. CASE i # 2
    <3>1. /\ i - 2 # 0 /\ i - 2 \in 1..N /\ (i - 2) - 1 \in 0..N /\ (i - 2) + 2 = i
          /\ i - 1 \in 2..(n - 1) /\ (i - 1) - 2 = (i - 2) - 1
      BY <1>1, <2>4
    <3>2. h[(i - 2) - 1] \in S BY <3>1
    <3>3. F[<<i - 2, h[(i - 2) - 1]>>] = Shorten(h[(i - 2) - 1], i) BY <1>3, <3>1, <3>2
    <3>4. p[i - 1] = h[(i - 1) - 2] BY <3>1
    <3>5. p[i - 1] = h[(i - 2) - 1] BY <3>1, <3>4
    <3> QED BY <2>1, <2>2, <2>4, <3>1, <3>3, <3>5
  <2> QED BY <2>3, <2>4
<1>6. Passes(p, ms)
  <2>1. p = [i \in 2..(n - 1) |-> p[i]] OBVIOUS
  <2> HIDE DEF p
  <2> QED BY <1>5, <2>1 DEF Passes, n, a
<1> HIDE DEF p
<1>7. PICK g : Passes(g, ms) /\ Trim(ms) = g[n - 1].ms
  <2>1. Passes(CHOOSE g : Passes(g, ms), ms) BY <1>6
  <2>2. Trim(ms) = (CHOOSE g : Passes(g, ms))[n - 1].ms BY DEF Trim, Passes, n
  <2> QED BY <2>1, <2>2
<1>8. \A i \in 2..(n - 1) : g[i] = IF i = 2 THEN a ELSE Shorten(g[i - 1], i)
  BY <1>7 DEF Passes, n, a
<1> DEFINE P == {i \in 2..(n - 1) : ~PassInv(ms, g[i], i)}
<1>9. P = {}
  <2> SUFFICES ASSUME P # {} PROVE FALSE OBVIOUS
  <2>1. PICK i \in P : \A j \in P : i <= j
    <3>1. P \in SUBSET Nat BY <1>1
    <3> HIDE DEF P
    <3> QED BY <3>1, LeastNumber
  <2>2. i \in 2..(n - 1) /\ ~PassInv(ms, g[i], i) OBVIOUS
  <2>3. i # 2 BY <1>8, <2>2, PassBegins DEF a
  <2>4. i - 1 \in 2..(n - 1) /\ ~(i <= i - 1) /\ i \in 3..n BY <1>1, <2>2, <2>3
  <2>5. i - 1 \notin P
    <3> HIDE DEF P
    <3> QED BY <2>1, <2>4
  <2>6. PassInv(ms, g[i - 1], i - 1) BY <2>4, <2>5
  <2>7. g[i] = Shorten(g[i - 1], i) BY <1>8, <2>2, <2>3
  <2>8. i \in 3..Len(ms) BY <2>4 DEF n
  <2> QED BY <2>2, <2>6, <2>7, <2>8, PassGoesOn
<1>10. n - 1 \in 2..(n - 1) BY <1>1
<1>11. PassInv(ms, g[n - 1], n - 1) BY <1>9, <1>10
<1> QED BY <1>7, <1>11 DEF n

(***************************************************************************)
(* SourceExplorer: the exploration.                                        *)
(***************************************************************************)
ExploreInv ==
  /\ ex \in {"start", "ask", "report", "nothing", "raised", "cancelled"}
  /\ turn \in 0..Turns /\ (ex \in {"start", "ask"} => turn < Turns)
  /\ messages \in Seq(Message) /\ (ex # "start" => Len(messages) >= 2)
  /\ fetched \in Seq(DOMAIN Site) /\ Len(fetched) <= MaxPages
  /\ texts \in SUBSET DOMAIN Site /\ texts \subseteq ToSet(fetched) /\ shown \in SUBSET Links
  /\ OldestGoFirst /\ ConversationFits

LEMMA ExploreBegins == ExplorerInit => ExploreInv
<1> SUFFICES ASSUME ExplorerInit PROVE ExploreInv OBVIOUS
<1>1. ex = "start" /\ turn = 0 /\ messages = <<>> /\ fetched = <<>> /\ texts = {} /\ shown = {}
  BY DEF ExplorerInit
<1>2. 0 \in 0..Turns /\ 0 < Turns /\ Len(fetched) <= MaxPages BY <1>1, ExplorerAssumption
<1>3. Results = {}
  <2>1. Len(messages) - 1 < 3 /\ Len(messages) - 1 \in Int BY <1>1
  <2>2. 3..(Len(messages) - 1) = {} BY <2>1
  <2> QED BY <2>2 DEF Results
<1>4. OldestGoFirst /\ ConversationFits BY <1>1, <1>3 DEF OldestGoFirst, ConversationFits
<1>5. messages \in Seq(Message) /\ fetched \in Seq(DOMAIN Site) BY <1>1
<1> QED BY <1>1, <1>2, <1>4, <1>5 DEF ExploreInv

\* A reply and its result join the conversation, and it is trimmed.
LEMMA AnswerTrims ==
  ASSUME ExploreInv, NEW len \in Nat, Answer(len)
  PROVE  /\ ex' \in {"ask", "nothing"} /\ turn' \in 0..Turns /\ (ex' = "ask" => turn' < Turns)
         /\ messages' \in Seq(Message) /\ Len(messages') >= 2
         /\ OldestGoFirst' /\ ConversationFits'
<1> DEFINE l == len + (IF turn' = Turns - 1 THEN Notice ELSE 0)
           two == <<Msg("assistant", 1), Msg("user", l)>>
           ms == messages \o two
           n == Len(ms)
           fin == messages'
           most == MaxConversation
<1>1. /\ ex = "ask" /\ turn' = turn + 1 /\ fin = Trim(ms)
      /\ ex' = IF turn' = Turns THEN "nothing" ELSE "ask"
  BY DEF Answer
<1>2. Turns \in Nat /\ Notice \in Nat /\ MaxConversation \in Nat /\ Trimmed \in Nat
  BY ExplorerAssumption
<1>3. turn \in Nat /\ turn < Turns /\ messages \in Seq(Message) /\ Len(messages) >= 2
  BY <1>1, <1>2 DEF ExploreInv
<1>4. /\ ex' \in {"ask", "nothing"} /\ turn' \in 0..Turns /\ (ex' = "ask" => turn' < Turns)
  BY <1>1, <1>2, <1>3
<1>5. /\ Len(two) = 2 /\ two \in Seq(Message) /\ two[1] = Msg("assistant", 1)
      /\ two[2] = Msg("user", l) /\ ~two[2].cut
  <2>1. l \in Nat BY <1>2
  <2> HIDE DEF l
  <2>2. /\ Msg("assistant", 1) \in Message /\ Msg("user", l) \in Message
        /\ ~Msg("user", l).cut
    BY <2>1 DEF Msg, Message
  <2> QED BY <2>2
<1> HIDE DEF two
<1>6. /\ ms \in Seq(Message) /\ n = Len(messages) + 2 /\ n \in Nat /\ n >= 4
      /\ DOMAIN ms = 1..n /\ DOMAIN messages = 1..Len(messages) /\ Len(messages) = n - 2
      /\ \A j \in DOMAIN messages : ms[j] = messages[j] /\ j \in DOMAIN ms
      /\ ms[n - 1] = two[1] /\ ms[n] = two[2]
  <2> DEFINE k == Len(messages)
  <2>1. /\ k \in Nat /\ k >= 2 /\ DOMAIN messages = 1..k
        /\ ms \in Seq(Message) /\ n = k + 2 /\ DOMAIN ms = 1..k + 2
        /\ \A j \in 1..k + 2 : ms[j] = IF j <= k THEN messages[j] ELSE two[j - k]
    <3>1. /\ messages \in Seq(Message) /\ two \in Seq(Message) /\ Len(two) = 2
          /\ k \in Nat /\ k >= 2 /\ DOMAIN messages = 1..k
      BY <1>3, <1>5
    <3>2. /\ ms \in Seq(Message) /\ Len(ms) = k + Len(two)
          /\ \A j \in 1..k + Len(two) : ms[j] = IF j <= k THEN messages[j] ELSE two[j - k]
      BY <3>1, TextsAreJoined
    <3> HIDE DEF k, ms
    <3>3. DOMAIN ms = 1..k + 2 BY <3>1, <3>2
    <3> QED BY <3>1, <3>2, <3>3
  <2> HIDE DEF k, ms, n
  <2>2. k + 1 \in 1..k + 2 /\ k + 2 \in 1..k + 2 /\ (k + 1) - k = 1 /\ (k + 2) - k = 2
        /\ ~(k + 1 <= k) /\ ~(k + 2 <= k) /\ (k + 2) - 1 = k + 1 /\ (k + 2) - 2 = k
        /\ \A j \in 1..k : j \in 1..k + 2 /\ j <= k
    BY <2>1
  <2>3. ms[k + 1] = two[1] /\ ms[k + 2] = two[2] BY <2>1, <2>2
  <2>4. \A j \in 1..k : ms[j] = messages[j] BY <2>1, <2>2
  <2>5. n \in Nat /\ n >= 4 BY <2>1
  <2> QED BY <2>1, <2>2, <2>3, <2>4, <2>5 DEF k
<1> HIDE DEF ms, n
<1>7. PICK b : PassInv(ms, b, Len(ms) - 1) /\ Trim(ms) = b.ms BY <1>6, TrimPasses DEF n
<1> DEFINE top == n - 1
<1>8. /\ b \in TrimState /\ Len(fin) = n /\ fin = b.ms
      /\ \A j \in DOMAIN ms : \/ fin[j] = ms[j]
                              \/ j \in 3..top /\ Long(ms[j]) /\ fin[j] = Shortened(ms[j])
      /\ b.total > most => \A j \in 3..top : Long(ms[j]) => fin[j].cut
      /\ \A j, k \in 3..top : k < j /\ fin[j] # ms[j] /\ Long(ms[k]) => fin[k].cut
      /\ Chars(fin) <= b.total + Notice * Cardinality(CutUpTo(fin, top))
  BY <1>1, <1>7 DEF PassInv, n
<1> HIDE DEF fin
<1>9. fin \in Seq(Message) /\ b.total \in Int BY <1>8 DEF TrimState
<1>10. DOMAIN fin = 1..n /\ Results' = {i \in 3..top : fin[i].role = "user"}
  BY <1>6, <1>8, <1>9 DEF Results, fin
<1>11. \A j \in 3..top : j \in DOMAIN ms /\ j \in DOMAIN fin /\ ms[j] \in Message /\ j \in Nat
  <2>1. \A j \in 3..top : j \in 1..n BY <1>6
  <2> QED BY <1>6, <1>10, <2>1
\* A long result keeps its role, whatever is done to it; a cut one stays cut.
<1>12. ASSUME NEW j \in 3..top
       PROVE  /\ fin[j].role = ms[j].role /\ (ms[j].cut => fin[j].cut)
              /\ ~Long(ms[j]) => fin[j] = ms[j]
  <2> DEFINE m == ms[j]
  <2>1. m \in Message BY <1>11
  <2>2. fin[j] = m \/ (Long(m) /\ fin[j] = Shortened(m)) BY <1>8, <1>11
  <2> HIDE DEF m
  <2>3. Shortened(m).role = m.role /\ Shortened(m).cut BY <2>1 DEF Shortened, Message
  <2>4. fin[j].role = m.role /\ (m.cut => fin[j].cut) /\ (~Long(m) => fin[j] = m)
    BY <2>2, <2>3
  <2> QED BY <2>4 DEF m
<1>13. ASSUME NEW j \in 3..top, fin[j].role = "user", ~Long(ms[j]) PROVE fin[j].len <= Trimmed
  BY <1>12, <1>13 DEF Long
<1>14. ~Last(fin).cut
  <2>1. n \in DOMAIN ms /\ ~(n \in 3..top) BY <1>6
  <2>2. fin[n] = ms[n] BY <1>8, <2>1
  <2> QED BY <1>5, <1>6, <1>8, <2>2 DEF Last
<1>15. ASSUME NEW i \in 3..top, NEW j \in 3..top, fin[i].role = "user", fin[j].role = "user",
              i < j, fin[j].cut
       PROVE  fin[i].cut \/ fin[i].len <= Trimmed
  <2>1. CASE ~Long(ms[i]) BY <1>13, <1>15, <2>1
  <2>2. CASE Long(ms[i]) /\ fin[j] # ms[j] BY <1>8, <1>15, <2>2
  <2>3. CASE Long(ms[i]) /\ fin[j] = ms[j]
    <3>1. ms[j].cut BY <1>15, <2>3
    <3>2. j # n - 1 \/ ~ms[j].cut
      <4> SUFFICES ASSUME j = n - 1 PROVE FALSE OBVIOUS
      <4>1. ms[j] = two[1] BY <1>6
      <4> QED BY <1>5, <3>1, <4>1 DEF Msg
    <3>3. j \in 1..(n - 2) /\ i \in 1..(n - 2) /\ i \in 3..(n - 2) /\ j \in 3..(n - 2)
      <4>1. j # n - 1 BY <3>1, <3>2
      <4>2. n \in Nat /\ n >= 4 BY <1>6
      <4>3. /\ i \in Nat /\ j \in Nat /\ 3 <= i /\ i < j /\ j <= n - 1 BY <1>15, <4>2
      <4>4. j <= n - 2 /\ i <= n - 2 /\ 3 <= j BY <4>1, <4>2, <4>3
      <4> QED BY <4>2, <4>3, <4>4
    <3>4. ms[j] = messages[j] /\ ms[i] = messages[i] BY <1>6, <3>3
    <3>5. ~Last(messages).cut
      <4>1. messages # <<>> BY <1>3
      <4> QED BY <4>1 DEF ExploreInv, OldestGoFirst
    <3>6. j # n - 2
      <4> SUFFICES ASSUME j = n - 2 PROVE FALSE OBVIOUS
      <4>1. Last(messages) = messages[j] BY <1>6 DEF Last
      <4> QED BY <3>1, <3>4, <3>5, <4>1
    <3>7. j \in Results /\ i \in Results
      <4>1. j \in 3..(Len(messages) - 1) /\ i \in 3..(Len(messages) - 1)
        <5> DEFINE k == Len(messages)
        <5>1. k = n - 2 /\ n \in Nat /\ i < j BY <1>6, <1>15
        <5> HIDE DEF k
        <5>2. j \in 3..(k - 1) /\ i \in 3..(k - 1) BY <3>3, <3>6, <5>1
        <5> QED BY <5>2 DEF k
      <4>2. messages[i].role = "user" /\ messages[j].role = "user" BY <1>12, <1>15, <3>4
      <4> QED BY <4>1, <4>2 DEF Results
    <3>8. messages[i].cut \/ messages[i].len <= Trimmed
      BY <1>15, <3>1, <3>4, <3>7 DEF ExploreInv, OldestGoFirst
    <3>9. ms[i].cut BY <2>3, <3>4, <3>8 DEF Long
    <3> QED BY <1>12, <3>9
  <2> QED BY <2>1, <2>2, <2>3
<1>16. OldestGoFirst' BY <1>10, <1>14, <1>15 DEF OldestGoFirst, fin
<1>17. ConversationFits'
  <2>1. CASE b.total > most
    <3>1. ASSUME NEW i \in 3..top, fin[i].role = "user" PROVE fin[i].cut \/ fin[i].len <= Trimmed
      <4>1. CASE Long(ms[i]) BY <1>8, <2>1, <4>1
      <4>2. CASE ~Long(ms[i]) BY <1>13, <3>1, <4>2
      <4> QED BY <4>1, <4>2
    <3>2. \A i \in Results' : messages'[i].cut \/ messages'[i].len <= Trimmed
      BY <1>10, <3>1 DEF fin
    <3> QED BY <3>2 DEF ConversationFits
  <2>2. CASE ~(b.total > most)
    <3> DEFINE C == CutUpTo(fin, top)
               D == {i \in Results : messages[i].cut}
    <3>1. C = D' BY <1>10 DEF CutUpTo, fin
    <3> DEFINE x == Cardinality(C)
    <3>2. x \in Nat
      <4>1. IsFiniteSet(3..top)
        <5>1. 3 \in Int /\ top \in Int BY <1>6
        <5> HIDE DEF top
        <5> QED BY <5>1, FS_Interval
      <4>2. C \subseteq 3..top BY DEF CutUpTo
      <4> HIDE DEF C
      <4>3. IsFiniteSet(C) BY <4>1, <4>2, FS_Subset
      <4> QED BY <4>3, FS_CardinalityType
    <3>3. Chars(fin) \in Nat
      <4>1. 1 \in DOMAIN fin /\ fin[1] \in Message BY <1>6, <1>9, <1>10
      <4>2. fin = [fin EXCEPT ![1] = fin[1]] BY <1>9
      <4> QED BY <1>9, <4>1, CharsChange
    <3> DEFINE ch == Chars(fin)
               nx == Notice * x
               tt == b.total
    <3>4. ch <= tt + nx BY <1>8
    <3> HIDE DEF x
    <3>5. nx \in Nat /\ ch \in Nat /\ tt \in Int BY <1>2, <1>9, <3>2, <3>3
    <3>6. tt <= most BY <1>2, <1>9, <2>2
    <3> HIDE DEF ch, nx, tt
    <3>7. ch <= most + nx BY <1>2, <3>4, <3>5, <3>6
    <3>8. Chars(messages') <= MaxConversation + Notice * Cardinality(D')
      BY <3>1, <3>7 DEF ch, nx, x, fin
    <3> QED BY <3>8 DEF ConversationFits
  <2> QED BY <2>1, <2>2
<1>18. messages' \in Seq(Message) /\ Len(messages') >= 2 BY <1>6, <1>8, <1>9 DEF fin
<1> QED BY <1>4, <1>16, <1>17, <1>18

\* What the account comes to, and the answer to it.
LEMMA RecordKeeps ==
  ASSUME ExploreInv, NEW acc \in Account, NEW len \in Nat, Record(acc, len)
  PROVE  ExploreInv'
<1>1. fetched' = acc.fetched /\ texts' = acc.texts /\ shown' = acc.shown /\ Answer(len)
  BY DEF Record
<1>2. /\ acc.fetched \in Seq(DOMAIN Site) /\ acc.texts \in SUBSET DOMAIN Site
      /\ acc.shown \in SUBSET Links /\ Len(acc.fetched) <= MaxPages
      /\ acc.texts \subseteq ToSet(acc.fetched)
  BY DEF Account, PageAccount
<1>3. /\ ex' \in {"ask", "nothing"} /\ turn' \in 0..Turns /\ (ex' = "ask" => turn' < Turns)
      /\ messages' \in Seq(Message) /\ Len(messages') >= 2
      /\ OldestGoFirst' /\ ConversationFits'
  BY <1>1, AnswerTrims
<1> QED BY <1>1, <1>2, <1>3 DEF ExploreInv

\* A result that is cut has a length.
LEMMA CutResultCounts == ASSUME NEW len \in Nat PROVE CutResult(len) \in Nat
BY ExplorerAssumption DEF CutResult

\* A conversation that is left alone stays as it was.
LEMMA ConversationKept ==
  ASSUME UNCHANGED messages, OldestGoFirst, ConversationFits
  PROVE  OldestGoFirst' /\ ConversationFits'
<1>1. Results' = Results BY DEF Results
<1> QED BY <1>1 DEF OldestGoFirst, ConversationFits

LEMMA ExploreStep == ExploreInv /\ [ExplorerNext]_expVars => ExploreInv'
<1> SUFFICES ASSUME ExploreInv, [ExplorerNext]_expVars PROVE ExploreInv' OBVIOUS
<1>0. /\ fetched \in Seq(DOMAIN Site) /\ Len(fetched) <= MaxPages
      /\ texts \in SUBSET DOMAIN Site /\ texts \subseteq ToSet(fetched)
      /\ shown \in SUBSET Links
  BY DEF ExploreInv
<1>1. CASE StartExplorer
  <2>1. /\ ex = "start" /\ ex' \in {"ask", "nothing"}
        /\ messages' = <<Msg("system", 1), Msg("user", 1)>>
        /\ UNCHANGED <<turn, fetched, texts, shown>>
    BY <1>1 DEF StartExplorer
  <2>2. Msg("system", 1) \in Message /\ Msg("user", 1) \in Message BY DEF Msg, Message
  <2>3. messages' \in Seq(Message) /\ Len(messages') = 2 /\ messages'[2] = Msg("user", 1)
    BY <2>1, <2>2
  <2>4. Results' = {}
    <3>1. 3..(Len(messages') - 1) = {} BY <2>3
    <3> QED BY <3>1 DEF Results
  <2>5. ~Last(messages').cut BY <2>3 DEF Last, Msg
  <2>6. OldestGoFirst' /\ ConversationFits' BY <2>4, <2>5 DEF OldestGoFirst, ConversationFits
  <2> QED BY <2>1, <2>3, <2>6 DEF ExploreInv
<1>2. CASE Fetch
  <2>1. PICK urls \in Requests : Record(Visited(urls), CutResult(Size(Visited(urls).parts)))
    BY <1>2 DEF Fetch
  <2>2. urls \in Seq(ToSet(urls)) BY ExplorerAssumption
  <2>3. Visited(urls) \in Account BY <1>0, <2>2, VisitedKeeps
  <2>4. Visited(urls).parts \in Seq(ResultPart) BY <2>3 DEF Account, PageAccount
  <2>5. CutResult(Size(Visited(urls).parts)) \in Nat BY <2>4, SizeCounts, CutResultCounts
  <2> QED BY <2>1, <2>3, <2>5, RecordKeeps
<1>3. CASE ReadText
  <2>1. PICK url \in DOMAIN Site :
          LET acc == Visited(IF url \in texts THEN <<>> ELSE <<url>>)
              prelude == CutResult(Size(acc.parts))
          IN Record(acc, IF url \notin acc.texts THEN prelude
                         ELSE Lower(prelude + Lower(Site[url].len, TextChars) + Notice, MaxResult))
    BY <1>3 DEF ReadText
  <2> DEFINE urls == IF url \in texts THEN <<>> ELSE <<url>>
             acc == Visited(urls)
             prelude == CutResult(Size(acc.parts))
             len == IF url \notin acc.texts THEN prelude
                    ELSE Lower(prelude + Lower(Site[url].len, TextChars) + Notice, MaxResult)
  <2>2. urls \in Seq(DOMAIN Site)
    <3>1. <<>> \in Seq(DOMAIN Site) /\ <<url>> \in Seq(DOMAIN Site) OBVIOUS
    <3> QED BY <3>1
  <2>3. Record(acc, len) BY <2>1
  <2> HIDE DEF urls
  <2>4. acc \in Account BY <1>0, <2>2, VisitedKeeps
  <2>5. prelude \in Nat
    <3>1. acc.parts \in Seq(ResultPart) BY <2>4 DEF Account, PageAccount
    <3> QED BY <3>1, SizeCounts, CutResultCounts
  <2> HIDE DEF acc, prelude
  <2>6. len \in Nat
    <3>1. Site[url].len \in Nat /\ TextChars \in Nat /\ Notice \in Nat /\ MaxResult \in Nat
      BY ExplorerAssumption
    <3> DEFINE k == Lower(Site[url].len, TextChars)
    <3>2. k \in Nat BY <3>1 DEF Lower
    <3> HIDE DEF k
    <3>3. prelude + k + Notice \in Nat BY <2>5, <3>1, <3>2
    <3>4. Lower(prelude + k + Notice, MaxResult) \in Nat BY <3>1, <3>3 DEF Lower
    <3> QED BY <2>5, <3>4 DEF k
  <2> HIDE DEF len
  <2> QED BY <2>3, <2>4, <2>6, RecordKeeps
<1>4. CASE Other
  <2>1. PICK len \in {0, Notice, MaxResult} : Answer(len) /\ UNCHANGED <<fetched, texts, shown>>
    BY <1>4 DEF Other
  <2>2. len \in Nat BY ExplorerAssumption
  <2>3. /\ ex' \in {"ask", "nothing"} /\ turn' \in 0..Turns /\ (ex' = "ask" => turn' < Turns)
        /\ messages' \in Seq(Message) /\ Len(messages') >= 2
        /\ OldestGoFirst' /\ ConversationFits'
    BY <2>1, <2>2, AnswerTrims
  <2> QED BY <1>0, <2>1, <2>3 DEF ExploreInv
<1>5. CASE Final
  <2>1. /\ ex = "ask" /\ ex' = "report" /\ turn' = turn + 1
        /\ UNCHANGED <<messages, fetched, texts, shown>>
    BY <1>5 DEF Final
  <2>2. OldestGoFirst' /\ ConversationFits' BY <2>1, ConversationKept DEF ExploreInv
  <2>3. turn' \in 0..Turns BY <2>1, ExplorerAssumption DEF ExploreInv
  <2> QED BY <2>1, <2>2, <2>3 DEF ExploreInv
<1>6. CASE StopExplorer
  <2>1. /\ ex = "ask" /\ ex' \in {"nothing", "raised", "cancelled"}
        /\ UNCHANGED <<turn, messages, fetched, texts, shown>>
    BY <1>6 DEF StopExplorer
  <2>2. OldestGoFirst' /\ ConversationFits' BY <2>1, ConversationKept DEF ExploreInv
  <2> QED BY <2>1, <2>2 DEF ExploreInv
<1>7. CASE UNCHANGED expVars
  <2>1. UNCHANGED <<ex, turn, messages, fetched, texts, shown>> BY <1>7 DEF expVars
  <2>2. OldestGoFirst' /\ ConversationFits' BY <2>1, ConversationKept DEF ExploreInv
  <2> QED BY <2>1, <2>2 DEF ExploreInv
<1> QED BY <1>1, <1>2, <1>3, <1>4, <1>5, <1>6, <1>7 DEF ExplorerNext

LEMMA ExploreInvHolds == ExplorerSpec => []ExploreInv
BY ExploreBegins, ExploreStep, PTL DEF ExplorerSpec

\* A conversation that grows past the context gives up its oldest results first, and
\* until it fits or nothing is left to give up; no more pages are fetched than allowed,
\* nor a text held of a page that does not count (explore, _trim, _Pages.fetch).
THEOREM ConversationAlwaysTrimmed == ExplorerSpec => []ConversationIsTrimmed
<1>1. ExploreInv => ConversationIsTrimmed
  BY DEF ExploreInv, ExplorerTypeOK, ConversationIsTrimmed
<1> QED BY <1>1, ExploreInvHolds, PTL

(***************************************************************************)
(* Selections: the pool.  Every plan's first query is settled before any   *)
(* plan's second is looked at: it is in the pool, or like one that is, or  *)
(* the pool is full.                                                       *)
(***************************************************************************)
PlanPlaces == (DOMAIN given.plans) \X (1..PoolTop)
RankRow(r) == [p \in DOMAIN given.plans |-> <<p, r>>]

LEMMA RankRows ==
  ASSUME given.plans \in PlanSets, NEW r \in 1..PoolTop
  PROVE  /\ RankRow(r) \in Seq(PlanPlaces) /\ Len(RankRow(r)) = Len(given.plans)
         /\ \A p \in 1..Len(given.plans) : RankRow(r)[p] = <<p, r>>
<1> DEFINE n == Len(given.plans)
<1>1. given.plans \in Seq(Seq(Queries)) BY SelectionsAssumption
<1>2. n \in Nat /\ DOMAIN given.plans = 1..n BY <1>1
<1> HIDE DEF n
<1>3. RankRow(r) \in [1..n -> PlanPlaces] BY <1>2 DEF RankRow, PlanPlaces
<1>4. RankRow(r) \in Seq(PlanPlaces) /\ Len(RankRow(r)) = n BY <1>2, <1>3, NumberedIsSeq
<1>5. \A p \in 1..n : RankRow(r)[p] = <<p, r>> BY <1>2 DEF RankRow
<1> QED BY <1>4, <1>5 DEF n

\* Every plan's every rank, and no rank before a lower one.
LEMMA RanksAreInOrder ==
  ASSUME given.plans \in PlanSets
  PROVE  /\ Ranks \in Seq(PlanPlaces)
         /\ \A p \in DOMAIN given.plans, r \in 1..PoolTop : \E n \in 1..Len(Ranks) : Ranks[n] = <<p, r>>
         /\ \A m, n \in 1..Len(Ranks) : m <= n => Ranks[m][2] <= Ranks[n][2]
<1> DEFINE ss == [r \in 1..PoolTop |-> RankRow(r)]
           w == Len(given.plans)
<1>0. PoolTop \in Nat \ {0} BY SelectionsAssumption
<1>1. ss \in Seq(Seq(PlanPlaces)) /\ Len(ss) = PoolTop
  <2>1. ss \in [1..PoolTop -> Seq(PlanPlaces)] BY RankRows
  <2> HIDE DEF ss
  <2> QED BY <1>0, <2>1, NumberedIsSeq
<1>2. Ranks = FlattenSeq(ss) BY DEF Ranks, RankRow
<1>3. ss # <<>> BY <1>0, <1>1
<1>4. w \in Nat /\ DOMAIN given.plans = 1..w
  <2>1. given.plans \in Seq(Seq(Queries)) BY SelectionsAssumption
  <2> QED BY <2>1
<1>5. \A r \in 1..PoolTop : ss[r] = RankRow(r) OBVIOUS
<1> HIDE DEF ss
<1>6. Ranks \in Seq(PlanPlaces) /\ Range(Ranks) = UNION {Range(ss[r]) : r \in DOMAIN ss}
  BY <1>1, <1>2, <1>3, FlattenIsAll
<1>7. ASSUME NEW p \in DOMAIN given.plans, NEW r \in 1..PoolTop
      PROVE  \E n \in 1..Len(Ranks) : Ranks[n] = <<p, r>>
  <2>1. DOMAIN ss = 1..PoolTop BY <1>0, <1>1
  <2>2. p \in DOMAIN RankRow(r) /\ RankRow(r)[p] = <<p, r>> BY DEF RankRow
  <2>3. <<p, r>> \in Range(ss[r]) BY <1>5, <2>2 DEF Range
  <2>4. <<p, r>> \in Range(Ranks) BY <1>6, <2>1, <2>3
  <2>5. DOMAIN Ranks = 1..Len(Ranks) BY <1>6
  <2> QED BY <2>4, <2>5 DEF Range
<1>8. PICK g : Joins(g, ss) /\ Ranks = g[PoolTop] BY <1>1, <1>2, <1>3, FlattenJoins
<1>9. \A r \in 1..PoolTop : g[r] = IF r = 1 THEN ss[r] ELSE g[r - 1] \o ss[r]
  BY <1>1, <1>8 DEF Joins
<1> DEFINE Good(s, r) == /\ s \in Seq(PlanPlaces)
                         /\ \A m \in 1..Len(s) : s[m][2] <= r
                         /\ \A m, n \in 1..Len(s) : m <= n => s[m][2] <= s[n][2]
           P == {r \in 1..PoolTop : ~Good(g[r], r)}
<1>10. P = {}
  <2> SUFFICES ASSUME P # {} PROVE FALSE OBVIOUS
  <2>1. PICK r \in P : \A q \in P : r <= q
    <3>1. P \in SUBSET Nat OBVIOUS
    <3> HIDE DEF P
    <3> QED BY <3>1, LeastNumber
  <2>2. r \in 1..PoolTop /\ ~Good(g[r], r) OBVIOUS
  <2>3. /\ RankRow(r) \in Seq(PlanPlaces) /\ Len(RankRow(r)) = w
        /\ \A p \in 1..w : RankRow(r)[p] = <<p, r>>
    BY <2>2, RankRows
  <2>4. \A p \in 1..w : RankRow(r)[p][2] = r BY <2>3
  <2>5. CASE r = 1
    <3>1. g[r] = RankRow(r) BY <1>5, <1>9, <2>2, <2>5
    <3>2. Good(RankRow(r), r) BY <2>2, <2>3, <2>4
    <3> QED BY <2>2, <3>1, <3>2
  <2>6. CASE r # 1
    <3> DEFINE a == g[r - 1]
               b == RankRow(r)
    <3>1. r - 1 \in 1..PoolTop /\ ~(r <= r - 1) BY <1>0, <2>2, <2>6
    <3>2. r - 1 \notin P
      <4> HIDE DEF P
      <4> QED BY <2>1, <3>1
    <3>3. Good(a, r - 1) BY <3>1, <3>2
    <3>4. g[r] = a \o b BY <1>5, <1>9, <2>2, <2>6
    <3>a. b \in Seq(PlanPlaces) /\ Len(b) = w /\ \A p \in 1..w : b[p][2] = r BY <2>3, <2>4
    <3> HIDE DEF a, b
    <3>5. /\ a \o b \in Seq(PlanPlaces) /\ Len(a \o b) = Len(a) + Len(b)
          /\ \A i \in 1..Len(a) + Len(b) : (a \o b)[i] = IF i <= Len(a) THEN a[i] ELSE b[i - Len(a)]
      <4>1. a \in Seq(PlanPlaces) /\ b \in Seq(PlanPlaces) BY <3>3, <3>a
      <4> HIDE DEF P, Good
      <4> QED BY <4>1, TextsAreJoined
    <3>6. /\ Len(a) \in Nat /\ Len(b) = w /\ \A p \in 1..w : b[p][2] = r
          /\ \A m \in 1..Len(a) : a[m][2] \in Nat
      <4>1. \A m \in 1..Len(a) : a[m] \in PlanPlaces BY <3>3
      <4>2. \A m \in 1..Len(a) : a[m][2] \in Nat BY <4>1 DEF PlanPlaces
      <4>3. Len(a) \in Nat BY <3>3
      <4> QED BY <3>a, <4>2, <4>3
    <3> DEFINE c == a \o b
    <3>7. /\ c \in Seq(PlanPlaces) /\ Len(c) = Len(a) + w
          /\ \A i \in 1..Len(a) + w : c[i] = IF i <= Len(a) THEN a[i] ELSE b[i - Len(a)]
      BY <3>5, <3>6
    <3> HIDE DEF c
    <3>8. ASSUME NEW m \in 1..Len(c)
          PROVE  c[m][2] = IF m <= Len(a) THEN a[m][2] ELSE r
      <4>1. CASE m <= Len(a) BY <3>6, <3>7, <4>1
      <4>2. CASE ~(m <= Len(a))
        <5>1. m \in Int /\ m <= Len(a) + w BY <1>4, <3>6, <3>7
        <5>2. m - Len(a) \in 1..w BY <1>4, <3>6, <4>2, <5>1
        <5> QED BY <3>6, <3>7, <4>2, <5>2
      <4> QED BY <4>1, <4>2
    <3>9. ASSUME NEW m \in 1..Len(c) PROVE c[m][2] <= r
      <4>1. m <= Len(a) => m \in 1..Len(a) BY <3>6, <3>7
      <4>2. m \in 1..Len(a) => a[m][2] \in Nat /\ a[m][2] <= r - 1 BY <3>3, <3>6
      <4> QED BY <2>2, <3>8, <4>1, <4>2
    <3>10. ASSUME NEW m \in 1..Len(c), NEW n \in 1..Len(c), m <= n PROVE c[m][2] <= c[n][2]
      <4>1. CASE n <= Len(a)
        <5>1. m \in 1..Len(a) /\ n \in 1..Len(a) BY <3>6, <3>7, <3>10, <4>1
        <5>2. a[m][2] <= a[n][2] BY <3>3, <3>10, <5>1
        <5>3. m <= Len(a) BY <3>6, <5>1
        <5> QED BY <3>8, <4>1, <5>2, <5>3
      <4>2. CASE ~(n <= Len(a)) BY <3>8, <3>9, <4>2
      <4> QED BY <4>1, <4>2
    <3>11. Good(c, r) BY <3>7, <3>9, <3>10
    <3> QED BY <2>2, <3>4, <3>11 DEF c
  <2> QED BY <2>5, <2>6
<1>11. PoolTop \in 1..PoolTop /\ PoolTop \notin P
  <2>1. PoolTop \in 1..PoolTop BY <1>0
  <2> HIDE DEF P
  <2> QED BY <1>10, <2>1
<1>12. Good(Ranks, PoolTop) BY <1>8, <1>11
<1> QED BY <1>6, <1>7, <1>12

\* What is searched for repeats the query.
Found(so, q) == \E o \in ToSet(so) \cup given.run : Same(q, o)

\* The query at a place has been dealt with.
PlaceSettled(so, place) ==
  \/ place[2] > Len(given.plans[place[1]]) \/ Len(so) >= PoolCap
  \/ Found(so, given.plans[place[1]][place[2]])

\* A query that is no plan's first.
Later(q) == \A p \in DOMAIN given.plans : given.plans[p] # <<>> => given.plans[p][1] # q

PoolInv(so, n) ==
  /\ so \in Seq(Queries)
  /\ \A i, j \in 1..Len(so) : i # j => ~Same(so[i], so[j])
  /\ \A m \in 1..n : PlaceSettled(so, Ranks[m])
  /\ (\E i \in 1..Len(so) : Later(so[i])) =>
       \A p \in DOMAIN given.plans : given.plans[p] # <<>> => Found(so, given.plans[p][1])

\* One more query in the pool, and nothing of it is lost.
LEMMA PoolGrows ==
  ASSUME NEW so \in Seq(Queries), NEW q \in Queries
  PROVE  /\ Append(so, q) \in Seq(Queries) /\ Len(Append(so, q)) = Len(so) + 1
         /\ \A i \in 1..Len(so) + 1 : Append(so, q)[i] = IF i <= Len(so) THEN so[i] ELSE q
         /\ ToSet(Append(so, q)) = ToSet(so) \cup {q}
<1> DEFINE n == Len(so)
           t == Append(so, q)
<1>1. /\ n \in Nat /\ DOMAIN so = 1..n /\ t \in Seq(Queries) /\ Len(t) = n + 1
      /\ DOMAIN t = 1..(n + 1)
      /\ \A i \in 1..n + 1 : t[i] = IF i <= n THEN so[i] ELSE q
  OBVIOUS
<1> HIDE DEF n, t
<1>2. ASSUME NEW x \in ToSet(t) PROVE x \in ToSet(so) \cup {q}
  <2>1. PICK i \in 1..(n + 1) : x = t[i] BY <1>1 DEF ToSet
  <2>2. CASE i <= n
    <3>1. i \in 1..n BY <1>1, <2>2
    <3> QED BY <1>1, <2>1, <2>2, <3>1 DEF ToSet
  <2>3. CASE ~(i <= n) BY <1>1, <2>1, <2>3
  <2> QED BY <2>2, <2>3
<1>3. ASSUME NEW x \in ToSet(so) PROVE x \in ToSet(t)
  <2>1. PICK i \in 1..n : x = so[i] BY <1>1 DEF ToSet
  <2>2. i \in 1..(n + 1) /\ i <= n BY <1>1
  <2>3. t[i] = x BY <1>1, <2>1, <2>2
  <2> QED BY <1>1, <2>2, <2>3 DEF ToSet
<1>4. q \in ToSet(t)
  <2>1. n + 1 \in 1..(n + 1) /\ ~(n + 1 <= n) BY <1>1
  <2>2. t[n + 1] = q BY <1>1, <2>1
  <2> QED BY <1>1, <2>1, <2>2 DEF ToSet
<1>5. ToSet(t) = ToSet(so) \cup {q} BY <1>2, <1>3, <1>4
<1> QED BY <1>1, <1>5 DEF n, t

\* The next place is dealt with, and what was stays so.
LEMMA PoolStep ==
  ASSUME given.plans \in PlanSets, NEW n \in 1..Len(Ranks), NEW so, PoolInv(so, n - 1)
  PROVE  PoolInv(Pooled(so, Ranks[n]), n)
<1> DEFINE place == Ranks[n]
           plan == given.plans[place[1]]
           r == place[2]
           q == plan[r]
<1>1. given.plans \in Seq(Seq(Queries)) BY SelectionsAssumption
<1>2. Len(Ranks) \in Nat /\ place \in PlanPlaces
  <2>1. Ranks \in Seq(PlanPlaces) BY RanksAreInOrder
  <2> QED BY <2>1
<1>3. place[1] \in DOMAIN given.plans /\ r \in Nat \ {0} /\ PoolTop \in Nat \ {0}
  BY <1>2, SelectionsAssumption DEF PlanPlaces
<1>4. plan \in Seq(Queries) BY <1>1, <1>3
<1>5. so \in Seq(Queries) BY DEF PoolInv
<1>6. \A m \in 1..n : m \in 1..(n - 1) \/ m = n BY <1>2
<1>7. CASE \/ r > Len(plan) \/ Len(so) >= PoolCap
           \/ \E o \in ToSet(so) \cup given.run : Same(q, o)
  <2>1. Pooled(so, place) = so BY <1>7 DEF Pooled
  <2>2. PlaceSettled(so, place) BY <1>7 DEF PlaceSettled, Found
  <2>3. \A m \in 1..n : PlaceSettled(so, Ranks[m]) BY <1>6, <2>2 DEF PoolInv
  <2>4. PoolInv(so, n) BY <2>3 DEF PoolInv
  <2> QED BY <2>1, <2>4
<1>8. CASE ~(\/ r > Len(plan) \/ Len(so) >= PoolCap
             \/ \E o \in ToSet(so) \cup given.run : Same(q, o))
  <2> DEFINE t == Append(so, q)
  <2>1. Pooled(so, place) = t BY <1>8 DEF Pooled
  <2>2. q \in Queries
    <3>1. Len(plan) \in Nat BY <1>4
    <3>2. r \in 1..Len(plan) BY <1>3, <1>8, <3>1
    <3> QED BY <1>4, <3>2
  <2>3. ~Found(so, q) /\ Len(so) < PoolCap /\ Len(so) \in Nat /\ PoolCap \in Nat
    <3>1. Len(so) \in Nat BY <1>5
    <3> QED BY <1>8, <3>1, SelectionsAssumption DEF Found
  <2> HIDE DEF place, plan, r, q
  <2>4. /\ t \in Seq(Queries) /\ Len(t) = Len(so) + 1
        /\ \A i \in 1..Len(so) + 1 : t[i] = IF i <= Len(so) THEN so[i] ELSE q
        /\ ToSet(t) = ToSet(so) \cup {q}
    BY <1>5, <2>2, PoolGrows
  <2> HIDE DEF t
  <2>5. ASSUME NEW x, Found(so, x) PROVE Found(t, x) BY <2>4, <2>5 DEF Found
  <2>6. \A i \in 1..Len(so) : i \in DOMAIN so /\ so[i] \in ToSet(so) BY <1>5 DEF ToSet
  <2>7. ASSUME NEW i \in 1..Len(so) PROVE ~Same(q, so[i]) /\ ~Same(so[i], q)
    <3>1. ~Same(q, so[i]) BY <2>3, <2>6 DEF Found
    <3>2. {q, so[i]} = {so[i], q} OBVIOUS
    <3> QED BY <3>1, <3>2 DEF Same
  <2>8. ASSUME NEW i \in 1..Len(t), NEW j \in 1..Len(t), i # j PROVE ~Same(t[i], t[j])
    <3>1. /\ i <= Len(so) => i \in 1..Len(so) /\ t[i] = so[i]
          /\ j <= Len(so) => j \in 1..Len(so) /\ t[j] = so[j]
          /\ ~(i <= Len(so)) => i = Len(so) + 1 /\ t[i] = q
          /\ ~(j <= Len(so)) => j = Len(so) + 1 /\ t[j] = q
      BY <2>3, <2>4
    <3>2. CASE i <= Len(so) /\ j <= Len(so) BY <2>8, <3>1, <3>2 DEF PoolInv
    <3>3. CASE i <= Len(so) /\ ~(j <= Len(so)) BY <2>7, <3>1, <3>3
    <3>4. CASE ~(i <= Len(so)) /\ j <= Len(so) BY <2>7, <3>1, <3>4
    <3>5. CASE ~(i <= Len(so)) /\ ~(j <= Len(so)) BY <2>8, <3>1, <3>5
    <3> QED BY <3>2, <3>3, <3>4, <3>5
  <2>9. Found(t, q)
    <3>1. Same(q, q) BY DEF Same
    <3> QED BY <2>4, <3>1 DEF Found
  <2>10. ASSUME NEW m \in 1..n PROVE PlaceSettled(t, Ranks[m])
    <3>1. CASE m = n BY <2>9, <3>1 DEF PlaceSettled, place, plan, r, q
    <3>2. CASE m \in 1..(n - 1)
      <4>1. PlaceSettled(so, Ranks[m]) BY <3>2 DEF PoolInv
      <4>2. Len(so) >= PoolCap => Len(t) >= PoolCap BY <2>3
      <4> QED BY <2>3, <2>5, <4>1 DEF PlaceSettled
    <3> QED BY <1>6, <3>1, <3>2
  <2>11. ASSUME NEW i \in 1..Len(t), Later(t[i]),
                NEW p \in DOMAIN given.plans, given.plans[p] # <<>>
         PROVE  Found(t, given.plans[p][1])
    <3>1. CASE i <= Len(so)
      <4>1. i \in 1..Len(so) /\ t[i] = so[i] BY <2>3, <2>4, <3>1
      <4>2. Found(so, given.plans[p][1]) BY <2>11, <4>1 DEF PoolInv
      <4> QED BY <2>5, <4>2
    <3>2. CASE ~(i <= Len(so))
      <4>1. Later(q) BY <2>3, <2>4, <2>11, <3>2
      <4>2. given.plans[place[1]] = plan /\ q = plan[r] BY DEF plan, q
      <4>3. plan # <<>>
        <5>1. r \in Nat \ {0} /\ ~(r > Len(plan)) BY <1>3, <1>8
        <5>2. plan = <<>> => Len(plan) = 0 OBVIOUS
        <5> QED BY <5>1, <5>2
      <4>4. r # 1 BY <1>3, <4>1, <4>2, <4>3 DEF Later
      <4>5. 1 \in 1..PoolTop BY <1>3
      <4>6. PICK m \in 1..Len(Ranks) : Ranks[m] = <<p, 1>> BY <2>11, <4>5, RanksAreInOrder
      <4>7. m < n
        <5>1. n <= m => Ranks[n][2] <= Ranks[m][2] BY RanksAreInOrder
        <5>2. Ranks[m][2] = 1 /\ Ranks[n][2] = r BY <4>6 DEF r, place
        <5>3. m \in Nat /\ n \in Nat BY <1>2
        <5> QED BY <1>3, <4>4, <5>1, <5>2, <5>3
      <4>8. m \in 1..(n - 1) BY <1>2, <4>7
      <4>9. PlaceSettled(so, <<p, 1>>) BY <4>6, <4>8 DEF PoolInv
      <4>10. Len(given.plans[p]) >= 1
        <5>1. given.plans[p] \in Seq(Queries) BY <1>1
        <5>2. given.plans[p] = <<>> \/ Len(given.plans[p]) >= 1
          <6> DEFINE v == given.plans[p]
          <6> HIDE DEF v
          <6>1. v \in Seq(Queries) => v = <<>> \/ Len(v) >= 1 OBVIOUS
          <6> QED BY <5>1, <6>1 DEF v
        <5> QED BY <2>11, <5>2
      <4>11. ~(1 > Len(given.plans[p]))
        <5>1. Len(given.plans[p]) \in Nat BY <1>1
        <5> QED BY <4>10, <5>1
      <4>12. ~(Len(so) >= PoolCap) BY <2>3
      <4>13. Found(so, given.plans[p][1]) BY <4>9, <4>11, <4>12 DEF PlaceSettled
      <4> QED BY <2>5, <4>13
    <3> QED BY <3>1, <3>2
  <2>12. PoolInv(t, n) BY <2>4, <2>8, <2>10, <2>11 DEF PoolInv
  <2> QED BY <2>1, <2>12 DEF place, t, plan, r, q
<1> QED BY <1>7, <1>8

IsPool(g) == g = [n \in 0..Len(Ranks) |-> IF n = 0 THEN <<>> ELSE Pooled(g[n - 1], Ranks[n])]

LEMMA PoolIsMade ==
  ASSUME given.plans \in PlanSets
  PROVE  PoolInv(PooledQueries, Len(Ranks))
<1> DEFINE N == Len(Ranks)
           S == Seq(Queries)
           F == [p \in (1..N) \X S |-> Pooled(p[2], Ranks[p[1]])]
<1>1. given.plans \in Seq(Seq(Queries)) BY SelectionsAssumption
<1>2. N \in Nat /\ \A i \in 1..N : Ranks[i] \in PlanPlaces
  <2>1. Ranks \in Seq(PlanPlaces) BY RanksAreInOrder
  <2> QED BY <2>1
<1>3. ASSUME NEW i \in 1..N, NEW x \in S
      PROVE  F[<<i, x>>] = Pooled(x, Ranks[i]) /\ F[<<i, x>>] \in S
  <2> DEFINE place == Ranks[i]
             plan == given.plans[place[1]]
             r == place[2]
  <2>1. F[<<i, x>>] = Pooled(x, place) OBVIOUS
  <2>2. Pooled(x, place) \in S
    <3>1. place[1] \in DOMAIN given.plans /\ r \in Nat \ {0} BY <1>2, SelectionsAssumption DEF PlanPlaces
    <3>2. plan \in Seq(Queries) BY <1>1, <3>1
    <3>3. ~(r > Len(plan)) => plan[r] \in Queries
      <4>1. Len(plan) \in Nat BY <3>2
      <4>2. ~(r > Len(plan)) => r \in 1..Len(plan) BY <3>1, <4>1
      <4> QED BY <3>2, <4>2
    <3>4. ~(r > Len(plan)) => Append(x, plan[r]) \in S BY <3>3
    <3>5. Pooled(x, place) = x \/ (~(r > Len(plan)) /\ Pooled(x, place) = Append(x, plan[r]))
      BY DEF Pooled
    <3> QED BY <3>4, <3>5
  <2> QED BY <2>1, <2>2
<1>4. PICK h \in [0..N -> S] : Iterates(h, <<>>, F, N)
  <2>1. <<>> \in S OBVIOUS
  <2> HIDE DEF F, N, S
  <2> QED BY <1>2, <1>3, <2>1, IteratesExist
<1>5. IsPool(h)
  <2>1. h = [i \in 0..N |-> h[i]] OBVIOUS
  <2>2. ASSUME NEW i \in 0..N
        PROVE  h[i] = IF i = 0 THEN <<>> ELSE Pooled(h[i - 1], Ranks[i])
    <3>1. h[i] = IF i = 0 THEN <<>> ELSE F[<<i, h[i - 1]>>]
      <4> HIDE DEF F
      <4> QED BY <1>4 DEF Iterates
    <3>2. CASE i = 0 BY <3>1, <3>2
    <3>3. CASE i # 0
      <4>1. i \in 1..N /\ i - 1 \in 0..N BY <1>2, <3>3
      <4>2. h[i - 1] \in S BY <4>1
      <4>3. F[<<i, h[i - 1]>>] = Pooled(h[i - 1], Ranks[i]) BY <1>3, <4>1, <4>2
      <4> QED BY <3>1, <3>3, <4>3
    <3> QED BY <3>2, <3>3
  <2> QED BY <2>1, <2>2 DEF IsPool
<1> DEFINE k == CHOOSE g : IsPool(g)
<1>6. PooledQueries = k[N] BY DEF PooledQueries, PoolFrom, IsPool
<1>7. IsPool(k) BY <1>5
<1> HIDE DEF k, F
<1>8. \A n \in 0..N : k[n] = IF n = 0 THEN <<>> ELSE Pooled(k[n - 1], Ranks[n])
  BY <1>7 DEF IsPool
<1> DEFINE P == {n \in 0..N : ~PoolInv(k[n], n)}
<1>9. P = {}
  <2> SUFFICES ASSUME P # {} PROVE FALSE OBVIOUS
  <2>1. PICK n \in P : \A m \in P : n <= m
    <3>1. P \in SUBSET Nat OBVIOUS
    <3> HIDE DEF P
    <3> QED BY <3>1, LeastNumber
  <2>2. n \in 0..N /\ ~PoolInv(k[n], n) OBVIOUS
  <2>3. CASE n = 0
    <3>1. k[n] = <<>> BY <1>8, <2>2, <2>3
    <3>2. PoolInv(<<>>, 0) BY DEF PoolInv
    <3> QED BY <2>2, <2>3, <3>1, <3>2
  <2>4. CASE n # 0
    <3>1. n \in 1..N /\ n - 1 \in 0..N /\ ~(n <= n - 1) BY <1>2, <2>2, <2>4
    <3>2. n - 1 \notin P
      <4> HIDE DEF P
      <4> QED BY <2>1, <3>1
    <3>3. PoolInv(k[n - 1], n - 1) BY <3>1, <3>2
    <3>4. k[n] = Pooled(k[n - 1], Ranks[n]) BY <1>8, <2>2, <2>4
    <3>5. PoolInv(Pooled(k[n - 1], Ranks[n]), n) BY <3>1, <3>3, PoolStep
    <3> QED BY <2>2, <3>4, <3>5
  <2> QED BY <2>3, <2>4
<1>10. N \in 0..N /\ N \notin P
  <2>1. N \in 0..N BY <1>2
  <2> HIDE DEF P
  <2> QED BY <1>9, <2>1
<1> QED BY <1>6, <1>10

\* What holds of the pool once every place has been looked at.
LEMMA PoolKeepsToTheRule ==
  ASSUME given.plans \in PlanSets, kept = PooledQueries
  PROVE  LET searched == ToSet(kept) \cup given.run
             covered(q) == \E o \in searched : Same(q, o)
         IN /\ \A i, j \in DOMAIN kept : i # j => ~Same(kept[i], kept[j])
            /\ Len(kept) < PoolCap => \A p \in ToSet(given.plans) : \A r \in DOMAIN p :
                                        r <= PoolTop => covered(p[r])
            /\ (\E q \in ToSet(kept) : \A p \in ToSet(given.plans) : p # <<>> => p[1] # q) =>
                 \A p \in ToSet(given.plans) : p # <<>> => covered(p[1])
<1>1. PoolInv(kept, Len(Ranks)) BY PoolIsMade
<1>2. given.plans \in Seq(Seq(Queries)) BY SelectionsAssumption
<1>3. kept \in Seq(Queries) /\ DOMAIN kept = 1..Len(kept) /\ Len(kept) \in Nat
  <2>1. kept \in Seq(Queries) BY <1>1 DEF PoolInv
  <2> QED BY <2>1
<1>4. \A i, j \in DOMAIN kept : i # j => ~Same(kept[i], kept[j]) BY <1>1, <1>3 DEF PoolInv
<1>5. ASSUME Len(kept) < PoolCap, NEW p \in ToSet(given.plans), NEW r \in DOMAIN p, r <= PoolTop
      PROVE  Found(kept, p[r])
  <2>1. PICK i \in DOMAIN given.plans : p = given.plans[i] BY DEF ToSet
  <2>2. p \in Seq(Queries) BY <1>2, <2>1
  <2>3. Len(p) \in Nat /\ r \in 1..Len(p) BY <2>2
  <2>4. r \in 1..PoolTop BY <1>5, <2>3, SelectionsAssumption
  <2>5. PICK n \in 1..Len(Ranks) : Ranks[n] = <<i, r>> BY <2>4, RanksAreInOrder
  <2>6. PlaceSettled(kept, <<i, r>>) BY <1>1, <2>5 DEF PoolInv
  <2>7. ~(r > Len(p)) /\ ~(Len(kept) >= PoolCap) BY <1>3, <1>5, <2>3, SelectionsAssumption
  <2> QED BY <2>1, <2>6, <2>7 DEF PlaceSettled
<1>6. ASSUME NEW q \in ToSet(kept), \A p \in ToSet(given.plans) : p # <<>> => p[1] # q,
             NEW p \in ToSet(given.plans), p # <<>>
      PROVE  Found(kept, p[1])
  <2>1. PICK i \in 1..Len(kept) : q = kept[i] BY <1>3 DEF ToSet
  <2>2. Later(kept[i]) BY <1>6, <2>1 DEF Later, ToSet
  <2>3. PICK j \in DOMAIN given.plans : p = given.plans[j] BY DEF ToSet
  <2> QED BY <1>1, <1>6, <2>2, <2>3 DEF PoolInv
<1> QED BY <1>4, <1>5, <1>6 DEF Found

(***************************************************************************)
(* Selections: the queries of one plan.  In a list sorted by urgency, the  *)
(* first with a query is as urgent as any, and what a cap keeps of the     *)
(* firsts comes before what it drops.                                      *)
(***************************************************************************)
PlanItem == [query : Queries, priority : 1..3]

LEMMA SortedByPriority ==
  ASSUME NEW items \in Seq(PlanItem)
  PROVE  /\ ByPriority(items) \in Seq(PlanItem) /\ Len(ByPriority(items)) = Len(items)
         /\ \A i \in DOMAIN items : \E k \in 1..Len(items) : ByPriority(items)[k] = items[i]
         /\ \A k, m \in 1..Len(items) :
              k <= m => ByPriority(items)[k].priority <= ByPriority(items)[m].priority
<1> DEFINE n == Len(items)
           v == [i \in DOMAIN items |-> items[i].priority]
           o == Rising(v)
           s == ByPriority(items)
<1>1. n \in Nat /\ DOMAIN items = 1..n /\ \A i \in 1..n : items[i] \in PlanItem OBVIOUS
<1>2. s = [k \in 1..n |-> items[o[k]]] BY DEF ByPriority
<1>3. v \in [1..n -> Int] /\ \A i \in 1..n : v[i] = items[i].priority
  <2>1. \A i \in 1..n : items[i].priority \in Int BY <1>1 DEF PlanItem
  <2> QED BY <1>1, <2>1
<1> HIDE DEF n, v, s
<1>4. /\ o \in [1..n -> 1..n] /\ \A i \in 1..n : \E k \in 1..n : o[k] = i
      /\ \A k, m \in 1..n : k <= m => v[o[k]] <= v[o[m]]
  BY <1>1, <1>3, RisingLists
<1> HIDE DEF o
<1>5. s \in [1..n -> PlanItem] BY <1>1, <1>2, <1>4
<1>6. s \in Seq(PlanItem) /\ Len(s) = n BY <1>1, <1>5, NumberedIsSeq
<1>7. \A i \in DOMAIN items : \E k \in 1..n : s[k] = items[i] BY <1>1, <1>2, <1>4
<1>8. ASSUME NEW k \in 1..n, NEW m \in 1..n, k <= m PROVE s[k].priority <= s[m].priority
  <2>1. o[k] \in 1..n /\ o[m] \in 1..n /\ s[k] = items[o[k]] /\ s[m] = items[o[m]]
    BY <1>2, <1>4
  <2>2. s[k].priority = v[o[k]] /\ s[m].priority = v[o[m]] BY <1>3, <2>1
  <2>3. v[o[k]] <= v[o[m]] BY <1>4, <1>8
  <2> QED BY <2>2, <2>3
<1> QED BY <1>6, <1>7, <1>8 DEF n, s

LEMMA CapKeepsTheUrgent ==
  ASSUME given.items \in Seq(PlanItem), kept = Dedupe
  PROVE  \A i \in ToSet(given.items) :
           \/ \E k \in ToSet(kept) : k.query = i.query /\ k.priority <= i.priority
           \/ Len(kept) = PoolCap /\ \A k \in ToSet(kept) : k.priority <= i.priority
<1> DEFINE s == ByPriority(given.items)
           n == Len(given.items)
           F == Firsts(s)
           f == Ascending(F)
           c == Cardinality(F)
           t == [k \in 1..c |-> s[f[k]]]
           e == IF c < PoolCap THEN c ELSE PoolCap
<1>1. /\ s \in Seq(PlanItem) /\ Len(s) = n
      /\ \A i \in DOMAIN given.items : \E k \in 1..n : s[k] = given.items[i]
      /\ \A k, m \in 1..n : k <= m => s[k].priority <= s[m].priority
  BY SortedByPriority
<1>2. n \in Nat /\ DOMAIN s = 1..n /\ \A k \in 1..n : s[k].priority \in Int
  <2>1. n \in Nat /\ DOMAIN s = 1..n
    <3> HIDE DEF s
    <3> QED BY <1>1
  <2>2. \A k \in 1..n : s[k] \in PlanItem
    <3> HIDE DEF s, n
    <3> QED BY <1>1
  <2> QED BY <2>1, <2>2 DEF PlanItem
<1>3. kept = CapInOrder(t) BY DEF Dedupe
<1> HIDE DEF s, n
<1>4. F \in SUBSET (1..n) /\ F \in SUBSET Nat BY <1>2 DEF Firsts
<1>5. IsFiniteSet(F) /\ c \in Nat
  <2>1. 1 \in Int /\ n \in Int BY <1>2
  <2>2. IsFiniteSet(1..n) BY <2>1, FS_Interval
  <2> HIDE DEF F
  <2> QED BY <1>4, <2>2, FS_Subset, FS_CardinalityType
<1>6. /\ f \in [1..c -> F]
      /\ \A x \in F : \E k \in 1..c : f[k] = x
  <2> HIDE DEF F
  <2> QED BY <1>4, <1>5, AscendingLists
<1>7. ASSUME NEW k \in 1..c, NEW m \in 1..c, k <= m PROVE f[k] <= f[m]
  <2> HIDE DEF F
  <2> QED BY <1>4, <1>5, <1>7, AscendingLists
<1>8. t \in Seq(PlanItem) /\ Len(t) = c
  <2>1. \A k \in 1..n : s[k] \in PlanItem BY <1>1, <1>2
  <2>2. t \in [1..c -> PlanItem]
    <3> HIDE DEF F, f, c
    <3> QED BY <1>4, <1>6, <2>1
  <2> HIDE DEF t, c
  <2> QED BY <1>5, <2>2, NumberedIsSeq
<1>9. \A k \in 1..c : t[k] = s[f[k]] OBVIOUS
<1>10. e \in Nat /\ e <= c /\ (e = c \/ e = PoolCap)
  <2> HIDE DEF c
  <2> QED BY <1>5, SelectionsAssumption
<1> HIDE DEF F, f, c, t
<1>11. kept = SubSeq(t, 1, e) BY <1>3, <1>8 DEF CapInOrder
<1> HIDE DEF e
<1>12. Len(kept) = e /\ DOMAIN kept = 1..e /\ \A k \in 1..e : kept[k] = t[k]
  BY <1>8, <1>10, <1>11, <1>5
<1>13. ASSUME NEW i \in ToSet(given.items)
       PROVE  \/ \E k \in ToSet(kept) : k.query = i.query /\ k.priority <= i.priority
              \/ Len(kept) = PoolCap /\ \A k \in ToSet(kept) : k.priority <= i.priority
  <2>1. PICK p \in 1..n : s[p] = i BY <1>1 DEF ToSet
  <2> DEFINE Q == {q \in 1..n : s[q].query = i.query}
  <2>2. PICK q \in Q : \A r \in Q : q <= r
    <3>1. Q \in SUBSET Nat /\ Q # {} BY <2>1
    <3> HIDE DEF Q
    <3> QED BY <3>1, LeastNumber
  <2>3. q \in 1..n /\ s[q].query = i.query /\ q <= p BY <2>1, <2>2
  <2>4. s[q].priority <= i.priority BY <1>1, <2>1, <2>3
  <2>5. q \in F
    <3>1. ASSUME NEW j \in 1..(q - 1) PROVE s[j].query # s[q].query
      <4>1. j \in 1..n /\ ~(q <= j) BY <1>2, <2>3
      <4>2. j \notin Q
        <5> HIDE DEF Q
        <5> QED BY <2>2, <4>1
      <4> QED BY <2>3, <4>1, <4>2
    <3> QED BY <1>2, <2>3, <3>1 DEF F, Firsts
  <2>6. PICK m \in 1..c : f[m] = q BY <1>6, <2>5
  <2>7. CASE m <= e
    <3>1. m \in 1..e BY <1>5, <1>10, <2>7
    <3>2. kept[m] = s[q] BY <1>9, <1>12, <2>6, <3>1
    <3>3. s[q] \in ToSet(kept) BY <1>12, <3>1, <3>2 DEF ToSet
    <3> QED BY <2>3, <2>4, <3>3
  <2>8. CASE ~(m <= e)
    <3>1. e = PoolCap BY <1>5, <1>10, <2>8
    <3>2. ASSUME NEW k \in ToSet(kept) PROVE k.priority <= i.priority
      <4>1. PICK j \in 1..e : k = kept[j] BY <1>12 DEF ToSet
      <4>2. j \in 1..c /\ j <= m BY <1>5, <1>10, <2>8, <4>1
      <4>3. k = s[f[j]] BY <1>9, <1>12, <4>1, <4>2
      <4>4. f[j] <= q BY <1>7, <2>6, <4>2
      <4>5. f[j] \in 1..n BY <1>4, <1>6, <4>2
      <4>6. k.priority <= s[q].priority BY <1>1, <2>3, <4>3, <4>4, <4>5
      <4>7. k.priority \in Int /\ s[q].priority \in Int /\ i.priority \in Int
        BY <1>2, <2>1, <2>3, <4>3, <4>5
      <4> QED BY <2>4, <4>6, <4>7
    <3> QED BY <1>12, <3>1, <3>2
  <2> QED BY <2>7, <2>8
<1> QED BY <1>13

(***************************************************************************)
(* Selections: the sections.  Whatever is settled is taken from what is    *)
(* left, and the shares of what is left add up to it but for what rounding *)
(* loses and the floor adds.                                               *)
(***************************************************************************)
SectionLength == [i \in DOMAIN given.sections |-> given.sections[i].len]
SectionDemand == [i \in DOMAIN given.sections |-> given.sections[i].weight * given.sections[i].len]

\* A section's part of what is left, before the floor.
PartOf(i, is, left) == (left * SectionDemand[i]) \div Demand(is)

LEMMA SectionsHaveText ==
  ASSUME given.sections \in Sections
  PROVE  /\ Len(given.sections) \in Nat /\ DOMAIN given.sections = 1..Len(given.sections)
         /\ IsFiniteSet(DOMAIN given.sections)
         /\ Cardinality(DOMAIN given.sections) = Len(given.sections)
         /\ \A i \in DOMAIN given.sections :
              /\ SectionLength[i] \in Nat /\ SectionLength[i] = given.sections[i].len
              /\ SectionDemand[i] \in Nat /\ SectionDemand[i] >= 1
              /\ SectionDemand[i] = given.sections[i].weight * given.sections[i].len
<1> DEFINE s == given.sections
           n == Len(s)
<1>1. s \in Seq([weight : Nat \ {0}, len : Nat \ {0}]) BY SelectionsAssumption
<1>2. n \in Nat /\ DOMAIN s = 1..n BY <1>1
<1>3. IsFiniteSet(1..n) /\ Cardinality(1..n) = n
  <2> HIDE DEF n
  <2>1. 1 \in Int /\ n \in Int BY <1>2
  <2> QED BY <1>2, <2>1, FS_Interval
<1>4. ASSUME NEW i \in DOMAIN s
      PROVE  s[i].len \in Nat /\ s[i].weight * s[i].len \in Nat /\ s[i].weight * s[i].len >= 1
  <2> DEFINE w == s[i].weight
             l == s[i].len
  <2>1. s[i] \in [weight : Nat \ {0}, len : Nat \ {0}]
    <3> DEFINE R == [weight : Nat \ {0}, len : Nat \ {0}]
    <3>1. s \in Seq(R) BY <1>1
    <3>2. i \in 1..n /\ n = Len(s) BY <1>2
    <3> HIDE DEF R, s, n
    <3>3. s[i] \in R BY <3>1, <3>2
    <3> QED BY <3>3 DEF R
  <2>2. w \in Nat \ {0} /\ l \in Nat \ {0} BY <2>1
  <2> HIDE DEF w, l
  <2>3. w * l \in Nat /\ w * l >= 1
    <3>1. w - 1 \in Nat /\ (w - 1) * l \in Nat BY <2>2
    <3>2. w * l = (w - 1) * l + l BY <2>2
    <3> QED BY <2>2, <3>1, <3>2
  <2> QED BY <2>2, <2>3 DEF w, l
<1> QED BY <1>2, <1>3, <1>4 DEF SectionLength, SectionDemand

LEMMA SomeSections ==
  ASSUME given.sections \in Sections, NEW is, is \subseteq DOMAIN given.sections
  PROVE  /\ IsFiniteSet(is) /\ Cardinality(is) \in Nat
         /\ LenOf(is) = SumFunctionOnSet(SectionLength, is) /\ LenOf(is) \in Nat
         /\ Demand(is) = SumFunctionOnSet(SectionDemand, is) /\ Demand(is) \in Nat
         /\ is # {} => Demand(is) >= 1
<1>1. IsFiniteSet(is) /\ Cardinality(is) \in Nat
  BY SectionsHaveText, FS_Subset, FS_CardinalityType
<1>2. \A i \in is : /\ SectionLength[i] \in Nat /\ SectionLength[i] = given.sections[i].len
                    /\ SectionDemand[i] \in Nat /\ SectionDemand[i] >= 1
                    /\ SectionDemand[i] = given.sections[i].weight * given.sections[i].len
  BY SectionsHaveText
<1> DEFINE f == [i \in is |-> given.sections[i].len]
           g == [i \in is |-> given.sections[i].weight * given.sections[i].len]
<1>3. \A i \in is : f[i] = SectionLength[i] /\ g[i] = SectionDemand[i] BY <1>2
<1>4. LenOf(is) = SumFunctionOnSet(f, is) /\ Demand(is) = SumFunctionOnSet(g, is)
  BY DEF LenOf, Demand, SumFunction
<1> HIDE DEF f, g
<1>5. SumFunctionOnSet(f, is) = SumFunctionOnSet(SectionLength, is)
  <2>1. \A i \in is : SectionLength[i] \in Int /\ f[i] = SectionLength[i] BY <1>2, <1>3
  <2> QED BY <1>1, <2>1, SumSame
<1>6. SumFunctionOnSet(g, is) = SumFunctionOnSet(SectionDemand, is)
  <2>1. \A i \in is : SectionDemand[i] \in Int /\ g[i] = SectionDemand[i] BY <1>2, <1>3
  <2> QED BY <1>1, <2>1, SumSame
<1>7. SumFunctionOnSet(SectionLength, is) \in Nat /\ SumFunctionOnSet(SectionDemand, is) \in Nat
  <2>1. is \subseteq is OBVIOUS
  <2>2. \A i \in is : SectionLength[i] \in Nat /\ SectionDemand[i] \in Nat BY <1>2
  <2> QED BY <1>1, <2>1, <2>2, SumMonotone
<1>8. ASSUME is # {} PROVE SumFunctionOnSet(SectionDemand, is) >= 1
  <2>1. PICK i \in is : TRUE BY <1>8
  <2>2. SectionDemand[i] <= SumFunctionOnSet(SectionDemand, is)
    <3>1. \A j \in is : SectionDemand[j] \in Nat BY <1>2
    <3> QED BY <1>1, <2>1, <3>1, PartBelowSum
  <2>3. SectionDemand[i] \in Nat /\ SectionDemand[i] >= 1 BY <1>2, <2>1
  <2> QED BY <1>7, <2>2, <2>3
<1> QED BY <1>1, <1>4, <1>5, <1>6, <1>7, <1>8

\* What division leaves.
LEMMA PartRounds ==
  ASSUME NEW x \in Int, NEW d \in Nat, d >= 1
  PROVE  x \div d \in Int /\ d * (x \div d) <= x /\ x + 1 <= d * (x \div d + 1)
<1> DEFINE q == x \div d
<1>1. q \in Int /\ d * q <= x /\ x < d * q + d OBVIOUS
<1> HIDE DEF q
<1>2. d * (q + 1) = d * q + d /\ d * q \in Int BY <1>1
<1> QED BY <1>1, <1>2 DEF q

\* The parts add up to what is left, but for less than one of each section.
LEMMA PartsAddUp ==
  ASSUME given.sections \in Sections, NEW is, is \subseteq DOMAIN given.sections, is # {},
         NEW left \in Int, NEW part, \A i \in is : part[i] = PartOf(i, is, left)
  PROVE  /\ \A i \in is : part[i] \in Int
         /\ SumFunctionOnSet(part, is) \in Int
         /\ SumFunctionOnSet(part, is) <= left
         /\ left < SumFunctionOnSet(part, is) + Cardinality(is)
<1> DEFINE d == Demand(is)
           c == Cardinality(is)
           S(f) == SumFunctionOnSet(f, is)
           a == SectionDemand
           f1 == [i \in is |-> d * part[i]]
           g1 == [i \in is |-> left * a[i]]
           one == [i \in is |-> 1]
           e == [i \in is |-> part[i] + 1]
           f2 == [i \in is |-> d * e[i]]
           g2 == [i \in is |-> g1[i] + 1]
<1>1. IsFiniteSet(is) /\ c \in Nat /\ d \in Nat /\ d >= 1 /\ S(a) = d BY SomeSections
<1>2. \A i \in is : a[i] \in Nat BY SectionsHaveText
<1>3. c >= 1
  <2>1. c # 0 BY <1>1, FS_EmptySet
  <2> QED BY <1>1, <2>1
<1> HIDE DEF d, c, a
<1>4. ASSUME NEW i \in is
      PROVE  /\ part[i] \in Int /\ left * a[i] \in Int /\ d * part[i] <= left * a[i]
             /\ left * a[i] + 1 <= d * (part[i] + 1)
             /\ d * part[i] \in Int /\ d * (part[i] + 1) \in Int
  <2> DEFINE x == left * a[i]
             q == x \div d
  <2>1. x \in Int BY <1>2
  <2>2. part[i] = q BY DEF PartOf, d, a
  <2> HIDE DEF x
  <2>3. q \in Int /\ d * q <= x /\ x + 1 <= d * (q + 1) BY <1>1, <2>1, PartRounds
  <2> HIDE DEF q
  <2>4. d * q \in Int /\ d * (q + 1) \in Int BY <1>1, <2>3
  <2> QED BY <2>1, <2>2, <2>3, <2>4 DEF x
<1>5. \A i \in is : part[i] \in Int BY <1>4
<1>6. /\ \A i \in is : f1[i] \in Int /\ g1[i] \in Int /\ f1[i] <= g1[i]
      /\ \A i \in is : f2[i] \in Int /\ g2[i] \in Int /\ g2[i] <= f2[i]
      /\ \A i \in is : f1[i] = d * part[i] /\ g1[i] = left * a[i]
      /\ \A i \in is : e[i] \in Int /\ e[i] = part[i] + one[i] /\ f2[i] = d * e[i]
      /\ \A i \in is : one[i] \in Int /\ one[i] = 1 /\ g2[i] = g1[i] + one[i]
  BY <1>4
<1> HIDE DEF f1, f2, g1, g2, e, one
<1>7. S(part) \in Int BY <1>1, <1>5, SumType
<1>8. S(f1) = d * S(part)
  <2>1. d \in Int BY <1>1
  <2>2. \A i \in is : f1[i] = d * part[i] BY <1>6
  <2> QED BY <1>1, <1>5, <2>1, <2>2, SumTimes
<1>9. S(g1) = left * d
  <2>1. \A i \in is : a[i] \in Int BY <1>2
  <2>2. \A i \in is : g1[i] = left * a[i] BY <1>6
  <2>3. S(g1) = left * S(a) BY <1>1, <2>1, <2>2, SumTimes
  <2> QED BY <1>1, <2>3
<1>10. S(f1) <= S(g1)
  <2>1. \A i \in is : f1[i] \in Int /\ g1[i] \in Int BY <1>6
  <2>2. \A i \in is : f1[i] <= g1[i] BY <1>6
  <2> QED BY <1>1, <2>1, <2>2, SumBelow
<1>11. S(one) = c
  <2>1. \A i \in is : one[i] = 1 BY <1>6
  <2>2. S(one) = 1 * Cardinality(is) BY <1>1, <2>1, SumAlike
  <2> QED BY <1>1, <2>2 DEF c
<1>12. S(e) = S(part) + c
  <2>1. \A i \in is : part[i] \in Int /\ one[i] \in Int BY <1>5, <1>6
  <2>2. \A i \in is : e[i] = part[i] + one[i] BY <1>6
  <2>3. S(e) = S(part) + S(one) BY <1>1, <2>1, <2>2, SumPlus
  <2> QED BY <1>11, <2>3
<1>13. S(f2) = d * S(e)
  <2>1. d \in Int BY <1>1
  <2>2. \A i \in is : e[i] \in Int BY <1>6
  <2>3. \A i \in is : f2[i] = d * e[i] BY <1>6
  <2> QED BY <1>1, <2>1, <2>2, <2>3, SumTimes
<1>14. S(g2) = S(g1) + c
  <2>1. \A i \in is : g1[i] \in Int /\ one[i] \in Int BY <1>6
  <2>2. \A i \in is : g2[i] = g1[i] + one[i] BY <1>6
  <2>3. S(g2) = S(g1) + S(one) BY <1>1, <2>1, <2>2, SumPlus
  <2> QED BY <1>11, <2>3
<1>15. S(g2) <= S(f2)
  <2>1. \A i \in is : g2[i] \in Int /\ f2[i] \in Int BY <1>6
  <2>2. \A i \in is : g2[i] <= f2[i] BY <1>6
  <2> QED BY <1>1, <2>1, <2>2, SumBelow
<1> DEFINE p == S(part)
<1>16. d * p <= left * d /\ left * d + c <= d * (p + c)
  BY <1>8, <1>9, <1>10, <1>12, <1>13, <1>14, <1>15
<1>17. p \in Int BY <1>7
<1> HIDE DEF p, S
<1>18. p <= left
  <2> SUFFICES ASSUME left + 1 <= p PROVE FALSE BY <1>17
  <2>1. p - left - 1 \in Nat BY <1>17
  <2>2. d * (p - left - 1) \in Nat BY <1>1, <2>1
  <2>3. d * p = d * (p - left - 1) + left * d + d BY <1>1, <1>17
  <2>4. d * p \in Int /\ left * d \in Int BY <1>1, <1>17
  <2> QED BY <1>1, <1>16, <2>2, <2>3, <2>4
<1>19. left < p + c
  <2> SUFFICES ASSUME p + c <= left PROVE FALSE BY <1>1, <1>17
  <2>1. left - (p + c) \in Nat BY <1>1, <1>17
  <2>2. d * (left - (p + c)) \in Nat BY <1>1, <2>1
  <2>3. left * d = d * (left - (p + c)) + d * (p + c) BY <1>1, <1>17
  <2>4. d * (p + c) \in Int /\ left * d \in Int BY <1>1, <1>17
  <2> QED BY <1>1, <1>3, <1>16, <2>2, <2>3, <2>4
<1> QED BY <1>5, <1>17, <1>18, <1>19 DEF p, S, c

\* What a section is given: its part of what is left, or the floor.
LEMMA SectionSharesAddUp ==
  ASSUME given.sections \in Sections, NEW is, is \subseteq DOMAIN given.sections, is # {},
         NEW left \in Int, NEW share, \A i \in is : share[i] = FairShare(i, is, left),
         NEW T, T \subseteq is
  PROVE  /\ \A i \in is : share[i] \in Nat
         /\ SumFunctionOnSet(share, is) > left - Cardinality(is)
         /\ SumFunctionOnSet(share, T) \in Nat
         /\ SumFunctionOnSet(share, T) <= (IF left > 0 THEN left ELSE 0) + MinSection * Cardinality(T)
<1> DEFINE part == [i \in is |-> PartOf(i, is, left)]
           part0 == [i \in is |-> IF left > 0 THEN part[i] ELSE 0]
           floor == [i \in is |-> MinSection]
           top == [i \in is |-> part0[i] + floor[i]]
           S(f, s) == SumFunctionOnSet(f, s)
<1>1. IsFiniteSet(is) /\ IsFiniteSet(T) /\ Cardinality(is) \in Nat /\ Cardinality(T) \in Nat
      /\ Demand(is) \in Nat /\ Demand(is) >= 1
  <2>1. T \subseteq DOMAIN given.sections OBVIOUS
  <2> QED BY <2>1, SomeSections
<1>2. MinSection \in Nat BY SelectionsAssumption
<1>3. /\ \A i \in is : part[i] \in Int
      /\ S(part, is) \in Int /\ S(part, is) <= left /\ left < S(part, is) + Cardinality(is)
  <2>1. \A i \in is : part[i] = PartOf(i, is, left) OBVIOUS
  <2> HIDE DEF part
  <2> QED BY <2>1, PartsAddUp
<1>4. ASSUME NEW i \in is
      PROVE  /\ share[i] = IF part[i] > MinSection THEN part[i] ELSE MinSection
             /\ left > 0 => part[i] >= 0
  <2> DEFINE x == left * SectionDemand[i]
             d == Demand(is)
  <2>1. /\ SectionDemand[i] = given.sections[i].weight * given.sections[i].len
        /\ SectionDemand[i] \in Nat
    BY SectionsHaveText
  <2>2. part[i] = x \div d BY DEF PartOf
  <2>3. share[i] = IF part[i] > MinSection THEN part[i] ELSE MinSection
    BY <2>1 DEF FairShare, PartOf
  <2>4. x \in Int /\ (left > 0 => x >= 0) BY <2>1
  <2>5. left > 0 => part[i] >= 0
    <3> HIDE DEF x, d, part
    <3>1. d \in Nat /\ d >= 1 BY <1>1 DEF d
    <3>2. x \div d \in Int /\ x + 1 <= d * (x \div d + 1) BY <2>4, <3>1, PartRounds
    <3> DEFINE q == x \div d
    <3> HIDE DEF q
    <3>3. q \in Int /\ x + 1 <= d * (q + 1) BY <3>2 DEF q
    <3>4. ASSUME x >= 0, q + 1 <= 0 PROVE FALSE
      <4>1. 0 - (q + 1) \in Nat BY <3>3, <3>4
      <4>2. d * (0 - (q + 1)) \in Nat BY <3>1, <4>1
      <4>3. d * (q + 1) = 0 - d * (0 - (q + 1)) BY <3>1, <3>3
      <4> QED BY <2>4, <3>3, <3>4, <4>2, <4>3
    <3>5. x >= 0 => q >= 0 BY <3>3, <3>4
    <3> QED BY <2>2, <2>4, <3>5 DEF q
  <2> QED BY <2>3, <2>5
<1>5. \A i \in is : /\ share[i] \in Nat /\ part[i] <= share[i]
                    /\ part0[i] \in Nat /\ part0[i] <= (IF left > 0 THEN part[i] ELSE 0)
                    /\ floor[i] = MinSection /\ top[i] = part0[i] + floor[i]
                    /\ top[i] \in Nat /\ share[i] <= top[i]
  <2> SUFFICES ASSUME NEW i \in is
               PROVE  /\ share[i] \in Nat /\ part[i] <= share[i]
                      /\ part0[i] \in Nat /\ part0[i] <= (IF left > 0 THEN part[i] ELSE 0)
                      /\ floor[i] = MinSection /\ top[i] = part0[i] + floor[i]
                      /\ top[i] \in Nat /\ share[i] <= top[i]
    OBVIOUS
  <2>1. part[i] \in Int BY <1>3
  <2>2. part0[i] = (IF left > 0 THEN part[i] ELSE 0) OBVIOUS
  <2>3. floor[i] = MinSection /\ top[i] = part0[i] + floor[i] OBVIOUS
  <2>5. left > 0 \/ part[i] <= 0
    <3> DEFINE q == part[i]
               x == left * SectionDemand[i]
    <3>1. SectionDemand[i] \in Nat BY SectionsHaveText
    <3>2. q = x \div Demand(is) BY DEF PartOf
    <3> SUFFICES ASSUME left <= 0 PROVE q <= 0 OBVIOUS
    <3>3. x \in Int /\ x <= 0
      <4>1. 0 - left \in Nat OBVIOUS
      <4>2. (0 - left) * SectionDemand[i] \in Nat BY <3>1, <4>1
      <4>3. x = 0 - (0 - left) * SectionDemand[i] BY <3>1
      <4> HIDE DEF x
      <4> QED BY <4>2, <4>3
    <3> HIDE DEF x, part
    <3>4. Demand(is) * (x \div Demand(is)) <= x BY <1>1, <3>3, PartRounds
    <3> DEFINE d == Demand(is)
    <3> HIDE DEF q, d
    <3>5. d \in Nat /\ d >= 1 /\ q \in Int /\ d * q <= x BY <1>1, <2>1, <3>2, <3>4 DEF d, q
    <3>6. ASSUME q >= 1 PROVE FALSE
      <4>1. q - 1 \in Nat /\ d * (q - 1) \in Nat BY <3>5, <3>6
      <4>2. d * q = d * (q - 1) + d BY <3>5
      <4> QED BY <3>3, <3>5, <4>1, <4>2
    <3> QED BY <3>5, <3>6
  <2> HIDE DEF part, part0, floor, top
  <2>4. share[i] \in Nat /\ part[i] <= share[i] BY <1>2, <1>4, <2>1
  <2>6. part0[i] \in Nat BY <1>4, <2>1, <2>2
  <2>7. top[i] \in Nat BY <1>2, <2>3, <2>6
  <2>8. share[i] <= top[i] BY <1>2, <1>4, <2>1, <2>2, <2>3, <2>5, <2>6
  <2> QED BY <2>1, <2>2, <2>3, <2>4, <2>6, <2>7, <2>8
<1>6. part0 = [i \in is |-> part0[i]] /\ (left > 0 => \A i \in is : part0[i] = part[i])
      /\ (~(left > 0) => \A i \in is : part0[i] = 0)
  OBVIOUS
<1> HIDE DEF part, part0, floor, top
<1>7. S(part, is) <= S(share, is) /\ S(share, is) \in Int
  <2>1. \A i \in is : part[i] \in Int /\ share[i] \in Int BY <1>3, <1>5
  <2>2. \A i \in is : part[i] <= share[i] BY <1>5
  <2> QED BY <1>1, <2>1, <2>2, SumBelow, SumType
<1>8. S(share, T) \in Nat
  <2>1. T \subseteq T /\ \A i \in T : share[i] \in Nat BY <1>5
  <2> QED BY <1>1, <2>1, SumMonotone
<1>9. S(share, T) <= S(top, T)
  <2>1. \A i \in T : share[i] \in Int /\ top[i] \in Int BY <1>5
  <2>2. \A i \in T : share[i] <= top[i] BY <1>5
  <2> QED BY <1>1, <2>1, <2>2, SumBelow
<1>10. S(top, T) = S(part0, T) + MinSection * Cardinality(T)
  <2>1. \A i \in T : part0[i] \in Int /\ floor[i] \in Int BY <1>2, <1>5
  <2>2. \A i \in T : top[i] = part0[i] + floor[i] BY <1>5
  <2>3. S(top, T) = S(part0, T) + S(floor, T) BY <1>1, <2>1, <2>2, SumPlus
  <2>4. \A i \in T : floor[i] = MinSection BY <1>5
  <2>5. MinSection \in Int BY <1>2
  <2>6. S(floor, T) = MinSection * Cardinality(T) BY <1>1, <2>4, <2>5, SumAlike
  <2> QED BY <2>3, <2>6
<1>11. S(part0, T) \in Nat /\ S(part0, is) \in Nat /\ S(part0, T) <= S(part0, is)
  <2>1. \A i \in is : part0[i] \in Nat BY <1>5
  <2> QED BY <1>1, <2>1, SumMonotone
<1>12. S(part0, is) <= IF left > 0 THEN left ELSE 0
  <2>1. CASE left > 0
    <3>1. \A i \in is : part[i] \in Int BY <1>3
    <3>2. \A i \in is : part0[i] = part[i] BY <1>6, <2>1
    <3>3. S(part0, is) = S(part, is) BY <1>1, <3>1, <3>2, SumSame
    <3> QED BY <1>3, <2>1, <3>3
  <2>2. CASE ~(left > 0)
    <3>1. \A i \in is : part0[i] = 0 BY <1>6, <2>2
    <3>2. S(part0, is) = 0 * Cardinality(is) BY <1>1, <3>1, SumAlike
    <3> QED BY <1>1, <2>2, <3>2
  <2> QED BY <2>1, <2>2
<1>13. MinSection * Cardinality(T) \in Nat BY <1>1, <1>2
<1>14. S(share, T) <= (IF left > 0 THEN left ELSE 0) + MinSection * Cardinality(T)
  <2> DEFINE m == MinSection * Cardinality(T)
             x == S(part0, T)
             y == S(part0, is)
             u == S(top, T)
             z == S(share, T)
             l0 == IF left > 0 THEN left ELSE 0
  <2>1. l0 \in Int OBVIOUS
  <2>2. z <= u /\ u = x + m /\ x <= y /\ y <= l0 BY <1>9, <1>10, <1>11, <1>12
  <2>3. z \in Nat /\ x \in Nat /\ y \in Nat /\ m \in Nat BY <1>8, <1>11, <1>13
  <2> HIDE DEF m, x, y, u, z, l0
  <2>4. z <= l0 + m BY <2>1, <2>2, <2>3
  <2> QED BY <2>4 DEF z, l0, m
<1>15. S(share, is) > left - Cardinality(is)
  <2> DEFINE x == S(part, is)
             y == S(share, is)
             c == Cardinality(is)
  <2>1. x \in Int /\ y \in Int /\ c \in Nat /\ x <= y /\ left < x + c BY <1>1, <1>3, <1>7
  <2> HIDE DEF x, y, c
  <2>2. y > left - c BY <2>1
  <2> QED BY <2>2 DEF y, c
<1>16. \A i \in is : share[i] \in Nat BY <1>5
<1> QED BY <1>8, <1>14, <1>15, <1>16 DEF S

SharingState == [open : SUBSET (DOMAIN given.sections), left : Int]

\* What is settled has been taken from the room, and the floor gave it too much at most.
SharingInv(b) ==
  LET settled == (DOMAIN given.sections) \ b.open
  IN /\ b.left = Room - LenOf(settled)
     /\ 0 <= b.left + MinSection * Cardinality(settled)

IsSharing(g) ==
  g = [n \in 0..Len(given.sections) |->
         IF n = 0 THEN [open |-> DOMAIN given.sections, left |-> Room] ELSE Pass(g[n - 1])]

LEMMA PassIsTyped ==
  ASSUME given.sections \in Sections, NEW b \in SharingState
  PROVE  /\ Pass(b) \in SharingState /\ Fitting(b.open, b.left) \subseteq b.open
         /\ b.open \subseteq DOMAIN given.sections /\ b.left \in Int
         /\ Pass(b).open = b.open \ Fitting(b.open, b.left)
         /\ Pass(b).left = b.left - LenOf(Fitting(b.open, b.left))
<1> DEFINE fits == Fitting(b.open, b.left)
<1>1. b.open \subseteq DOMAIN given.sections /\ b.left \in Int BY DEF SharingState
<1>2. fits \subseteq b.open BY DEF Fitting
<1>3. Pass(b) = [open |-> b.open \ fits, left |-> b.left - LenOf(fits)] BY DEF Pass
<1> HIDE DEF fits
<1>4. LenOf(fits) \in Nat
  <2>1. fits \subseteq DOMAIN given.sections BY <1>1, <1>2
  <2> QED BY <2>1, SomeSections
<1> DEFINE o == b.open \ fits
           l == b.left - LenOf(fits)
<1>5. o \in SUBSET (DOMAIN given.sections) /\ l \in Int BY <1>1, <1>4
<1> HIDE DEF o, l
<1>6. Pass(b) = [open |-> o, left |-> l] BY <1>3 DEF o, l
<1>7. Pass(b) \in SharingState BY <1>5, <1>6 DEF SharingState
<1>8. Pass(b).open = o /\ Pass(b).left = l BY <1>6
<1> QED BY <1>1, <1>2, <1>7, <1>8 DEF o, l, fits

\* Sections that fit in their shares take what they need.
LEMMA PassSettles ==
  ASSUME given.sections \in Sections, NEW b \in SharingState, SharingInv(b)
  PROVE  SharingInv(Pass(b))
<1> DEFINE all == DOMAIN given.sections
           o == b.open
           left == b.left
           fits == Fitting(o, left)
           old == all \ o
           new == all \ (o \ fits)
           share == [i \in o |-> FairShare(i, o, left)]
           S(f, s) == SumFunctionOnSet(f, s)
<1>1. /\ o \subseteq all /\ left \in Int /\ fits \subseteq o
      /\ Pass(b).open = o \ fits /\ Pass(b).left = left - LenOf(fits)
  BY PassIsTyped
<1>2. left = Room - LenOf(old) /\ 0 <= left + MinSection * Cardinality(old) BY DEF SharingInv
<1>3. \A i \in fits : given.sections[i].len <= FairShare(i, o, left) BY DEF Fitting
<1> HIDE DEF fits
<1>4. new = old \cup fits /\ old \cap fits = {} /\ old \subseteq all /\ fits \subseteq all BY <1>1
<1>5. /\ IsFiniteSet(old) /\ IsFiniteSet(fits) /\ Cardinality(old) \in Nat /\ Cardinality(fits) \in Nat
      /\ LenOf(old) = S(SectionLength, old) /\ LenOf(fits) = S(SectionLength, fits)
      /\ LenOf(old) \in Nat /\ LenOf(fits) \in Nat
  BY <1>4, SomeSections
<1>6. LenOf(new) = S(SectionLength, new)
  <2>1. new \subseteq all OBVIOUS
  <2> HIDE DEF new
  <2> QED BY <2>1, SomeSections
<1>7. \A i \in all : SectionLength[i] \in Nat /\ SectionLength[i] = given.sections[i].len
  BY SectionsHaveText
<1>8. LenOf(new) = LenOf(old) + LenOf(fits)
  <2>1. \A i \in old \cup fits : SectionLength[i] \in Int BY <1>4, <1>7
  <2>2. S(SectionLength, old \cup fits) = S(SectionLength, old) + S(SectionLength, fits)
    <3> HIDE DEF old
    <3> QED BY <1>4, <1>5, <2>1, SumUnion
  <2>3. S(SectionLength, new) = S(SectionLength, old \cup fits) BY <1>4
  <2> QED BY <1>5, <1>6, <2>2, <2>3
<1>9. Cardinality(new) = Cardinality(old) + Cardinality(fits)
  <2>1. Cardinality(old \cap fits) = 0 BY <1>4, FS_EmptySet
  <2>2. Cardinality(old \cup fits) = Cardinality(old) + Cardinality(fits) - Cardinality(old \cap fits)
    <3> HIDE DEF old
    <3> QED BY <1>5, FS_Union
  <2>3. Cardinality(new) = Cardinality(old \cup fits) BY <1>4
  <2> DEFINE x == Cardinality(old)
             y == Cardinality(fits)
  <2>4. x \in Nat /\ y \in Nat /\ Cardinality(new) = x + y - 0 BY <1>5, <2>1, <2>2, <2>3
  <2> HIDE DEF x, y
  <2>5. x + y - 0 = x + y BY <2>4
  <2> QED BY <2>4, <2>5 DEF x, y
<1>10. MinSection \in Nat /\ Room \in Nat BY SelectionsAssumption
<1>11. LenOf(fits) <= (IF left > 0 THEN left ELSE 0) + MinSection * Cardinality(fits)
  <2>1. CASE o = {}
    <3>1. fits = {} BY <1>1, <2>1
    <3>2. LenOf(fits) = 0 BY <1>5, <3>1, SumEmpty
    <3>3. MinSection * Cardinality(fits) \in Nat BY <1>5, <1>10
    <3>4. (IF left > 0 THEN left ELSE 0) >= 0 /\ (IF left > 0 THEN left ELSE 0) \in Int BY <1>1
    <3> QED BY <3>2, <3>3, <3>4
  <2>2. CASE o # {}
    <3>1. \A i \in o : share[i] = FairShare(i, o, left) OBVIOUS
    <3>2. \A i \in fits : share[i] = FairShare(i, o, left) BY <1>1, <3>1
    <3> HIDE DEF share, o, left, all
    <3>3. /\ \A i \in o : share[i] \in Nat
          /\ S(share, fits) \in Nat
          /\ S(share, fits) <= (IF left > 0 THEN left ELSE 0) + MinSection * Cardinality(fits)
      BY <1>1, <2>2, <3>1, SectionSharesAddUp DEF all
    <3>4. \A i \in fits : SectionLength[i] \in Int /\ share[i] \in Int BY <1>1, <1>4, <1>7, <3>3
    <3>5. \A i \in fits : SectionLength[i] <= share[i] BY <1>3, <1>4, <1>7, <3>2
    <3>6. S(SectionLength, fits) <= S(share, fits) BY <1>5, <3>4, <3>5, SumBelow
    <3> DEFINE x == S(SectionLength, fits)
               y == S(share, fits)
               m == MinSection * Cardinality(fits)
               l0 == IF left > 0 THEN left ELSE 0
    <3>7. x \in Nat /\ y \in Nat /\ m \in Nat /\ l0 \in Int BY <1>1, <1>5, <1>10, <3>3
    <3>8. x <= y /\ y <= l0 + m BY <3>3, <3>6
    <3> HIDE DEF x, y, m, l0
    <3>9. x <= l0 + m BY <3>7, <3>8
    <3> QED BY <1>5, <3>9 DEF x, m, l0
  <2> QED BY <2>1, <2>2
<1> DEFINE f == LenOf(fits)
           u == LenOf(old)
           cf == Cardinality(fits)
           co == Cardinality(old)
           m == MinSection
<1>12. m * (co + cf) = m * co + m * cf /\ m * co \in Nat /\ m * cf \in Nat BY <1>5, <1>10
<1>13. /\ f \in Nat /\ u \in Nat /\ left = Room - u /\ 0 <= left + m * co
       /\ f <= (IF left > 0 THEN left ELSE 0) + m * cf
  BY <1>2, <1>5, <1>11
<1> HIDE DEF f, u, cf, co, m, left, new, old
<1>14. left - f = Room - (u + f) BY <1>1, <1>10, <1>13
<1>15. 0 <= left - f + m * (co + cf) BY <1>1, <1>12, <1>13
<1>16. Pass(b).left = Room - LenOf(new) /\ 0 <= Pass(b).left + MinSection * Cardinality(new)
  BY <1>1, <1>8, <1>9, <1>14, <1>15 DEF f, u, cf, co, m
<1> QED BY <1>1, <1>16 DEF SharingInv, new, all

LEMMA SharingEnds ==
  ASSUME given.sections \in Sections
  PROVE  \E b \in SharingState :
           /\ SharingInv(b)
           /\ Fit = [i \in DOMAIN given.sections |->
                       IF LenOf(DOMAIN given.sections) <= Room \/ i \notin b.open
                       THEN given.sections[i].len ELSE FairShare(i, b.open, b.left)]
<1> DEFINE N == Len(given.sections)
           all == DOMAIN given.sections
           a == [open |-> all, left |-> Room]
           F == [p \in (1..N) \X SharingState |-> Pass(p[2])]
<1>1. N \in Nat BY SectionsHaveText
<1>2. a \in SharingState /\ a.open = all /\ a.left = Room
  <2>1. Room \in Int BY SelectionsAssumption
  <2> QED BY <2>1 DEF SharingState
<1>3. \A i \in 1..N, x \in SharingState : F[<<i, x>>] = Pass(x) /\ F[<<i, x>>] \in SharingState
  BY PassIsTyped
<1>4. PICK h \in [0..N -> SharingState] : Iterates(h, a, F, N)
  <2> HIDE DEF F, N, a
  <2> QED BY <1>1, <1>2, <1>3, IteratesExist
<1>5. IsSharing(h)
  <2>1. h = [i \in 0..N |-> h[i]] OBVIOUS
  <2>2. ASSUME NEW i \in 0..N
        PROVE  h[i] = IF i = 0 THEN a ELSE Pass(h[i - 1])
    <3>1. h[i] = IF i = 0 THEN a ELSE F[<<i, h[i - 1]>>]
      <4> HIDE DEF F, a
      <4> QED BY <1>4 DEF Iterates
    <3>2. CASE i = 0 BY <3>1, <3>2
    <3>3. CASE i # 0
      <4>1. i \in 1..N /\ i - 1 \in 0..N BY <1>1, <3>3
      <4>2. h[i - 1] \in SharingState BY <4>1
      <4> HIDE DEF F, a
      <4>3. F[<<i, h[i - 1]>>] = Pass(h[i - 1]) BY <1>3, <4>1, <4>2
      <4> QED BY <3>1, <3>3, <4>3
    <3> QED BY <3>2, <3>3
  <2> QED BY <2>1, <2>2 DEF IsSharing
<1> DEFINE k == CHOOSE g : IsSharing(g)
           b == k[N]
<1>6. Fit = [i \in all |-> IF LenOf(all) <= Room \/ i \notin b.open
                           THEN given.sections[i].len ELSE FairShare(i, b.open, b.left)]
  BY DEF Fit, IsSharing
<1>7. IsSharing(k) BY <1>5
<1> HIDE DEF k, F
<1>8. \A n \in 0..N : k[n] = IF n = 0 THEN a ELSE Pass(k[n - 1])
  BY <1>7 DEF IsSharing
<1> DEFINE P == {n \in 0..N : ~(k[n] \in SharingState /\ SharingInv(k[n]))}
<1>9. P = {}
  <2> SUFFICES ASSUME P # {} PROVE FALSE OBVIOUS
  <2>1. PICK n \in P : \A m \in P : n <= m
    <3>1. P \in SUBSET Nat OBVIOUS
    <3> HIDE DEF P
    <3> QED BY <3>1, LeastNumber
  <2>2. n \in 0..N /\ ~(k[n] \in SharingState /\ SharingInv(k[n])) OBVIOUS
  <2>3. CASE n = 0
    <3>1. k[n] = a
      <4> HIDE DEF a
      <4> QED BY <1>8, <2>2, <2>3
    <3>2. SharingInv(a)
      <4>1. all \ a.open = {} BY <1>2
      <4>2. {} \subseteq all OBVIOUS
      <4>3. LenOf({}) = 0
        <5>1. LenOf({}) = SumFunctionOnSet(SectionLength, {}) BY <4>2, SomeSections
        <5> QED BY <5>1, SumEmpty
      <4>4. Cardinality({}) = 0 BY FS_EmptySet
      <4>5. Room \in Nat /\ MinSection \in Nat BY SelectionsAssumption
      <4>6. LenOf(all \ a.open) = 0 /\ Cardinality(all \ a.open) = 0 BY <4>1, <4>3, <4>4
      <4> DEFINE u == LenOf(all \ a.open)
                 c == Cardinality(all \ a.open)
                 l == a.left
      <4>7. u = 0 /\ c = 0 /\ l = Room BY <1>2, <4>6
      <4> HIDE DEF u, c, l, a
      <4>8. l = Room - u /\ 0 <= l + MinSection * c BY <4>5, <4>7
      <4> QED BY <4>8 DEF SharingInv, u, c, l
    <3> QED BY <1>2, <2>2, <3>1, <3>2
  <2>4. CASE n # 0
    <3>1. n \in 1..N /\ n - 1 \in 0..N /\ ~(n <= n - 1) BY <1>1, <2>2, <2>4
    <3>2. n - 1 \notin P
      <4> HIDE DEF P
      <4> QED BY <2>1, <3>1
    <3>3. k[n - 1] \in SharingState /\ SharingInv(k[n - 1]) BY <3>1, <3>2
    <3>4. k[n] = Pass(k[n - 1])
      <4> HIDE DEF a
      <4> QED BY <1>8, <2>2, <2>4
    <3>5. Pass(k[n - 1]) \in SharingState /\ SharingInv(Pass(k[n - 1]))
      BY <3>3, PassIsTyped, PassSettles
    <3> QED BY <2>2, <3>4, <3>5
  <2> QED BY <2>3, <2>4
<1>10. N \in 0..N /\ N \notin P
  <2>1. N \in 0..N BY <1>1
  <2> HIDE DEF P
  <2> QED BY <1>9, <2>1
<1>11. b \in SharingState /\ SharingInv(b) BY <1>10
<1> HIDE DEF b
<1> QED BY <1>6, <1>11

LEMMA SharingWastesNothing ==
  ASSUME given.sections \in Sections, kept = Fit
  PROVE  LET sum == SumFunction(kept)
             cutOff == {i \in DOMAIN kept : kept[i] < given.sections[i].len}
         IN /\ cutOff # {} => sum > Room - Len(given.sections)
            /\ sum <= Room + MinSection * Len(given.sections)
<1> DEFINE all == DOMAIN given.sections
           n == Len(given.sections)
           sum == SumFunction(kept)
           S(f, s) == SumFunctionOnSet(f, s)
           cutOff == {i \in DOMAIN kept : kept[i] < given.sections[i].len}
<1>1. PICK b \in SharingState :
        /\ SharingInv(b)
        /\ Fit = [i \in all |-> IF LenOf(all) <= Room \/ i \notin b.open
                                THEN given.sections[i].len ELSE FairShare(i, b.open, b.left)]
  BY SharingEnds
<1>2. /\ n \in Nat /\ IsFiniteSet(all) /\ Cardinality(all) = n
      /\ \A i \in all : SectionLength[i] \in Nat /\ SectionLength[i] = given.sections[i].len
  BY SectionsHaveText
<1>3. DOMAIN kept = all /\ sum = S(kept, all) BY <1>1 DEF SumFunction
<1>4. Room \in Nat /\ MinSection \in Nat BY SelectionsAssumption
<1>5. b.open \subseteq all /\ b.left \in Int BY DEF SharingState
<1>6. \A i \in all : kept[i] = IF LenOf(all) <= Room \/ i \notin b.open
                              THEN SectionLength[i] ELSE FairShare(i, b.open, b.left)
  BY <1>1, <1>2
<1>7. CASE LenOf(all) <= Room \/ b.open = {}
  <2>1. \A i \in all : kept[i] = SectionLength[i] /\ SectionLength[i] \in Nat BY <1>2, <1>6, <1>7
  <2>2. \A i \in all : ~(SectionLength[i] < SectionLength[i]) BY <1>2
  <2>3. cutOff = {} BY <1>2, <1>3, <2>1, <2>2
  <2>4. LenOf(all) = S(SectionLength, all) /\ LenOf(all) \in Nat BY SomeSections
  <2>5. sum = LenOf(all)
    <3>1. \A i \in all : SectionLength[i] \in Int /\ kept[i] = SectionLength[i] BY <2>1
    <3>2. S(kept, all) = S(SectionLength, all) BY <1>2, <3>1, SumSame
    <3> QED BY <1>3, <2>4, <3>2
  <2>6. MinSection * n \in Nat BY <1>2, <1>4
  <2>7. LenOf(all) <= Room + MinSection * n
    <3>1. CASE LenOf(all) <= Room BY <1>4, <2>4, <2>6, <3>1
    <3>2. CASE b.open = {}
      <4>1. all \ b.open = all BY <3>2
      <4>2. b.left = Room - LenOf(all) /\ 0 <= b.left + MinSection * n
        BY <1>1, <1>2, <4>1 DEF SharingInv
      <4> QED BY <1>4, <2>4, <2>6, <4>2
    <3> QED BY <1>7, <3>1, <3>2
  <2> QED BY <2>3, <2>5, <2>7
<1>8. CASE ~(LenOf(all) <= Room \/ b.open = {})
  <2> DEFINE o == b.open
             left == b.left
             old == all \ o
             share == [i \in o |-> FairShare(i, o, left)]
  <2>1. o # {} /\ o \subseteq all /\ left \in Int BY <1>5, <1>8
  <2>2. left = Room - LenOf(old) /\ 0 <= left + MinSection * Cardinality(old)
    BY <1>1 DEF SharingInv
  <2>3. /\ \A i \in o : share[i] = FairShare(i, o, left) /\ kept[i] = share[i]
        /\ \A i \in old : kept[i] = SectionLength[i]
    BY <1>6, <1>8, <2>1
  <2>4. old \cup o = all /\ old \cap o = {} /\ old \subseteq all BY <2>1
  <2> HIDE DEF share, o, left, old
  <2>5. /\ IsFiniteSet(old) /\ IsFiniteSet(o) /\ Cardinality(old) \in Nat /\ Cardinality(o) \in Nat
        /\ LenOf(old) = S(SectionLength, old) /\ LenOf(old) \in Nat
    BY <2>1, <2>4, SomeSections
  <2>6. /\ \A i \in o : share[i] \in Nat
        /\ S(share, o) > left - Cardinality(o) /\ S(share, o) \in Nat
        /\ S(share, o) <= (IF left > 0 THEN left ELSE 0) + MinSection * Cardinality(o)
    <3>1. o \subseteq o /\ \A i \in o : share[i] = FairShare(i, o, left) BY <2>3
    <3> QED BY <2>1, <3>1, SectionSharesAddUp
  <2>7. S(kept, o) = S(share, o)
    <3>1. \A i \in o : share[i] \in Int /\ kept[i] = share[i] BY <2>3, <2>6
    <3> QED BY <2>5, <3>1, SumSame
  <2>8. S(kept, old) = LenOf(old)
    <3>1. \A i \in old : SectionLength[i] \in Int /\ kept[i] = SectionLength[i] BY <1>2, <2>3, <2>4
    <3>2. S(kept, old) = S(SectionLength, old) BY <2>5, <3>1, SumSame
    <3> QED BY <2>5, <3>2
  <2>9. sum = LenOf(old) + S(share, o)
    <3>1. \A i \in old \cup o : kept[i] \in Int
      <4>1. \A i \in old : kept[i] \in Int BY <1>2, <2>3, <2>4
      <4>2. \A i \in o : kept[i] \in Int BY <2>3, <2>6
      <4> QED BY <4>1, <4>2
    <3>2. S(kept, old \cup o) = S(kept, old) + S(kept, o) BY <2>4, <2>5, <3>1, SumUnion
    <3> QED BY <1>3, <2>4, <2>7, <2>8, <3>2
  <2>10. n = Cardinality(old) + Cardinality(o)
    <3>1. Cardinality(old \cap o) = 0 BY <2>4, FS_EmptySet
    <3>2. Cardinality(old \cup o) = Cardinality(old) + Cardinality(o) - Cardinality(old \cap o)
      BY <2>5, FS_Union
    <3>3. n = Cardinality(old \cup o) BY <1>2, <2>4
    <3> DEFINE x == Cardinality(old)
               y == Cardinality(o)
    <3>4. x \in Nat /\ y \in Nat /\ n = x + y - 0 BY <2>5, <3>1, <3>2, <3>3
    <3> HIDE DEF x, y, n
    <3>5. n = x + y BY <3>4
    <3> QED BY <3>5 DEF x, y
  <2> DEFINE u == LenOf(old)
             s == S(share, o)
             co == Cardinality(old)
             cn == Cardinality(o)
             m == MinSection
  <2>11. /\ u \in Nat /\ s \in Nat /\ co \in Nat /\ cn \in Nat /\ m \in Nat /\ left = Room - u
         /\ 0 <= left + m * co /\ s > left - cn /\ n = co + cn
         /\ s <= (IF left > 0 THEN left ELSE 0) + m * cn /\ sum = u + s
    BY <1>4, <2>2, <2>5, <2>6, <2>9, <2>10
  <2> HIDE DEF u, s, co, cn, m, n, sum, S
  <2>12. m * n = m * co + m * cn /\ m * co \in Nat /\ m * cn \in Nat BY <2>11
  <2>13. sum > Room - n BY <1>4, <2>11
  <2>14. sum <= Room + m * n BY <1>4, <2>1, <2>11, <2>12
  <2> QED BY <2>13, <2>14 DEF m, n, sum
<1> QED BY <1>7, <1>8

\* What was given to choose from, and what came of it.
SelectionsInv ==
  /\ task \in {"pool", "pooled"} => given.plans \in PlanSets
  /\ task \in {"plan", "capped"} => given.items \in Seq(PlanItem)
  /\ task \in {"fit", "fitted"} => given.sections \in Sections
  /\ task = "pooled" => kept = PooledQueries
  /\ task = "capped" => kept = Dedupe
  /\ task = "fitted" => kept = Fit

LEMMA SelectionsStep ==
  ASSUME SelectionsInv, [SelectionsNext]_selVars
  PROVE  SelectionsInv'
<1>1. CASE Choose
  <2>1. CASE task' = "pool" /\ \E p \in PlanSets, r \in SearchedSets : given' = [plans |-> p, run |-> r]
    BY <2>1 DEF SelectionsInv
  <2>2. CASE task' = "plan" /\ \E n \in 1..MaxItems :
               \E q \in [1..n -> [query : Queries, priority : 1..3]] : given' = [items |-> q]
    <3>0. PICK n \in 1..MaxItems : \E q \in [1..n -> PlanItem] : given' = [items |-> q]
      BY <2>2 DEF PlanItem
    <3>1. PICK q \in [1..n -> PlanItem] : given' = [items |-> q] BY <3>0
    <3>2. n \in Nat BY SelectionsAssumption
    <3>3. q \in Seq(PlanItem) BY <3>2, NumberedIsSeq
    <3>4. given'.items = q BY <3>1
    <3> QED BY <2>2, <3>3, <3>4 DEF SelectionsInv
  <2>3. CASE task' = "fit" /\ \E s \in Sections : given' = [sections |-> s]
    BY <2>3 DEF SelectionsInv
  <2> QED BY <1>1, <2>1, <2>2, <2>3 DEF Choose
<1>2. CASE PoolRetryQueries
  <2>0. given' = given BY <1>2 DEF PoolRetryQueries
  <2>1. PooledQueries' = PooledQueries BY <2>0 DEF PooledQueries, PoolFrom, Pooled, Ranks, Same
  <2> QED BY <1>2, <2>1 DEF PoolRetryQueries, SelectionsInv
<1>3. CASE CapQueries
  <2>1. Dedupe' = Dedupe BY <1>3 DEF CapQueries, Dedupe
  <2> QED BY <1>3, <2>1 DEF CapQueries, SelectionsInv
<1>4. CASE FitSections
  <2>0. given' = given BY <1>4 DEF FitSections
  <2>1. Fit' = Fit BY <2>0 DEF Fit, Pass, Fitting, FairShare, Demand, LenOf
  <2> QED BY <1>4, <2>1 DEF FitSections, SelectionsInv
<1>5. CASE UNCHANGED selVars
  <2>1. task' = task /\ given' = given /\ kept' = kept BY <1>5 DEF selVars
  <2>2. PooledQueries' = PooledQueries BY <2>1 DEF PooledQueries, PoolFrom, Pooled, Ranks, Same
  <2>3. Dedupe' = Dedupe BY <2>1 DEF Dedupe
  <2>4. Fit' = Fit BY <2>1 DEF Fit, Pass, Fitting, FairShare, Demand, LenOf
  <2> QED BY <2>1, <2>2, <2>3, <2>4 DEF SelectionsInv
<1> QED BY <1>1, <1>2, <1>3, <1>4, <1>5 DEF SelectionsNext

LEMMA CapsFollow == ASSUME SelectionsInv PROVE CapsAreFair
<1>1. PoolIsFair BY PoolKeepsToTheRule DEF SelectionsInv, PoolIsFair
<1>2. UrgentGoFirst BY CapKeepsTheUrgent DEF SelectionsInv, UrgentGoFirst
<1>3. NoRoomIsWasted BY SharingWastesNothing DEF SelectionsInv, NoRoomIsWasted
<1> QED BY <1>1, <1>2, <1>3 DEF CapsAreFair

\* CapsAreFair of every behaviour: whatever the plans, queries, sections and limits,
\* what pool_retry_queries, _dedupe_and_cap_queries and fit_artifact_check_sections
\* leave out gave way to something that came first by the rule.
THEOREM CapsAlwaysFair == SelectionsSpec => []CapsAreFair
<1>1. SelectionsInit => SelectionsInv BY DEF SelectionsInit, SelectionsInv
<1>2. SelectionsInv /\ [SelectionsNext]_selVars => SelectionsInv' BY SelectionsStep
<1>3. SelectionsInv => CapsAreFair BY CapsFollow
<1> QED BY <1>1, <1>2, <1>3, PTL DEF SelectionsSpec
=============================================================================
