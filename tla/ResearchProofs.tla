--------------------------- MODULE ResearchProofs ---------------------------
(***************************************************************************)
(* Proofs about one question's research: the query plans its engines       *)
(* share, the stages of the pipeline, and the cycles in which one engine's *)
(* results are read.                                                       *)
(***************************************************************************)
EXTENDS QueryPlans, ResearchPipeline, ScrapeCycles, MeasuredSeries, DataLemmas

(***************************************************************************)
(* QueryPlans.  The argument: a task outside the cache is                  *)
(* either finished with the hard limit or was dropped when a full cache    *)
(* was emptied; with room for every prompt the second never happens.       *)
(***************************************************************************)

Statuses == {"running", "plan", "limit"}
PlanRecord == [prompt : Prompts, st : Statuses]
CallerRecord == [st : {"idle", "waits", "plan", "limit", "cancelled"}, task : Nat]

PlanTypes == /\ plans \in Seq(PlanRecord)
             /\ cache \in [Prompts -> Nat]
             /\ caller \in [Callers -> CallerRecord]

\* The cache holds tasks of the prompt they are filed under, the callers tasks there are.
TasksExist == /\ \A p \in Prompts : cache[p] # 0 => cache[p] \in DOMAIN plans /\ plans[cache[p]].prompt = p
              /\ \A c \in Callers : caller[c].st # "idle" => caller[c].task \in DOMAIN plans

\* What anyone has been given as a failure is in the cache no longer.
FailureIsDropped ==
  \A c \in Callers : caller[c].st = "limit" => \A p \in Prompts : cache[p] # caller[c].task

\* With room for all prompts, a task that has left the cache has failed.
OldPlansFailed ==
  Cardinality(Prompts) <= MaxCached =>
    \A t \in DOMAIN plans : plans[t].st # "limit" => cache[plans[t].prompt] = t

PlansInv == PlanTypes /\ TasksExist /\ FailureIsDropped /\ OldPlansFailed /\ PlannedOnce

\* A cache with room for all prompts is not full while one of them is missing.
LEMMA RoomForAnother ==
  ASSUME Cardinality(Prompts) <= MaxCached, NEW p \in Prompts, cache[p] = 0
  PROVE  ~(Cardinality(Cached) >= MaxCached)
<1>1. Cached \subseteq Prompts \ {p} BY DEF Cached
<1>2. IsFiniteSet(Prompts) /\ Cardinality(Prompts) \in Nat /\ MaxCached \in Nat
  BY PlansAssumption, FS_CardinalityType
<1>3. IsFiniteSet(Prompts \ {p}) /\ Cardinality(Prompts \ {p}) = Cardinality(Prompts) - 1
  BY <1>2, FS_RemoveElement
<1>4. Cardinality(Cached) <= Cardinality(Prompts \ {p}) /\ IsFiniteSet(Cached)
  BY <1>1, <1>3, FS_Subset
<1>5. Cardinality(Cached) \in Nat BY <1>4, FS_CardinalityType
<1> QED BY <1>2, <1>3, <1>4, <1>5

\* The invariant holds at the start.
LEMMA PlansInitInv == PlansInit => PlansInv
<1> SUFFICES ASSUME PlansInit PROVE PlansInv
  OBVIOUS
<1>1. PlanTypes BY DEF PlansInit, PlanTypes, PlanRecord, CallerRecord, Idle
<1>2. TasksExist BY DEF PlansInit, TasksExist, Idle
<1>3. FailureIsDropped BY DEF PlansInit, FailureIsDropped, Idle
<1>4. OldPlansFailed BY DEF PlansInit, OldPlansFailed
<1>5. PlannedOnce BY DEF PlansInit, PlannedOnce
<1> QED BY <1>1, <1>2, <1>3, <1>4, <1>5 DEF PlansInv

\* Asking for a plan keeps the invariant.
LEMMA AskInv == ASSUME PlansInv, NEW c \in Callers, Ask(c) PROVE PlansInv'
<1> USE DEF PlansInv, PlanTypes
<1>1. PICK p \in Prompts :
        /\ caller[c].st = "idle"
        /\ IF cache[p] # 0 THEN UNCHANGED <<plans, cache>>
           ELSE /\ Len(plans) < MaxPlans
                /\ plans' = Append(plans, [prompt |-> p, st |-> "running"])
                /\ Store(p, Len(plans'))
        /\ caller' = [caller EXCEPT ![c] = [st |-> "waits", task |-> cache'[p]]]
  BY DEF Ask
<1>2. CASE cache[p] # 0
  <2>1. plans' = plans /\ cache' = cache BY <1>1, <1>2
  <2>2. cache[p] \in DOMAIN plans /\ cache[p] \in Nat BY <1>2 DEF TasksExist
  <2>3. PlanTypes' BY <1>1, <2>1, <2>2 DEF CallerRecord
  <2>4. TasksExist' BY <1>1, <2>1, <2>2 DEF TasksExist
  <2>5. FailureIsDropped' BY <1>1, <2>1 DEF FailureIsDropped
  <2>6. OldPlansFailed' BY <2>1 DEF OldPlansFailed
  <2>7. PlannedOnce' BY <2>1 DEF PlannedOnce
  <2> QED BY <2>3, <2>4, <2>5, <2>6, <2>7
<1>3. CASE cache[p] = 0
  <2> DEFINE n == Len(plans) + 1
             r == [prompt |-> p, st |-> "running"]
  <2>1. plans' = Append(plans, r) /\ Store(p, Len(plans')) BY <1>1, <1>3
  <2>2. r \in PlanRecord BY DEF PlanRecord, Statuses
  <2>3. plans' \in Seq(PlanRecord) /\ Len(plans') = n /\ n \in Nat /\ n # 0 BY <2>1, <2>2
  <2>4. DOMAIN plans = 1..Len(plans) /\ DOMAIN plans' = 1..n /\ Len(plans) \in Nat BY <2>3
  <2>5. \A t \in DOMAIN plans : t \in DOMAIN plans' /\ plans'[t] = plans[t] BY <2>1, <2>4, <2>2
  <2>6. plans'[n] = r /\ n \in DOMAIN plans' /\ n \notin DOMAIN plans BY <2>1, <2>4, <2>2
  <2>7. cache'[p] = n /\ cache' \in [Prompts -> Nat] BY <2>1, <2>3 DEF Store
  <2>8. \A q \in Prompts : q # p => cache'[q] = cache[q] \/ cache'[q] = 0 BY <2>1 DEF Store
  <2>9. caller'[c] = [st |-> "waits", task |-> n] /\ \A d \in Callers : d # c => caller'[d] = caller[d]
    BY <1>1, <2>7
  <2>10. PlanTypes' BY <1>1, <2>3, <2>7 DEF CallerRecord
  <2>11. TasksExist'
    <3>1. ASSUME NEW q \in Prompts, cache'[q] # 0
          PROVE  cache'[q] \in DOMAIN plans' /\ plans'[cache'[q]].prompt = q
      <4>1. CASE q = p BY <4>1, <2>6, <2>7
      <4>2. CASE q # p
        <5>1. cache'[q] = cache[q] /\ cache[q] # 0 BY <4>2, <3>1, <2>8
        <5>2. cache[q] \in DOMAIN plans /\ plans[cache[q]].prompt = q BY <5>1 DEF TasksExist
        <5> QED BY <5>1, <5>2, <2>5
      <4> QED BY <4>1, <4>2
    <3>2. ASSUME NEW d \in Callers, caller'[d].st # "idle" PROVE caller'[d].task \in DOMAIN plans'
      <4>1. CASE d = c BY <4>1, <2>6, <2>9
      <4>2. CASE d # c BY <4>2, <3>2, <2>5, <2>9 DEF TasksExist
      <4> QED BY <4>1, <4>2
    <3> QED BY <3>1, <3>2 DEF TasksExist
  <2>12. FailureIsDropped'
    <3> SUFFICES ASSUME NEW d \in Callers, caller'[d].st = "limit", NEW q \in Prompts
                 PROVE  cache'[q] # caller'[d].task
      BY DEF FailureIsDropped
    <3>1. d # c /\ caller'[d] = caller[d] BY <2>9
    <3>2. caller[d].task \in DOMAIN plans /\ cache[q] # caller[d].task
      BY <3>1 DEF TasksExist, FailureIsDropped
    <3>3. caller[d].task # n /\ caller[d].task # 0 BY <3>2, <2>4, <2>6
    <3> QED BY <3>1, <3>2, <3>3, <2>7, <2>8
  <2>13. OldPlansFailed'
    <3> SUFFICES ASSUME Cardinality(Prompts) <= MaxCached,
                        NEW t \in DOMAIN plans', plans'[t].st # "limit"
                 PROVE  cache'[plans'[t].prompt] = t
      BY DEF OldPlansFailed
    <3>1. CASE t = n BY <3>1, <2>6, <2>7
    <3>2. CASE t # n
      <4>1. t \in DOMAIN plans /\ plans'[t] = plans[t] BY <3>2, <2>4, <2>5
      <4>2. cache[plans[t].prompt] = t BY <4>1 DEF OldPlansFailed
      <4>3. plans[t] \in PlanRecord /\ t # 0 BY <4>1, <2>4
      <4>4. plans[t].prompt # p BY <4>2, <4>3, <1>3
      <4>5. plans[t].prompt \in Prompts BY <4>3 DEF PlanRecord
      <4>6. ~(Cardinality(Cached) >= MaxCached) BY <1>3, RoomForAnother
      <4>7. cache'[plans[t].prompt] = cache[plans[t].prompt] BY <2>1, <4>4, <4>5, <4>6 DEF Store
      <4> QED BY <4>1, <4>2, <4>7
    <3> QED BY <3>1, <3>2
  <2>14. PlannedOnce'
    <3> SUFFICES ASSUME Cardinality(Prompts) <= MaxCached,
                        NEW t \in DOMAIN plans', NEW u \in DOMAIN plans',
                        t < u, plans'[t].prompt = plans'[u].prompt
                 PROVE  plans'[t].st = "limit"
      BY DEF PlannedOnce
    <3>1. t \in DOMAIN plans /\ plans'[t] = plans[t] BY <2>4, <2>5
    <3>2. CASE u = n
      <4>1. plans[t].prompt = p /\ t # 0 BY <3>1, <3>2, <2>4, <2>6
      <4> QED BY <4>1, <3>1, <1>3 DEF OldPlansFailed
    <3>3. CASE u # n
      <4>1. u \in DOMAIN plans /\ plans'[u] = plans[u] BY <3>3, <2>4, <2>5
      <4> QED BY <4>1, <3>1 DEF PlannedOnce
    <3> QED BY <3>2, <3>3
  <2> QED BY <2>10, <2>11, <2>12, <2>13, <2>14
<1> QED BY <1>2, <1>3

\* The end of a plan keeps the invariant.
LEMMA PlanEndsInv == ASSUME PlansInv, NEW t \in DOMAIN plans, PlanEnds(t) PROVE PlansInv'
<1> USE DEF PlansInv, PlanTypes
<1>1. PICK st \in {"plan", "limit"} : plans' = [plans EXCEPT ![t].st = st] BY DEF PlanEnds
<1>2. plans[t].st = "running" /\ cache' = cache /\ caller' = caller BY DEF PlanEnds
<1>3. plans' \in Seq(PlanRecord) /\ DOMAIN plans' = DOMAIN plans
  <2>1. plans[t] \in PlanRecord OBVIOUS
  <2>2. [plans[t] EXCEPT !.st = st] \in PlanRecord BY <2>1, <1>1 DEF PlanRecord, Statuses
  <2>3. plans' = [plans EXCEPT ![t] = [plans[t] EXCEPT !.st = st]] BY <1>1
  <2> QED BY <2>2, <2>3
<1>4. \A u \in DOMAIN plans : plans'[u].prompt = plans[u].prompt /\ (u # t => plans'[u] = plans[u])
  BY <1>1 DEF PlanRecord
<1>5. PlanTypes' BY <1>2, <1>3
<1>6. TasksExist' BY <1>2, <1>3, <1>4 DEF TasksExist
<1>7. FailureIsDropped' BY <1>2 DEF FailureIsDropped
<1>8. OldPlansFailed'
  <2> SUFFICES ASSUME Cardinality(Prompts) <= MaxCached,
                      NEW u \in DOMAIN plans', plans'[u].st # "limit"
               PROVE  cache'[plans'[u].prompt] = u
    BY DEF OldPlansFailed
  <2>1. u \in DOMAIN plans /\ plans[u].st # "limit" BY <1>2, <1>3, <1>4
  <2> QED BY <2>1, <1>2, <1>4 DEF OldPlansFailed
<1>9. PlannedOnce' BY <1>2, <1>3, <1>4 DEF PlannedOnce
<1> QED BY <1>5, <1>6, <1>7, <1>8, <1>9

\* An answer keeps the invariant: a failure leaves the cache as it is handed out.
LEMMA ReceiveInv == ASSUME PlansInv, NEW c \in Callers, Receive(c) PROVE PlansInv'
<1> USE DEF PlansInv, PlanTypes
<1> DEFINE t == caller[c].task
<1>1. /\ caller[c].st = "waits" /\ plans[t].st # "running"
      /\ caller' = [caller EXCEPT ![c].st = plans[t].st]
      /\ cache' = [p \in Prompts |-> IF plans[t].st = "limit" /\ cache[p] = t THEN 0 ELSE cache[p]]
      /\ plans' = plans
  BY DEF Receive
<1>2. t \in DOMAIN plans /\ plans[t] \in PlanRecord BY <1>1 DEF TasksExist
<1>3. plans[t].st \in {"plan", "limit"} BY <1>1, <1>2 DEF PlanRecord, Statuses
<1>4. PlanTypes' BY <1>1, <1>3 DEF CallerRecord
<1>5. \A d \in Callers : caller'[d].task = caller[d].task /\ (d # c => caller'[d] = caller[d])
  BY <1>1 DEF CallerRecord
<1>6. caller'[c].st = plans[t].st BY <1>1 DEF CallerRecord
<1>7. \A p \in Prompts : cache'[p] = cache[p] \/ cache'[p] = 0 BY <1>1
<1>8. t # 0 /\ \A u \in DOMAIN plans : u # 0 BY <1>2
<1>9. TasksExist' BY <1>1, <1>2, <1>5, <1>7 DEF TasksExist
<1>10. FailureIsDropped'
  <2> SUFFICES ASSUME NEW d \in Callers, caller'[d].st = "limit", NEW p \in Prompts
               PROVE  cache'[p] # caller'[d].task
    BY DEF FailureIsDropped
  <2>1. CASE d = c BY <2>1, <1>1, <1>5, <1>6, <1>8
  <2>2. CASE d # c
    <3>1. caller[d].st = "limit" /\ caller'[d].task = caller[d].task BY <2>2, <1>5
    <3>2. cache[p] # caller[d].task /\ caller[d].task # 0
      BY <3>1, <1>8 DEF FailureIsDropped, TasksExist
    <3> QED BY <3>1, <3>2, <1>7
  <2> QED BY <2>1, <2>2
<1>11. OldPlansFailed'
  <2> SUFFICES ASSUME Cardinality(Prompts) <= MaxCached,
                      NEW u \in DOMAIN plans, plans[u].st # "limit"
               PROVE  cache'[plans[u].prompt] = u
    BY <1>1 DEF OldPlansFailed
  <2>1. plans[u] \in PlanRecord OBVIOUS
  <2>2. plans[u].prompt \in Prompts BY <2>1 DEF PlanRecord
  <2>3. cache[plans[u].prompt] = u BY DEF OldPlansFailed
  <2>4. ~(plans[t].st = "limit" /\ u = t) OBVIOUS
  <2> QED BY <2>2, <2>3, <2>4, <1>1
<1>12. PlannedOnce' BY <1>1 DEF PlannedOnce
<1> QED BY <1>4, <1>9, <1>10, <1>11, <1>12

\* A caller who is cancelled, or asks again, leaves plans and cache alone.
LEMMA CallerInv ==
  ASSUME PlansInv, NEW c \in Callers, CancelCaller(c) \/ Again(c) PROVE PlansInv'
<1> USE DEF PlansInv, PlanTypes
<1>1. plans' = plans /\ cache' = cache BY DEF CancelCaller, Again
<1>2. \A d \in Callers : d # c => caller'[d] = caller[d] BY DEF CancelCaller, Again
<1>3. /\ caller' \in [Callers -> CallerRecord] /\ caller'[c].st # "limit"
      /\ caller'[c].st # "idle" => caller[c].st # "idle" /\ caller'[c].task = caller[c].task
  <2>1. caller[c] \in CallerRecord OBVIOUS
  <2>2. CASE CancelCaller(c) BY <2>1, <2>2 DEF CancelCaller, CallerRecord
  <2>3. CASE Again(c) BY <2>1, <2>3 DEF Again, Idle, CallerRecord
  <2> QED BY <2>2, <2>3
<1>4. TasksExist' BY <1>1, <1>2, <1>3 DEF TasksExist
<1>5. FailureIsDropped' BY <1>1, <1>2, <1>3 DEF FailureIsDropped
<1>6. OldPlansFailed' BY <1>1 DEF OldPlansFailed
<1>7. PlannedOnce' BY <1>1 DEF PlannedOnce
<1> QED BY <1>1, <1>3, <1>4, <1>5, <1>6, <1>7

\* Every step keeps the invariant.
LEMMA PlansNextInv == PlansInv /\ [PlansNext]_planVars => PlansInv'
<1> SUFFICES ASSUME PlansInv, [PlansNext]_planVars PROVE PlansInv'
  OBVIOUS
<1>1. ASSUME NEW c \in Callers, Ask(c) PROVE PlansInv' BY <1>1, AskInv
<1>2. ASSUME NEW c \in Callers, Receive(c) PROVE PlansInv' BY <1>2, ReceiveInv
<1>3. ASSUME NEW c \in Callers, CancelCaller(c) \/ Again(c) PROVE PlansInv' BY <1>3, CallerInv
<1>4. ASSUME NEW t \in DOMAIN plans, PlanEnds(t) PROVE PlansInv' BY <1>4, PlanEndsInv
<1>5. CASE UNCHANGED planVars
  BY <1>5 DEF planVars, PlansInv, PlanTypes, TasksExist, FailureIsDropped, OldPlansFailed, PlannedOnce
<1> QED BY <1>1, <1>2, <1>3, <1>4, <1>5 DEF PlansNext

\* What is in the cache has been given to nobody as a failure.
LEMMA NoFailureKept == PlansInv => FailureIsNotKept
<1> SUFFICES ASSUME PlansInv, NEW p \in Cached, NEW c \in Callers,
                    caller[c].task = cache[p], caller[c].st = "limit"
             PROVE  FALSE
  BY DEF FailureIsNotKept
<1> QED BY DEF PlansInv, FailureIsDropped, Cached

\* generate_google_search_query_plan: the plan of a prompt is shared by all who ask for it,
\* and a failure that somebody was given is not, for any callers, prompts and cache size.
THEOREM PlansAlwaysShared == PlansSpec => []PlansAreShared
<1>1. PlansInit => PlansInv BY PlansInitInv
<1>2. PlansInv /\ [PlansNext]_planVars => PlansInv' BY PlansNextInv
<1>3. PlansInv => PlansAreShared BY NoFailureKept DEF PlansInv, PlansAreShared
<1> QED BY <1>1, <1>2, <1>3, PTL DEF PlansSpec

(***************************************************************************)
(* ResearchPipeline, for every list of engines and every set of markets.   *)
(*                                                                         *)
(* Behind each await of run_research the tasks it awaited are settled, and *)
(* met no limit; the two places that start the explorer exclude each       *)
(* other; the engine whose section is kept is the last one asked that had  *)
(* hits.  The parts below say so stage by stage, and the bundle's          *)
(* properties are what they come to at the last stage.                     *)
(***************************************************************************)

(***************************************************************************)
(* The invariant, by what it is about.                                     *)
(***************************************************************************)
TasksSettled(ts) == \A t \in ts : task[t] \in {"off", "done"} /\ out[t] # "limit"

\* The stages of run_research behind each of its awaits.
AfterFinal == {"compile", "done"}
AfterExplore == {"recheck"} \cup AfterFinal
AfterEarly == {"check", "decide", "retry", "explore"} \cup AfterExplore
AfterAgent == {"early"} \cup AfterEarly
AfterGather == {"agent"} \cup AfterAgent
AfterSearch == {"gather"} \cup AfterGather
BeforeHits == {"start", "asknews", "filter", "plan", "queries"} \cup EngineSet
BeforeDecide == BeforeHits \cup {"reading", "gather", "agent", "early", "check", "decide"}

\* What has been awaited has ended, and did not meet the limit.
AwaitedSettled ==
  /\ at \in AfterGather => TasksSettled(Gathered)
  /\ at \in AfterAgent => TasksSettled({"api"})
  /\ at \in AfterEarly => TasksSettled({"early"})
  /\ at \in AfterExplore => TasksSettled({"backstop"})
  /\ at \notin {"raised", "cancelled"} =>
       /\ \A s \in {"asknews", "search", "retry"} : out[s] # "limit"
       /\ \A s \in Sections : out[s] # "cancelled"

\* The two starts of the explorer exclude each other, and the second is made
\* whenever a gap finds that the first was not.
ExplorerInv ==
  /\ explored \in {0, 1}
  /\ at = "start" => task["early"] = "off" /\ out["early"] = "none"
  /\ at \in BeforeDecide => task["backstop"] = "off"
  /\ task["backstop"] # "off" => task["early"] \in {"off", "done"}
  /\ task["early"] \in {"waits", "listing"} => explored = 0
  /\ task["early"] # "runs" /\ out["early"] = "none" /\ task["backstop"] = "off" =>
       explored = 0
  /\ out["early"] \in {"text", "poor"} => explored = 1
  /\ task["early"] = "runs" => explored = 1
  /\ at \in {"retry", "explore"} /\ ExplorerOn /\ Gap => explored = 1

\* The section kept, the engine it came from, and what the banner will say.
ChosenInv ==
  /\ at \in BeforeHits => out["search"] = "none" /\ chosen = "none"
  /\ at = "reading" => out["search"] = "none" /\ chosen # "none"
  /\ out["search"] = "text" => chosen # "none"
  /\ at \in AfterSearch =>
       /\ (chosen # "none" <=> out["search"] = "text")
       /\ (degraded = {} <=> out["search"] = "text")
  /\ at = "retry" => label # "none" /\ (chosen # "none" => label = chosen)

\* What was asked, in what order, and what is remembered of it.
AskedInv ==
  /\ \A i, j \in DOMAIN asked : i < j /\ asked[j][1] = asked[i][1] => asked[i][2] # "spent"
  /\ \A i \in DOMAIN asked : asked[i][2] = "spent" => asked[i][1] \in exhausted
  /\ at \in BeforeHits => \A i \in DOMAIN asked : asked[i][2] # "hits"
  /\ chosen # "none" =>
       \A i, j \in DOMAIN asked : i <= j /\ asked[i][2] = "hits" => asked[j][1] = chosen

ResearchInv == /\ ResearchTypeOK /\ AwaitedSettled /\ ExplorerInv /\ ChosenInv /\ AskedInv
               /\ VerdictIsFresh

(***************************************************************************)
(* The operators.                                                          *)
(***************************************************************************)
\* A set of natural numbers has its least one.
LEMMA LeastNat ==
  ASSUME NEW S \in SUBSET Nat, S # {}
  PROVE  Min(S) \in S
<1>1. IsWellFoundedOn(OpToRel(<, Nat), Nat) BY NatLessThanWellFounded
<1>2. PICK m \in S : \A n \in S : ~ (<<n, m>> \in OpToRel(<, Nat)) BY <1>1, WFMin
<1>3. \A n \in S : ~ (n < m) BY <1>2 DEF OpToRel
<1>4. \A n \in S : m <= n BY <1>3
<1> QED BY <1>4 DEF Min

\* The engine after another is an engine, if there is one.
LEMMA AfterIsNext ==
  ASSUME NEW e \in EngineSet
  PROVE  /\ After(e) \in Nat
         /\ After(e) <= Len(Engines) => Engines[After(e)] \in EngineSet
<1> DEFINE I == {i \in 1 .. Len(Engines) : Engines[i] = e}
<1>1. I # {} BY EnginesAssumption DEF EngineSet, Range
<1>2. Min(I) \in I BY <1>1, LeastNat
<1>3. After(e) = Min(I) + 1 BY <1>1 DEF After, SelectInSeq
<1>4. Min(I) \in Nat BY <1>2
<1> HIDE DEF I
<1>5. After(e) \in Nat /\ After(e) >= 1 BY <1>3, <1>4
<1>6. \A i \in 1 .. Len(Engines) : Engines[i] \in EngineSet
  BY EnginesAssumption DEF EngineSet, Range
<1> QED BY <1>5, <1>6, EnginesAssumption

\* The retry's engine: the one kept, or any.
LEMMA RetryLabelIsEngine ==
  ASSUME chosen \in EngineSet \cup {"none"}
  PROVE  /\ RetryLabel \in EngineSet \cup {"none"}
         /\ chosen # "none" => RetryLabel = chosen
<1> DEFINE I == {i \in DOMAIN Engines : Engines[i] \notin exhausted}
<1>0. I \in SUBSET Nat BY EnginesAssumption
<1>1. I # {} => Min(I) \in I BY <1>0, LeastNat
<1>2. I # {} => Engines[Min(I)] \in EngineSet BY <1>1 DEF EngineSet, Range
<1> QED BY <1>2 DEF RetryLabel

\* What an engine's queries come to.
LEMMA AnswersAre ==
  ASSUME NEW e, NEW a \in SearchAnswers(e)
  PROVE  a \in {"hits", "error", "spent"}
BY DEF SearchAnswers

\* Engines are no stages, and the fixed tasks no markets.
LEMMA EnginesAreNoStages == ASSUME NEW e \in EngineSet PROVE e \notin Stages /\ e # "none"
BY NamesAssumption

\* The answers are added at the end.
LEMMA AskedOneMore ==
  ASSUME asked \in Seq(EngineSet \X {"hits", "error", "spent"}),
         NEW e \in EngineSet, NEW a \in {"hits", "error", "spent"},
         asked' = Append(asked, <<e, a>>)
  PROVE  /\ asked' \in Seq(EngineSet \X {"hits", "error", "spent"})
         /\ DOMAIN asked = 1 .. Len(asked) /\ DOMAIN asked' = 1 .. Len(asked) + 1
         /\ \A i \in DOMAIN asked : asked'[i] = asked[i]
         /\ asked'[Len(asked) + 1] = <<e, a>>
OBVIOUS

(***************************************************************************)
(* The types.                                                              *)
(***************************************************************************)
LEMMA TypeInit == ResearchInit => ResearchTypeOK
BY DEF ResearchInit, ResearchTypeOK, Stages, Ended, Sections, Result, Verdicts

\* A task's step keeps the types.
LEMMA TypeTask == ASSUME ResearchTypeOK, TaskStep PROVE ResearchTypeOK'
<1> USE DEF runVars
<1> USE DEF ResearchTypeOK
<1>0. Tasks \subseteq Sections /\ {"resolution", "early"} \subseteq Tasks
  BY DEF Sections, Tasks, Gathered
<1>1. CASE SummaryIn BY <1>1 DEF SummaryIn
<1>2. CASE EarlyWakes BY <1>0, <1>2 DEF EarlyWakes, Return, Result
<1>3. CASE EarlyExplores
  <2>1. explored' \in Nat BY <1>3 DEF EarlyExplores
  <2>2. task' \in [Tasks -> {"off", "waits", "listing", "runs", "done"}]
    BY <1>0, <1>3 DEF EarlyExplores
  <2> QED BY <1>3, <2>1, <2>2 DEF EarlyExplores
<1>4. CASE \E t \in Tasks : ProviderReturns(t)
  BY <1>0, <1>4 DEF ProviderReturns, Return, Result
<1> QED BY <1>1, <1>2, <1>3, <1>4 DEF TaskStep

\* An engine is left for another one, or for the tasks.
LEMMA NextIsStage ==
  ASSUME NEW e \in EngineSet, NEW why, NextEngine(e, why), ready \subseteq {"summary", "search"}
  PROVE  /\ at' \in {"gather"} \cup EngineSet
         /\ at' \in Stages \cup EngineSet
         /\ ready' \subseteq {"summary", "search"}
<1>1. After(e) \in Nat /\ Len(Engines) \in Nat BY AfterIsNext, EnginesAssumption
<1>2. CASE After(e) > Len(Engines) BY <1>2 DEF NextEngine, SearchOver, Stages
<1>3. CASE ~ (After(e) > Len(Engines))
  <2>1. After(e) <= Len(Engines) BY <1>1, <1>3
  <2> QED BY <1>3, <2>1, AfterIsNext DEF NextEngine
<1> QED BY <1>2, <1>3

\* A step of the coroutine keeps the types.
LEMMA TypeRun == ASSUME ResearchTypeOK, ChosenInv, RunStep PROVE ResearchTypeOK'
<1> USE DEF ResearchTypeOK
<1>0. /\ Tasks \subseteq Sections /\ {"asknews", "search", "retry"} \subseteq Sections
      /\ {"resolution", "early", "api", "backstop"} \subseteq Tasks
  BY DEF Sections, Tasks, Gathered
<1>1. CASE StartTasks BY <1>0, <1>1 DEF StartTasks, Stages, Ended
<1>2. CASE AskNews BY <1>0, <1>2 DEF AskNews, Stages, Ended, Result
<1>3. CASE FilterAskNews BY <1>3 DEF FilterAskNews, Stages, Ended
<1>4. CASE EvidencePlan BY <1>4 DEF EvidencePlan, Raise, Stages, Ended
<1>5. CASE PlanQueries
  <2>1. Engines # <<>> => Engines[1] \in EngineSet BY EnginesAssumption DEF EngineSet, Range
  <2> QED BY <1>5, <2>1 DEF PlanQueries, SearchOver, Stages, Ended
<1>6. ASSUME NEW e \in EngineSet, SkipEngine(e) PROVE ResearchTypeOK'
  <2>1. at' \in Stages \cup EngineSet /\ ready' \subseteq {"summary", "search"}
    BY <1>6, NextIsStage DEF SkipEngine
  <2> QED BY <1>6, <2>1 DEF SkipEngine
<1>7. ASSUME NEW e \in EngineSet, SearchWith(e) PROVE ResearchTypeOK'
  <2>1. PICK a \in SearchAnswers(e) : asked' = Append(asked, <<e, a>>) /\ Remember(e, a)
          /\ IF a = "hits" THEN at' = "reading" /\ chosen' = e /\ ready' = ready \cup {"search"}
             ELSE NextEngine(e, e) /\ chosen' = chosen
    BY <1>7 DEF SearchWith
  <2>2. asked' \in Seq(EngineSet \X {"hits", "error", "spent"})
    BY <2>1, AskedOneMore, AnswersAre
  <2>3. at' \in Stages \cup EngineSet /\ ready' \subseteq {"summary", "search"}
    BY <2>1, NextIsStage DEF Stages
  <2> QED BY <1>7, <2>1, <2>2, <2>3 DEF SearchWith, Remember
<1>8. CASE ResearchFromHits BY <1>0, <1>8 DEF ResearchFromHits, Stages, Ended, Result
<1>9. CASE Gather
  <2>1. at' \in Stages BY <1>9 DEF Gather, Collect, Raise, Stages, Ended
  <2> QED BY <1>9, <2>1 DEF Gather, Collect
<1>10. CASE AwaitAgent BY <1>10 DEF AwaitAgent, Collect, Raise, Stages, Ended
<1>11. CASE AwaitEarly BY <1>11 DEF AwaitEarly, Collect, Raise, Stages, Ended
<1>12. CASE VerifyArtifact BY <1>12 DEF VerifyArtifact, Raise, Stages, Ended
<1>13. CASE Decide
  <2>1. label' \in EngineSet \cup {"none"} BY <1>13, RetryLabelIsEngine DEF Decide
  <2>2. task' \in [Tasks -> {"off", "waits", "listing", "runs", "done"}] /\ explored' \in Nat
    BY <1>0, <1>13 DEF Decide
  <2>3. at' \in Stages BY <1>13 DEF Decide, Stages
  <2> QED BY <1>13, <2>1, <2>2, <2>3 DEF Decide
<1>14. CASE FocusedRetry
  <2>0. label \in EngineSet BY <1>14 DEF FocusedRetry, ChosenInv
  <2>1. PICK a \in SearchAnswers(label), o \in Result :
          /\ out' = [out EXCEPT !["retry"] = o]
          /\ IF label \in exhausted THEN UNCHANGED <<asked, exhausted>>
             ELSE asked' = Append(asked, <<label, a>>) /\ Remember(label, a)
          /\ at' = IF o = "limit" THEN "raised" ELSE "explore"
          /\ included' = IF o = "text" THEN included \cup {"retry"} ELSE included
    BY <1>14 DEF FocusedRetry
  <2>2. asked' \in Seq(EngineSet \X {"hits", "error", "spent"})
    BY <2>0, <2>1, AskedOneMore, AnswersAre
  <2>3. exhausted' \subseteq EngineSet BY <2>0, <2>1 DEF Remember
  <2>4. included' \subseteq Sections /\ at' \in Stages BY <1>0, <2>1 DEF Stages, Ended
  <2>5. out' \in [Sections -> Result \cup {"none", "cancelled"}] BY <1>0, <2>1
  <2> QED BY <1>14, <2>2, <2>3, <2>4, <2>5 DEF FocusedRetry
<1>15. CASE AwaitBackstop BY <1>0, <1>15 DEF AwaitBackstop, Collect, Raise, Stages, Ended
<1>16. CASE Recheck BY <1>16 DEF Recheck, Raise, Stages, Ended
<1>17. CASE CompileReport BY <1>17 DEF CompileReport, Stages, Ended
<1> QED BY <1>1, <1>2, <1>3, <1>4, <1>5, <1>6, <1>7, <1>8, <1>9, <1>10, <1>11, <1>12,
           <1>13, <1>14, <1>15, <1>16, <1>17 DEF RunStep

\* Every step keeps the types.
LEMMA TypeStep ==
  ASSUME ResearchTypeOK, ChosenInv, [ResearchNext]_vars
  PROVE  ResearchTypeOK'
<1>1. CASE Cancel
  <2>1. Tasks \subseteq Sections BY DEF Sections
  <2>2. /\ task' \in [Tasks -> {"off", "waits", "listing", "runs", "done"}]
        /\ out' \in [Sections -> Result \cup {"none", "cancelled"}]
    BY <1>1, <2>1 DEF Cancel, ResearchTypeOK
  <2>3. at' \in Stages /\ ready' \subseteq {"summary", "search"}
    BY <1>1 DEF Cancel, ResearchTypeOK, Stages, Ended
  <2> QED BY <1>1, <2>2, <2>3 DEF Cancel, ResearchTypeOK
<1>2. CASE OtherQuestionSpends BY <1>2 DEF OtherQuestionSpends, runVars, ResearchTypeOK
<1>3. CASE UNCHANGED vars BY <1>3 DEF vars, ResearchTypeOK
<1> QED BY <1>1, <1>2, <1>3, TypeTask, TypeRun DEF ResearchNext

(***************************************************************************)
(* What has been awaited.                                                  *)
(***************************************************************************)
\* A task's step leaves what has settled as it is.
LEMMA SettledTask ==
  ASSUME ResearchTypeOK, AwaitedSettled, TaskStep
  PROVE  AwaitedSettled'
<1>0. /\ {"resolution", "early"} \subseteq Tasks /\ Tasks \subseteq Sections
      /\ \A s \in {"asknews", "search", "retry"} : s \notin Tasks
  BY NamesAssumption DEF Sections, Tasks, Gathered
<1>1. at' = at BY DEF TaskStep, SummaryIn, EarlyWakes, EarlyExplores, ProviderReturns, runVars
<1>2. \E t \in Tasks :
        /\ task[t] \notin {"off", "done"} \/ UNCHANGED <<task, out>>
        /\ \A s \in Tasks : s # t => task'[s] = task[s]
        /\ \A s \in Sections : s # t => out'[s] = out[s]
        /\ out'[t] \in Result \cup {"none", out[t], out["resolution"]}
  <2>1. CASE SummaryIn BY <1>0, <2>1 DEF SummaryIn
  <2>2. CASE EarlyWakes BY <1>0, <2>2 DEF EarlyWakes, Return, ResearchTypeOK, Result
  <2>3. CASE EarlyExplores BY <1>0, <2>3 DEF EarlyExplores, ResearchTypeOK
  <2>4. ASSUME NEW t \in Tasks, ProviderReturns(t)
        PROVE  /\ task[t] \notin {"off", "done"}
               /\ \A s \in Tasks : s # t => task'[s] = task[s]
               /\ \A s \in Sections : s # t => out'[s] = out[s]
               /\ out'[t] \in Result
    BY <1>0, <2>4 DEF ProviderReturns, Return, ResearchTypeOK
  <2> QED BY <2>1, <2>2, <2>3, <2>4 DEF TaskStep
<1>3. PICK t \in Tasks :
        /\ task[t] \notin {"off", "done"} \/ UNCHANGED <<task, out>>
        /\ \A s \in Tasks : s # t => task'[s] = task[s]
        /\ \A s \in Sections : s # t => out'[s] = out[s]
        /\ out'[t] \in Result \cup {"none", out[t], out["resolution"]}
  BY <1>2
<1>4. ASSUME NEW ts \in SUBSET Tasks, TasksSettled(ts) PROVE TasksSettled(ts)'
  BY <1>0, <1>3, <1>4 DEF TasksSettled
<1>5. Gathered \subseteq Tasks /\ {"api", "early", "backstop"} \subseteq Tasks BY DEF Tasks
<1>6. at \notin {"raised", "cancelled"} =>
       /\ \A s \in {"asknews", "search", "retry"} : out'[s] # "limit"
       /\ \A s \in Sections : out'[s] # "cancelled"
  <2>1. {"asknews", "search", "retry"} \subseteq Sections BY DEF Sections
  <2> QED BY <1>0, <1>3, <2>1 DEF AwaitedSettled, Result
<1> QED BY <1>1, <1>4, <1>5, <1>6 DEF AwaitedSettled

\* A step of the coroutine goes on when what it awaits has settled, and ends when it
\* has met the limit.
LEMMA SettledRun ==
  ASSUME ResearchTypeOK, AwaitedSettled, ExplorerInv, RunStep
  PROVE  AwaitedSettled'
<1> USE DEF AfterFinal, AfterExplore, AfterEarly, AfterAgent, AfterGather
<1>0. /\ Gathered \subseteq Tasks /\ {"resolution", "early", "api", "backstop"} \subseteq Tasks
      /\ Tasks \subseteq Sections /\ {"asknews", "search", "retry"} \subseteq Sections
      /\ \A s \in {"asknews", "search", "retry"} : s \notin Tasks
      /\ \A s \in {"early", "api", "backstop"} : s \notin Gathered
  BY NamesAssumption DEF Sections, Tasks, Gathered
<1>1. CASE StartTasks BY <1>1 DEF StartTasks, AwaitedSettled
<1>2. CASE AskNews
  BY <1>0, <1>2 DEF AskNews, AwaitedSettled, ResearchTypeOK, Result
<1>3. CASE FilterAskNews BY <1>3 DEF FilterAskNews, AwaitedSettled
<1>4. CASE EvidencePlan BY <1>4 DEF EvidencePlan, Raise, AwaitedSettled
<1>5. ASSUME at \in BeforeHits, UNCHANGED <<task, out>>,
             at' \in EngineSet \cup {"reading", "gather", "raised"}
      PROVE  AwaitedSettled'
  <2>1. at \notin Ended /\ at' \notin AfterGather /\ at' # "cancelled"
    BY <1>5, EnginesAreNoStages DEF BeforeHits, Stages, Ended
  <2> QED BY <1>5, <2>1 DEF AwaitedSettled, Ended
<1>6. CASE PlanQueries
  <2>1. Engines # <<>> => Engines[1] \in EngineSet BY EnginesAssumption DEF EngineSet, Range
  <2> QED BY <1>5, <1>6, <2>1 DEF PlanQueries, SearchOver, BeforeHits
<1>7. ASSUME NEW e \in EngineSet, SkipEngine(e) PROVE AwaitedSettled'
  BY <1>5, <1>7, NextIsStage DEF SkipEngine, BeforeHits, ResearchTypeOK
<1>8. ASSUME NEW e \in EngineSet, SearchWith(e) PROVE AwaitedSettled'
  BY <1>5, <1>8, NextIsStage DEF SearchWith, BeforeHits, ResearchTypeOK
<1>9. CASE ResearchFromHits
  BY <1>0, <1>9 DEF ResearchFromHits, AwaitedSettled, ResearchTypeOK, Result
<1>10. CASE Gather
  <2>1. at = "gather" /\ UNCHANGED <<task, out>>
    BY <1>10 DEF Gather, Collect
  <2>3. at' = "raised" \/ (at' = "agent" /\ TasksSettled(Gathered))
    BY <1>10 DEF Gather, Collect, Raise, TasksSettled
  <2>2. at' = "raised" \/ (at' = "agent" /\ TasksSettled(Gathered)') BY <2>1, <2>3 DEF TasksSettled
  <2> QED BY <2>1, <2>2 DEF AwaitedSettled
<1>11. CASE AwaitAgent
  <2>1. at = "agent" /\ UNCHANGED <<task, out>> BY <1>11 DEF AwaitAgent, Collect
  <2>3. at' = "raised" \/ (at' = "early" /\ TasksSettled({"api"}))
    BY <1>11 DEF AwaitAgent, Collect, Raise, TasksSettled
  <2>2. at' = "raised" \/ (at' = "early" /\ TasksSettled({"api"})') BY <2>1, <2>3 DEF TasksSettled
  <2> QED BY <2>1, <2>2 DEF AwaitedSettled, TasksSettled
<1>12. CASE AwaitEarly
  <2>1. at = "early" /\ UNCHANGED <<task, out>> BY <1>12 DEF AwaitEarly, Collect
  <2>3. at' = "raised" \/ (at' = "check" /\ TasksSettled({"early"}))
    BY <1>12 DEF AwaitEarly, Collect, Raise, TasksSettled
  <2>2. at' = "raised" \/ (at' = "check" /\ TasksSettled({"early"})') BY <2>1, <2>3 DEF TasksSettled
  <2> QED BY <2>1, <2>2 DEF AwaitedSettled, TasksSettled
<1>13. CASE VerifyArtifact
  BY <1>13 DEF VerifyArtifact, Raise, AwaitedSettled, TasksSettled
<1>14. CASE Decide
  <2>1. at = "decide" /\ at' \in {"retry", "explore"} /\ out' = out BY <1>14 DEF Decide
  <2>2. \A t \in Tasks : t # "backstop" => task'[t] = task[t]
    BY <1>14 DEF Decide, ResearchTypeOK
  <2>3. "api" # "backstop" /\ "early" # "backstop" /\ "backstop" \notin Gathered BY <1>0
  <2>4. ASSUME NEW ts \in SUBSET Tasks, "backstop" \notin ts, TasksSettled(ts) PROVE TasksSettled(ts)'
    BY <2>1, <2>2, <2>4 DEF TasksSettled
  <2>5. TasksSettled(Gathered)' /\ TasksSettled({"api"})' /\ TasksSettled({"early"})'
    BY <1>0, <2>1, <2>3, <2>4 DEF AwaitedSettled
  <2> QED BY <2>1, <2>5 DEF AwaitedSettled
<1>15. CASE FocusedRetry
  <2>1. /\ at = "retry" /\ task' = task
        /\ \E o \in Result :
             /\ out' = [out EXCEPT !["retry"] = o]
             /\ at' = IF o = "limit" THEN "raised" ELSE "explore"
    BY <1>15 DEF FocusedRetry
  <2>2. \A s \in Sections : s # "retry" => out'[s] = out[s] BY <2>1 DEF ResearchTypeOK
  <2>3. at' = "raised" \/ (at' = "explore" /\ out'["retry"] \in {"text", "poor"})
    BY <1>0, <2>1 DEF ResearchTypeOK, Result
  <2>4. ASSUME NEW ts \in SUBSET Tasks, TasksSettled(ts) PROVE TasksSettled(ts)'
    BY <1>0, <2>1, <2>2, <2>4 DEF TasksSettled
  <2>5. TasksSettled(Gathered)' /\ TasksSettled({"api"})' /\ TasksSettled({"early"})'
    BY <1>0, <2>1, <2>4 DEF AwaitedSettled
  <2> QED BY <1>0, <2>1, <2>2, <2>3, <2>5 DEF AwaitedSettled
<1>16. CASE AwaitBackstop
  <2>1. at = "explore" /\ UNCHANGED <<task, out>> BY <1>16 DEF AwaitBackstop, Collect
  <2>3. at' = "raised" \/ (at' = "recheck" /\ TasksSettled({"backstop"}))
    BY <1>16 DEF AwaitBackstop, Collect, Raise, TasksSettled
  <2>2. at' = "raised" \/ (at' = "recheck" /\ TasksSettled({"backstop"})') BY <2>1, <2>3 DEF TasksSettled
  <2> QED BY <2>1, <2>2 DEF AwaitedSettled, TasksSettled
<1>17. CASE Recheck BY <1>17 DEF Recheck, Raise, AwaitedSettled, TasksSettled
<1>18. CASE CompileReport BY <1>18 DEF CompileReport, AwaitedSettled, TasksSettled
<1> QED BY <1>1, <1>2, <1>3, <1>4, <1>6, <1>7, <1>8, <1>9, <1>10, <1>11, <1>12,
           <1>13, <1>14, <1>15, <1>16, <1>17, <1>18 DEF RunStep

\* Every step of the pipeline keeps what has been awaited settled.
LEMMA SettledStep ==
  ASSUME ResearchTypeOK, AwaitedSettled, ExplorerInv, [ResearchNext]_vars
  PROVE  AwaitedSettled'
<1>1. CASE Cancel
  BY <1>1 DEF Cancel, AwaitedSettled, Ended, AfterFinal, AfterExplore, AfterEarly,
              AfterAgent, AfterGather
<1>2. CASE OtherQuestionSpends BY <1>2 DEF OtherQuestionSpends, runVars, AwaitedSettled, TasksSettled
<1>3. CASE UNCHANGED vars BY <1>3 DEF vars, AwaitedSettled, TasksSettled
<1> QED BY <1>1, <1>2, <1>3, SettledTask, SettledRun DEF ResearchNext

(***************************************************************************)
(* The explorer.                                                           *)
(***************************************************************************)
\* A task's step starts the explorer at most once.
LEMMA ExplorerTask ==
  ASSUME ResearchTypeOK, ExplorerInv, TaskStep
  PROVE  ExplorerInv'
<1>0. /\ {"resolution", "early", "backstop"} \subseteq Tasks /\ Tasks \subseteq Sections
  BY DEF Sections, Tasks, Gathered
<1>1. UNCHANGED <<at, verdict>>
  BY DEF TaskStep, SummaryIn, EarlyWakes, EarlyExplores, ProviderReturns, runVars
<1>2. CASE SummaryIn BY <1>1, <1>2 DEF SummaryIn, ExplorerInv, Gap
<1>3. CASE EarlyWakes
  <2>1. /\ task["early"] = "waits" /\ explored' = explored
        /\ task'["early"] \in {"listing", "done"} /\ task'["backstop"] = task["backstop"]
        /\ out'["early"] = out["early"] \/ out'["early"] \in {"limit", "cancelled", "none"}
    BY <1>0, <1>3 DEF EarlyWakes, Return, ResearchTypeOK
  <2> QED BY <1>1, <2>1 DEF ExplorerInv, Gap
<1>4. CASE EarlyExplores
  <2>1. /\ task["early"] = "listing" /\ explored' = explored + 1 /\ out' = out
        /\ task'["early"] = "runs" /\ task'["backstop"] = task["backstop"]
    BY <1>0, <1>4 DEF EarlyExplores, ResearchTypeOK
  <2> QED BY <1>1, <2>1 DEF ExplorerInv, Gap
<1>5. ASSUME NEW t \in Tasks, ProviderReturns(t) PROVE ExplorerInv'
  <2>1. /\ task[t] = "runs" /\ explored' = explored
        /\ task'[t] = "done" /\ out'[t] \in Result
        /\ \A s \in {"early", "backstop"} :
             s # t => task'[s] = task[s] /\ out'[s] = out[s]
    BY <1>0, <1>5 DEF ProviderReturns, Return, ResearchTypeOK
  <2>2. CASE t = "early" BY <1>1, <2>1, <2>2 DEF ExplorerInv, Gap, Result
  <2>3. CASE t # "early"
    <3>1. task'["early"] = task["early"] /\ out'["early"] = out["early"] BY <2>1, <2>3
    <3>2. task'["backstop"] = "off" <=> task["backstop"] = "off" BY <2>1
    <3> QED BY <1>1, <2>1, <3>1, <3>2 DEF ExplorerInv, Gap
  <2> QED BY <2>2, <2>3
<1> QED BY <1>2, <1>3, <1>4, <1>5 DEF TaskStep

\* A step of the coroutine starts it only if it was not started.
LEMMA ExplorerRun ==
  ASSUME ResearchTypeOK, AwaitedSettled, ExplorerInv, RunStep
  PROVE  ExplorerInv'
<1>0. /\ {"resolution", "early", "backstop", "api"} \subseteq Tasks /\ Tasks \subseteq Sections
      /\ \A s \in {"asknews", "search", "retry"} : s \in Sections /\ s \notin {"early", "backstop"}
      /\ "early" \notin Markets /\ "backstop" \notin Markets
  BY NamesAssumption DEF Sections, Tasks, Gathered
<1> DEFINE Same == /\ UNCHANGED <<explored, task["early"], task["backstop"], out["early"]>>
                   /\ at # "start" /\ at' # "start"
<1>a. ASSUME Same, at' \in BeforeDecide => at \in BeforeDecide,
             at' \notin {"retry", "explore"}
      PROVE  ExplorerInv'
  BY <1>a DEF ExplorerInv
<1>b. \A e \in EngineSet : e # "start" BY NamesAssumption DEF Stages
<1>1. CASE StartTasks
  <2>1. /\ at = "start" /\ at' = "asknews" /\ explored' = explored
        /\ task'["early"] \in {"waits", "off"} /\ task'["backstop"] = task["backstop"]
        /\ out' = out
    BY <1>0, <1>1 DEF StartTasks, ResearchTypeOK
  <2>2. task["backstop"] = "off" /\ explored = 0
    BY <2>1 DEF ExplorerInv, BeforeDecide, BeforeHits
  <2> QED BY <2>1, <2>2 DEF ExplorerInv, BeforeDecide, BeforeHits
<1>2. CASE AskNews
  <2>1. Same BY <1>0, <1>2 DEF AskNews, ResearchTypeOK
  <2> QED BY <1>a, <1>2, <2>1 DEF AskNews, BeforeDecide, BeforeHits
<1>3. CASE FilterAskNews
  BY <1>a, <1>3 DEF FilterAskNews, BeforeDecide, BeforeHits
<1>4. CASE EvidencePlan
  <2>1. task'["early"] = task["early"] /\ task'["backstop"] = task["backstop"]
    BY <1>0, <1>4 DEF EvidencePlan, ResearchTypeOK
  <2> QED BY <1>a, <1>4, <2>1 DEF EvidencePlan, Raise, BeforeDecide, BeforeHits
<1>5. CASE PlanQueries
  <2>1. Engines # <<>> => Engines[1] \in EngineSet BY EnginesAssumption DEF EngineSet, Range
  <2>2. Same BY <1>b, <1>5, <2>1 DEF PlanQueries, SearchOver
  <2>3. at' \notin {"retry", "explore"} BY <1>5, <2>1, EnginesAreNoStages DEF PlanQueries, SearchOver, Stages
  <2>4. at \in BeforeDecide BY <1>5 DEF PlanQueries, BeforeDecide, BeforeHits
  <2> HIDE DEF Same
  <2> QED BY <1>a, <2>2, <2>3, <2>4
<1>c. ASSUME NEW e \in EngineSet, at = e, UNCHANGED <<task, explored>>,
             at' \in {"gather", "reading"} \cup EngineSet, out' = out
      PROVE  ExplorerInv'
  <2>1. at # "start" /\ at' # "start" BY <1>c, EnginesAreNoStages DEF Stages
  <2>2. Same BY <1>c, <2>1
  <2>3. at' \notin {"retry", "explore"} BY <1>c, EnginesAreNoStages DEF Stages
  <2>4. at \in BeforeDecide BY <1>c DEF BeforeDecide, BeforeHits
  <2> HIDE DEF Same
  <2> QED BY <1>a, <2>2, <2>3, <2>4
<1>6. ASSUME NEW e \in EngineSet, SkipEngine(e) PROVE ExplorerInv'
  BY <1>c, <1>6, NextIsStage DEF SkipEngine, ResearchTypeOK
<1>7. ASSUME NEW e \in EngineSet, SearchWith(e) PROVE ExplorerInv'
  BY <1>c, <1>7, NextIsStage DEF SearchWith, ResearchTypeOK
<1>8. CASE ResearchFromHits
  <2>1. Same BY <1>0, <1>8 DEF ResearchFromHits, ResearchTypeOK
  <2> QED BY <1>a, <1>8, <2>1 DEF ResearchFromHits, BeforeDecide
<1>9. CASE Gather BY <1>a, <1>9 DEF Gather, Collect, Raise, BeforeDecide
<1>10. CASE AwaitAgent BY <1>a, <1>10 DEF AwaitAgent, Collect, Raise, BeforeDecide
<1>11. CASE AwaitEarly BY <1>a, <1>11 DEF AwaitEarly, Collect, Raise, BeforeDecide
<1>12. CASE VerifyArtifact BY <1>a, <1>12 DEF VerifyArtifact, Raise, BeforeDecide
<1>13. CASE Decide
  <2>1. /\ at = "decide" /\ at' \in {"retry", "explore"} /\ UNCHANGED <<out, verdict>>
        /\ task'["early"] = task["early"]
        /\ IF Backstop THEN task'["backstop"] = "runs" /\ explored' = explored + 1
           ELSE task'["backstop"] = task["backstop"] /\ explored' = explored
    BY <1>0, <1>13 DEF Decide, ResearchTypeOK
  <2>2. /\ task["early"] \in {"off", "done"} /\ out["early"] \in {"none", "text", "poor"}
        /\ task["backstop"] = "off"
    BY <1>0, <2>1 DEF AwaitedSettled, TasksSettled, AfterEarly, ExplorerInv, BeforeDecide,
                     ResearchTypeOK, Result
  <2>3. at' \notin BeforeDecide \cup {"start"}
    BY <2>1, EnginesAreNoStages DEF BeforeDecide, BeforeHits, Stages
  <2>4. out["early"] = "none" => explored = 0 BY <2>2 DEF ExplorerInv
  <2>5. out["early"] # "none" => explored = 1 BY <2>2 DEF ExplorerInv
  <2>6. Gap' <=> Gap BY <2>1 DEF Gap
  <2> QED BY <2>1, <2>2, <2>3, <2>4, <2>5, <2>6 DEF ExplorerInv, Backstop
<1>14. CASE FocusedRetry
  <2>1. /\ at = "retry" /\ at' \in {"raised", "explore"} /\ UNCHANGED <<explored, verdict, task>>
        /\ out'["early"] = out["early"]
    BY <1>0, <1>14 DEF FocusedRetry, ResearchTypeOK
  <2>2. at' \notin BeforeDecide \cup {"start"}
    BY <2>1, EnginesAreNoStages DEF BeforeDecide, BeforeHits, Stages, Ended
  <2> QED BY <2>1, <2>2 DEF ExplorerInv, Gap
<1>15. ASSUME UNCHANGED <<task, out, explored>>,
              at # "start", at' \in {"raised", "recheck", "compile", "done"}
       PROVE  ExplorerInv'
  <2>1. at' \notin BeforeDecide \cup {"start"}
    BY <1>15, EnginesAreNoStages DEF BeforeDecide, BeforeHits, Stages, Ended
  <2> QED BY <1>a, <1>15, <2>1
<1>16. CASE AwaitBackstop BY <1>15, <1>16 DEF AwaitBackstop, Collect, Raise
<1>17. CASE Recheck BY <1>15, <1>17 DEF Recheck, Raise
<1>18. CASE CompileReport BY <1>15, <1>18 DEF CompileReport
<1> QED BY <1>1, <1>2, <1>3, <1>4, <1>5, <1>6, <1>7, <1>8, <1>9, <1>10, <1>11, <1>12,
           <1>13, <1>14, <1>16, <1>17, <1>18 DEF RunStep

\* The explorer runs once, whatever happens.
LEMMA ExplorerStep ==
  ASSUME ResearchTypeOK, AwaitedSettled, ExplorerInv, [ResearchNext]_vars
  PROVE  ExplorerInv'
<1>1. CASE Cancel
  <2>0. {"early", "backstop"} \subseteq Tasks /\ Tasks \subseteq Sections BY DEF Tasks, Sections
  <2>1. at' = "cancelled" /\ explored' = explored BY <1>1 DEF Cancel
  <2>2. \A t \in {"early", "backstop"} :
          \/ task'[t] = task[t] /\ out'[t] = out[t]
          \/ task[t] \notin {"off", "done"} /\ task'[t] = "done" /\ out'[t] = "cancelled"
    BY <1>1, <2>0 DEF Cancel
  <2>3. at' \notin BeforeDecide \cup {"start"}
    BY <2>1, EnginesAreNoStages DEF BeforeDecide, BeforeHits, Stages, Ended
  <2> QED BY <2>1, <2>2, <2>3 DEF ExplorerInv
<1>2. CASE OtherQuestionSpends BY <1>2 DEF OtherQuestionSpends, runVars, ExplorerInv, Gap
<1>3. CASE UNCHANGED vars BY <1>3 DEF vars, ExplorerInv, Gap
<1> QED BY <1>1, <1>2, <1>3, ExplorerTask, ExplorerRun DEF ResearchNext

(***************************************************************************)
(* The section that is kept, and the banner.                               *)
(***************************************************************************)
\* The main pass keeps a section, or what failed is told.
LEMMA ChosenStep ==
  ASSUME ResearchTypeOK, ChosenInv, [ResearchNext]_vars
  PROVE  ChosenInv'
<1> USE DEF AfterFinal, AfterExplore, AfterEarly, AfterAgent, AfterGather, AfterSearch
<1>0. /\ Tasks \subseteq Sections /\ "search" \in Sections /\ "search" \notin Tasks
      /\ "asknews" # "search" /\ "retry" # "search"
  BY NamesAssumption DEF Sections, Tasks, Gathered
<1>a. ASSUME UNCHANGED <<out["search"], chosen, degraded>>,
             at' \in BeforeHits => at \in BeforeHits,
             at' \in AfterSearch => at \in AfterSearch,
             at' = "reading" => at = "reading",
             at' = "retry" => at = "retry" /\ label' = label
      PROVE  ChosenInv'
  BY <1>a DEF ChosenInv
<1>b. ASSUME NEW x \in Stages, x \notin {"start", "asknews", "filter", "plan", "queries"}
      PROVE  x \notin BeforeHits
  BY <1>b, NamesAssumption DEF BeforeHits
<1>c. \A e \in EngineSet : e \notin AfterSearch /\ e \notin {"reading", "retry"}
  BY EnginesAreNoStages DEF Stages, Ended
<1>1. CASE TaskStep
  <2>1. UNCHANGED runVars
    BY <1>1 DEF TaskStep, SummaryIn, EarlyWakes, EarlyExplores, ProviderReturns
  <2>2. \A t \in Tasks : ProviderReturns(t) => out'["search"] = out["search"]
    BY <1>0 DEF ProviderReturns, Return, ResearchTypeOK
  <2>3. out'["search"] = out["search"]
    BY <1>0, <1>1, <2>2 DEF TaskStep, SummaryIn, EarlyWakes, EarlyExplores, Return, ResearchTypeOK
  <2> QED BY <1>a, <2>1, <2>3 DEF runVars
<1>2. CASE StartTasks BY <1>a, <1>2 DEF StartTasks, BeforeHits
<1>3. CASE AskNews
  <2>1. out'["search"] = out["search"] BY <1>0, <1>3 DEF AskNews, ResearchTypeOK
  <2> QED BY <1>a, <1>3, <2>1 DEF AskNews, BeforeHits
<1>4. CASE FilterAskNews BY <1>a, <1>4 DEF FilterAskNews, BeforeHits
<1>5. CASE EvidencePlan BY <1>a, <1>5 DEF EvidencePlan, Raise, BeforeHits
<1>d. ASSUME at \in BeforeHits, UNCHANGED <<out, chosen>>,
             at' \in {"gather"} \cup EngineSet, at' = "gather" => degraded' # {}
      PROVE  ChosenInv'
  BY <1>b, <1>c, <1>d DEF ChosenInv, Stages
<1>6. CASE PlanQueries
  <2>1. Engines # <<>> => Engines[1] \in EngineSet BY EnginesAssumption DEF EngineSet, Range
  <2>2. CASE at' = "raised" BY <1>a, <1>b, <1>6, <2>2 DEF PlanQueries, SearchOver, BeforeHits, Stages, Ended
  <2>3. CASE at' # "raised"
    BY <1>c, <1>d, <1>6, <2>1, <2>3 DEF PlanQueries, SearchOver, BeforeHits
  <2> QED BY <2>2, <2>3
<1>7. ASSUME NEW e \in EngineSet, SkipEngine(e) PROVE ChosenInv'
  <2>1. at' \in {"gather"} \cup EngineSet BY <1>7, NextIsStage DEF SkipEngine, ResearchTypeOK
  <2>2. degraded' # {} BY <1>7 DEF SkipEngine, NextEngine
  <2> QED BY <1>d, <1>7, <2>1, <2>2 DEF SkipEngine, BeforeHits
<1>8. ASSUME NEW e \in EngineSet, SearchWith(e) PROVE ChosenInv'
  <2>1. PICK a \in SearchAnswers(e) :
          IF a = "hits" THEN at' = "reading" /\ chosen' = e /\ UNCHANGED degraded
          ELSE NextEngine(e, e) /\ chosen' = chosen
    BY <1>8 DEF SearchWith
  <2>2. at \in BeforeHits /\ out' = out BY <1>8 DEF SearchWith, BeforeHits
  <2>3. CASE a = "hits"
    <3>1. e # "none" BY EnginesAreNoStages
    <3>2. at' \notin BeforeHits BY <1>b, <2>1, <2>3 DEF Stages
    <3> QED BY <2>1, <2>2, <2>3, <3>1, <3>2 DEF ChosenInv
  <2>4. CASE a # "hits"
    <3>1. at' \in {"gather"} \cup EngineSet BY <2>1, <2>4, NextIsStage DEF ResearchTypeOK
    <3>2. degraded' # {} BY <2>1, <2>4 DEF NextEngine
    <3> QED BY <1>d, <2>1, <2>2, <2>4, <3>1, <3>2
  <2> QED BY <2>3, <2>4
<1>9. CASE ResearchFromHits
  <2>0. PICK o \in Result :
          /\ out' = [out EXCEPT !["search"] = o]
          /\ at' = IF o = "limit" THEN "raised" ELSE "gather"
          /\ chosen' = IF o = "poor" THEN "none" ELSE chosen
          /\ degraded' = IF o = "poor" THEN degraded \cup {chosen} ELSE {}
    BY <1>9 DEF ResearchFromHits
  <2>1. /\ out'["search"] = o
        /\ at' = IF o = "limit" THEN "raised" ELSE "gather"
        /\ chosen' = IF o = "poor" THEN "none" ELSE chosen
        /\ degraded' = IF o = "poor" THEN degraded \cup {chosen} ELSE {}
    BY <1>0, <2>0 DEF ResearchTypeOK
  <2>2. at = "reading" /\ chosen # "none" BY <1>9 DEF ResearchFromHits, ChosenInv
  <2>3. at' \notin BeforeHits BY <1>b, <2>1 DEF Stages, Ended
  <2>4. at' \notin {"reading", "retry"} BY <2>1
  <2>5. CASE o = "limit"
    <3>1. at' = "raised" /\ at' \notin AfterSearch BY <2>1, <2>5
    <3> QED BY <2>1, <2>3, <2>4, <2>5, <3>1 DEF ChosenInv
  <2>6. CASE o = "poor"
    <3>1. degraded' # {} BY <2>1, <2>6
    <3> QED BY <2>1, <2>3, <2>4, <2>6, <3>1 DEF ChosenInv
  <2>7. CASE o = "text" BY <2>1, <2>2, <2>3, <2>4, <2>7 DEF ChosenInv
  <2> QED BY <2>5, <2>6, <2>7 DEF Result
<1>e. ASSUME at \in AfterSearch, at' \in AfterSearch \cup {"raised"}, at' # "retry",
             UNCHANGED <<out["search"], chosen, degraded>>
      PROVE  ChosenInv'
  <2>1. at' \notin BeforeHits BY <1>b, <1>e DEF Stages, Ended
  <2> QED BY <1>a, <1>e, <2>1
<1>10. CASE Gather BY <1>e, <1>10 DEF Gather, Collect, Raise
<1>11. CASE AwaitAgent BY <1>e, <1>11 DEF AwaitAgent, Collect, Raise
<1>12. CASE AwaitEarly BY <1>e, <1>12 DEF AwaitEarly, Collect, Raise
<1>13. CASE VerifyArtifact BY <1>e, <1>13 DEF VerifyArtifact, Raise
<1>14. CASE Decide
  <2>1. /\ at = "decide" /\ at' \in {"retry", "explore"} /\ UNCHANGED <<out, chosen, degraded>>
        /\ label' = RetryLabel /\ (at' = "retry" => RetryLabel # "none")
    BY <1>14 DEF Decide
  <2>2. chosen # "none" => RetryLabel = chosen BY RetryLabelIsEngine DEF ResearchTypeOK
  <2>3. at' \notin BeforeHits BY <1>b, <2>1 DEF Stages
  <2> QED BY <2>1, <2>2, <2>3 DEF ChosenInv
<1>15. CASE FocusedRetry
  <2>1. /\ at = "retry" /\ at' \in {"raised", "explore"} /\ chosen' = chosen
        /\ out'["search"] = out["search"]
        /\ degraded' = degraded \/ (chosen = "none" /\ degraded' # {})
    BY <1>0, <1>15 DEF FocusedRetry, ResearchTypeOK
  <2>2. at' \notin BeforeHits BY <1>b, <2>1 DEF Stages, Ended
  <2> QED BY <2>1, <2>2 DEF ChosenInv
<1>16. CASE AwaitBackstop BY <1>e, <1>16 DEF AwaitBackstop, Collect, Raise
<1>17. CASE Recheck BY <1>e, <1>17 DEF Recheck, Raise
<1>18. CASE CompileReport BY <1>e, <1>18 DEF CompileReport
<1>19. CASE Cancel
  <2>1. out'["search"] = out["search"]
    <3>1. \A t \in Awaited : t # "search"
      BY <1>0 DEF Awaited, Tasks
    <3> QED BY <1>0, <1>19, <3>1 DEF Cancel
  <2>2. at' \notin BeforeHits BY <1>b, <1>19 DEF Cancel, Stages, Ended
  <2> QED BY <1>a, <1>19, <2>1, <2>2 DEF Cancel
<1>20. CASE OtherQuestionSpends
  BY <1>a, <1>20 DEF OtherQuestionSpends, runVars
<1>21. CASE UNCHANGED vars BY <1>a, <1>21 DEF vars
<1> QED BY <1>1, <1>2, <1>3, <1>4, <1>5, <1>6, <1>7, <1>8, <1>9, <1>10, <1>11, <1>12,
           <1>13, <1>14, <1>15, <1>16, <1>17, <1>18, <1>19, <1>20, <1>21
        DEF RunStep, ResearchNext

(***************************************************************************)
(* What was asked.                                                         *)
(***************************************************************************)
\* One more answer of an engine that may be asked.
LEMMA AskedMore ==
  ASSUME ResearchTypeOK, AskedInv,
         NEW e \in EngineSet \ exhausted, NEW a \in {"hits", "error", "spent"},
         asked' = Append(asked, <<e, a>>), Remember(e, a)
  PROVE  /\ \A i, j \in DOMAIN asked' :
              i < j /\ asked'[j][1] = asked'[i][1] => asked'[i][2] # "spent"
         /\ \A i \in DOMAIN asked' : asked'[i][2] = "spent" => asked'[i][1] \in exhausted'
<1>0. asked \in Seq(EngineSet \X {"hits", "error", "spent"}) BY DEF ResearchTypeOK
<1>1. /\ DOMAIN asked = 1 .. Len(asked) /\ DOMAIN asked' = 1 .. Len(asked) + 1
      /\ \A i \in DOMAIN asked : asked'[i] = asked[i]
      /\ asked'[Len(asked) + 1] = <<e, a>>
  BY <1>0, AskedOneMore
<1>2. Len(asked) \in Nat BY <1>0
<1>3. ASSUME NEW i \in DOMAIN asked', asked'[i][2] = "spent"
      PROVE  asked'[i][1] \in exhausted' /\ (i = Len(asked) + 1 \/ asked'[i][1] \in exhausted)
  <2>1. CASE i \in DOMAIN asked BY <1>1, <1>3, <2>1 DEF AskedInv, Remember
  <2>2. CASE i \notin DOMAIN asked
    <3>1. i = Len(asked) + 1 BY <1>1, <1>2, <2>2
    <3> QED BY <1>1, <1>3, <3>1 DEF Remember
  <2> QED BY <2>1, <2>2
<1>4. ASSUME NEW i \in DOMAIN asked', NEW j \in DOMAIN asked', i < j,
             asked'[j][1] = asked'[i][1], asked'[i][2] = "spent"
      PROVE  FALSE
  <2>1. i \in DOMAIN asked BY <1>1, <1>2, <1>4
  <2>2. CASE j \in DOMAIN asked BY <1>1, <1>4, <2>1, <2>2 DEF AskedInv
  <2>3. CASE j \notin DOMAIN asked
    <3>1. j = Len(asked) + 1 BY <1>1, <1>2, <2>3
    <3>2. asked[i][1] = e BY <1>1, <1>4, <2>1, <3>1
    <3> QED BY <1>1, <1>4, <2>1, <3>2 DEF AskedInv
  <2> QED BY <2>2, <2>3
<1> QED BY <1>3, <1>4

\* A spent engine is not asked again, and the engine that had hits is the last asked.
LEMMA AskedStep ==
  ASSUME ResearchTypeOK, ChosenInv, AskedInv, [ResearchNext]_vars
  PROVE  AskedInv'
<1> USE DEF AfterFinal, AfterExplore, AfterEarly, AfterAgent, AfterGather
<1>0. asked \in Seq(EngineSet \X {"hits", "error", "spent"}) BY DEF ResearchTypeOK
<1>a. ASSUME asked' = asked, exhausted \subseteq exhausted', chosen' \in {chosen, "none"},
             at' \in BeforeHits => at \in BeforeHits
      PROVE  AskedInv'
  BY <1>a DEF AskedInv
<1>b. ASSUME NEW x \in Stages, x \notin {"start", "asknews", "filter", "plan", "queries"}
      PROVE  x \notin BeforeHits
  BY <1>b, NamesAssumption DEF BeforeHits
<1>1. CASE TaskStep
  <2>1. UNCHANGED <<asked, exhausted, runVars>>
    BY <1>1 DEF TaskStep, SummaryIn, EarlyWakes, EarlyExplores, ProviderReturns
  <2> QED BY <1>a, <2>1 DEF runVars
<1>2. CASE StartTasks BY <1>a, <1>2 DEF StartTasks, BeforeHits
<1>3. CASE AskNews BY <1>a, <1>3 DEF AskNews, BeforeHits
<1>4. CASE FilterAskNews BY <1>a, <1>4 DEF FilterAskNews, BeforeHits
<1>5. CASE EvidencePlan BY <1>a, <1>5 DEF EvidencePlan, Raise, BeforeHits
<1>6. CASE PlanQueries BY <1>a, <1>6 DEF PlanQueries, BeforeHits
<1>7. ASSUME NEW e \in EngineSet, SkipEngine(e) PROVE AskedInv'
  BY <1>a, <1>7 DEF SkipEngine, BeforeHits
<1>8. ASSUME NEW e \in EngineSet, SearchWith(e) PROVE AskedInv'
  <2>1. PICK a \in SearchAnswers(e) :
          /\ asked' = Append(asked, <<e, a>>) /\ Remember(e, a)
          /\ IF a = "hits" THEN at' = "reading" /\ chosen' = e ELSE chosen' = chosen
    BY <1>8 DEF SearchWith
  <2>2. at \in BeforeHits /\ chosen = "none" BY <1>8 DEF SearchWith, BeforeHits, ChosenInv
  <2>3. a \in {"hits", "error", "spent"} BY AnswersAre
  <2>4. /\ DOMAIN asked = 1 .. Len(asked) /\ DOMAIN asked' = 1 .. Len(asked) + 1
        /\ \A i \in DOMAIN asked : asked'[i] = asked[i]
        /\ asked'[Len(asked) + 1] = <<e, a>>
    BY <1>0, <2>1, <2>3, AskedOneMore
  <2>5. e \notin exhausted BY <1>8 DEF SearchWith
  <2>6. \A i \in DOMAIN asked : asked'[i][2] # "hits" BY <2>2, <2>4 DEF AskedInv
  <2>7. \A i \in DOMAIN asked' : i \in DOMAIN asked \/ i = Len(asked) + 1
    BY <1>0, <2>4
  <2>8. /\ \A i, j \in DOMAIN asked' :
              i < j /\ asked'[j][1] = asked'[i][1] => asked'[i][2] # "spent"
        /\ \A i \in DOMAIN asked' : asked'[i][2] = "spent" => asked'[i][1] \in exhausted'
    BY <2>1, <2>3, <2>5, AskedMore
  <2>9. CASE a = "hits"
    <3>1. at' \notin BeforeHits BY <1>b, <2>1, <2>9 DEF Stages
    <3>2. chosen' = e BY <2>1, <2>9
    <3>3. ASSUME NEW i \in DOMAIN asked', NEW j \in DOMAIN asked', i <= j,
                 asked'[i][2] = "hits"
          PROVE  asked'[j][1] = chosen'
      <4>1. i = Len(asked) + 1 BY <2>6, <2>7, <3>3
      <4>2. j = Len(asked) + 1 BY <1>0, <2>4, <2>7, <3>3, <4>1
      <4> QED BY <2>4, <3>2, <4>2
    <3> QED BY <2>8, <3>1, <3>3 DEF AskedInv
  <2>10. CASE a # "hits"
    <3>1. \A i \in DOMAIN asked' : asked'[i][2] # "hits" BY <2>4, <2>6, <2>7, <2>10
    <3> QED BY <2>8, <3>1 DEF AskedInv
  <2> QED BY <2>9, <2>10
<1>9. CASE ResearchFromHits
  <2>1. UNCHANGED <<asked, exhausted>> /\ chosen' \in {chosen, "none"} /\ at' \in {"raised", "gather"}
    BY <1>9 DEF ResearchFromHits
  <2> QED BY <1>a, <1>b, <2>1 DEF Stages, Ended
<1>c. ASSUME UNCHANGED <<asked, exhausted, chosen>>,
             at' \in {"raised", "agent", "early", "check", "decide", "retry", "explore",
                     "recheck", "compile", "done", "cancelled"}
      PROVE  AskedInv'
  <2>1. at' \notin BeforeHits BY <1>b, <1>c DEF Stages, Ended
  <2> QED BY <1>a, <1>c, <2>1
<1>10. CASE Gather BY <1>c, <1>10 DEF Gather, Collect, Raise
<1>11. CASE AwaitAgent BY <1>c, <1>11 DEF AwaitAgent, Collect, Raise
<1>12. CASE AwaitEarly BY <1>c, <1>12 DEF AwaitEarly, Collect, Raise
<1>13. CASE VerifyArtifact BY <1>c, <1>13 DEF VerifyArtifact, Raise
<1>14. CASE Decide BY <1>c, <1>14 DEF Decide
<1>15. CASE FocusedRetry
  <2>1. PICK a \in SearchAnswers(label) :
          /\ IF label \in exhausted THEN UNCHANGED <<asked, exhausted>>
             ELSE asked' = Append(asked, <<label, a>>) /\ Remember(label, a)
          /\ at' \in {"raised", "explore"}
    BY <1>15 DEF FocusedRetry
  <2>2. /\ chosen' = chosen /\ label \in EngineSet
        /\ chosen # "none" => label = chosen
    BY <1>15 DEF FocusedRetry, ChosenInv, ResearchTypeOK
  <2>3. CASE label \in exhausted BY <1>c, <2>1, <2>2, <2>3
  <2>4. CASE label \notin exhausted
    <3>1. a \in {"hits", "error", "spent"} BY AnswersAre
    <3>2. /\ DOMAIN asked = 1 .. Len(asked) /\ DOMAIN asked' = 1 .. Len(asked) + 1
          /\ \A i \in DOMAIN asked : asked'[i] = asked[i]
          /\ asked'[Len(asked) + 1] = <<label, a>>
      BY <1>0, <2>1, <2>2, <2>4, <3>1, AskedOneMore
    <3>3. /\ \A i, j \in DOMAIN asked' :
                i < j /\ asked'[j][1] = asked'[i][1] => asked'[i][2] # "spent"
          /\ \A i \in DOMAIN asked' : asked'[i][2] = "spent" => asked'[i][1] \in exhausted'
      BY <2>1, <2>2, <2>4, <3>1, AskedMore
    <3>4. at' \notin BeforeHits BY <1>b, <2>1 DEF Stages, Ended
    <3>5. \A i \in DOMAIN asked' : i \in DOMAIN asked \/ i = Len(asked) + 1
      BY <1>0, <3>2
    <3>6. ASSUME NEW i \in DOMAIN asked', NEW j \in DOMAIN asked', i <= j,
                 asked'[i][2] = "hits", chosen # "none"
          PROVE  asked'[j][1] = chosen
      <4>1. CASE j \in DOMAIN asked
        <5>1. i \in DOMAIN asked BY <1>0, <3>2, <3>6, <4>1
        <5> QED BY <3>2, <3>6, <4>1, <5>1 DEF AskedInv
      <4>2. CASE j = Len(asked) + 1 BY <2>2, <3>2, <3>6, <4>2
      <4> QED BY <3>5, <4>1, <4>2
    <3> QED BY <2>2, <3>3, <3>4, <3>6 DEF AskedInv
  <2> QED BY <2>3, <2>4
<1>16. CASE AwaitBackstop BY <1>c, <1>16 DEF AwaitBackstop, Collect, Raise
<1>17. CASE Recheck BY <1>c, <1>17 DEF Recheck, Raise
<1>18. CASE CompileReport BY <1>c, <1>18 DEF CompileReport
<1>19. CASE Cancel BY <1>c, <1>19 DEF Cancel
<1>20. CASE OtherQuestionSpends
  BY <1>a, <1>20 DEF OtherQuestionSpends, runVars
<1>21. CASE UNCHANGED vars BY <1>a, <1>21 DEF vars
<1> QED BY <1>1, <1>2, <1>3, <1>4, <1>5, <1>6, <1>7, <1>8, <1>9, <1>10, <1>11, <1>12,
           <1>13, <1>14, <1>15, <1>16, <1>17, <1>18, <1>19, <1>20, <1>21
        DEF RunStep, ResearchNext

\* The second check reads what was added.
LEMMA VerdictStep ==
  ASSUME ResearchTypeOK, VerdictIsFresh, [ResearchNext]_vars
  PROVE  VerdictIsFresh'
<1> USE DEF VerdictIsFresh
<1>0. \A e \in EngineSet : e \notin {"compile", "done"}
  BY EnginesAreNoStages DEF Stages, Ended
<1>1. CASE TaskStep
  BY <1>1 DEF TaskStep, SummaryIn, EarlyWakes, EarlyExplores, ProviderReturns, runVars
<1>2. CASE Recheck BY <1>2 DEF Recheck, Raise
<1>3. CASE CompileReport BY <1>3 DEF CompileReport
<1>4. CASE PlanQueries
  <2>1. Engines # <<>> => Engines[1] \in EngineSet BY EnginesAssumption DEF EngineSet, Range
  <2> QED BY <1>0, <1>4, <2>1 DEF PlanQueries, SearchOver
<1>5. ASSUME NEW e \in EngineSet, SkipEngine(e) PROVE VerdictIsFresh'
  BY <1>0, <1>5, NextIsStage DEF SkipEngine, ResearchTypeOK
<1>6. ASSUME NEW e \in EngineSet, SearchWith(e) PROVE VerdictIsFresh'
  BY <1>0, <1>6, NextIsStage DEF SearchWith, ResearchTypeOK
<1>7. CASE StartTasks BY <1>7 DEF StartTasks
<1>8. CASE AskNews BY <1>8 DEF AskNews
<1>9. CASE FilterAskNews BY <1>9 DEF FilterAskNews
<1>10. CASE EvidencePlan BY <1>10 DEF EvidencePlan, Raise
<1>11. CASE ResearchFromHits BY <1>11 DEF ResearchFromHits
<1>12. CASE Gather BY <1>12 DEF Gather, Collect, Raise
<1>13. CASE AwaitAgent BY <1>13 DEF AwaitAgent, Collect, Raise
<1>14. CASE AwaitEarly BY <1>14 DEF AwaitEarly, Collect, Raise
<1>15. CASE VerifyArtifact BY <1>15 DEF VerifyArtifact, Raise
<1>16. CASE Decide BY <1>16 DEF Decide
<1>17. CASE FocusedRetry BY <1>17 DEF FocusedRetry
<1>18. CASE AwaitBackstop BY <1>18 DEF AwaitBackstop, Collect, Raise
<1>19. CASE Cancel BY <1>19 DEF Cancel
<1>20. CASE OtherQuestionSpends BY <1>20 DEF OtherQuestionSpends, runVars
<1>21. CASE UNCHANGED vars BY <1>21 DEF vars
<1> QED BY <1>1, <1>2, <1>3, <1>4, <1>5, <1>6, <1>7, <1>8, <1>9, <1>10, <1>11, <1>12,
           <1>13, <1>14, <1>15, <1>16, <1>17, <1>18, <1>19, <1>20, <1>21
        DEF RunStep, ResearchNext

\* The invariant holds of every state the research is in.
THEOREM ResearchInvariant == ResearchSpec => []ResearchInv
<1>1. ResearchInit => ResearchInv
  <2> SUFFICES ASSUME ResearchInit PROVE ResearchInv OBVIOUS
  <2>1. Tasks \subseteq Sections /\ {"asknews", "search", "retry"} \subseteq Sections
        /\ {"early", "backstop"} \subseteq Tasks
    BY DEF Sections, Tasks
  <2>2. AwaitedSettled
    BY <2>1 DEF ResearchInit, AwaitedSettled, AfterFinal, AfterExplore, AfterEarly,
                AfterAgent, AfterGather
  <2>3. ExplorerInv BY <2>1 DEF ResearchInit, ExplorerInv
  <2>4. ChosenInv
    BY <2>1 DEF ResearchInit, ChosenInv, AfterFinal, AfterExplore, AfterEarly,
                AfterAgent, AfterGather, AfterSearch
  <2>5. AskedInv /\ VerdictIsFresh BY DEF ResearchInit, AskedInv, VerdictIsFresh
  <2> QED BY <2>2, <2>3, <2>4, <2>5, TypeInit DEF ResearchInv
<1>2. ResearchInv /\ [ResearchNext]_vars => ResearchInv'
  BY TypeStep, SettledStep, ExplorerStep, ChosenStep, AskedStep, VerdictStep DEF ResearchInv
<1> QED BY <1>1, <1>2, PTL DEF ResearchSpec

\* A bundle that reaches the compiler is final: nothing of the run still works or
\* spends for it, its verdict was judged on all of it, no provider's hard limit was
\* turned into a missing section, and the banner says what failed.
THEOREM BundleAlwaysFinal == ResearchSpec => []BundleIsFinal
<1>1. ResearchInv => BundleIsFinal
  <2> SUFFICES ASSUME ResearchInv PROVE BundleIsFinal OBVIOUS
  <2> USE DEF ResearchInv
  <2>1. Tasks = Gathered \cup {"early", "api", "backstop"}
        /\ Sections = Tasks \cup {"asknews", "search", "retry"}
    BY DEF Tasks, Sections
  <2>2. at = "done" => TasksSettled(Tasks)
    BY <2>1 DEF AwaitedSettled, TasksSettled, AfterFinal, AfterExplore, AfterEarly, AfterAgent,
                AfterGather
  <2>3. NothingLeftRunning BY <2>2 DEF NothingLeftRunning, TasksSettled
  <2>4. LimitReachesTheCaller
    BY <2>1, <2>2 DEF LimitReachesTheCaller, TasksSettled, AwaitedSettled
  <2>5. GapIsExploredOnce BY DEF GapIsExploredOnce, ExplorerInv
  <2>6. WarnedIffBlind
    BY DEF WarnedIffBlind, ChosenInv, AfterFinal, AfterExplore, AfterEarly, AfterAgent,
           AfterGather, AfterSearch
  <2>7. SpentEngineRests
    <3>0. asked \in Seq(EngineSet \X {"hits", "error", "spent"}) BY DEF ResearchTypeOK
    <3>1. ASSUME NEW i \in DOMAIN asked, NEW j \in DOMAIN asked, i < j,
                 asked[i][2] = "hits", out["search"] = "text"
          PROVE  asked[j][1] = asked[i][1]
      <4>1. chosen # "none" BY <3>1 DEF ChosenInv
      <4>2. i <= j /\ i <= i BY <3>0, <3>1
      <4>3. asked[j][1] = chosen BY <3>1, <4>1, <4>2 DEF AskedInv
      <4>4. asked[i][1] = chosen BY <3>1, <4>1, <4>2 DEF AskedInv
      <4> QED BY <4>3, <4>4
    <3> QED BY <3>1 DEF SpentEngineRests, AskedInv
  <2> QED BY <2>3, <2>4, <2>5, <2>6, <2>7 DEF BundleIsFinal
<1> QED BY <1>1, ResearchInvariant, PTL

(***************************************************************************)
(* ScrapeCycles, for every set of rankings and every bound.                *)
(*                                                                         *)
(* The index kept per group name separates the pages that were read of it  *)
(* from those that were not; as the dedupe leaves each page one place, the *)
(* targets of a cycle are new, and a group that lacks evidence offers one  *)
(* as long as a page of it is unread.                                      *)
(***************************************************************************)

Group == [group : Names, urls : Seq(Urls)]

(***************************************************************************)
(* The dedupe.                                                             *)
(***************************************************************************)
\* The parts of Dedupe, by name.
PageAt(r, p) == r[p[1]].urls[p[2]]
FirstMentions(r, x) == {p \in Mentions(r) :
                          /\ PageAt(r, p) \notin x
                          /\ \A q \in Mentions(r) : Before(q, p) => PageAt(r, q) # PageAt(r, p)}
KeptMentions(r, x) == {p \in FirstMentions(r, x) :
                         Cardinality({q \in FirstMentions(r, x) : q = p \/ Before(q, p)}) <= MaxRanked}
KeptIn(r, x, i) == {k \in DOMAIN r[i].urls : <<i, k>> \in KeptMentions(r, x)}
GroupsLeft(r, x) == {i \in DOMAIN r : Ascending(KeptIn(r, x, i)) # <<>>}

\* Dedupe, said with the index sets above: of each group that keeps a page, its
\* kept pages in their order.
LEMMA DedupeByParts ==
  ASSUME NEW r, NEW x
  PROVE  Dedupe(r, x) =
           [n \in DOMAIN Ascending(GroupsLeft(r, x)) |->
              [group |-> r[Ascending(GroupsLeft(r, x))[n]].group,
               urls |-> [k \in DOMAIN Ascending(KeptIn(r, x, Ascending(GroupsLeft(r, x))[n])) |->
                           PageAt(r, <<Ascending(GroupsLeft(r, x))[n],
                                       Ascending(KeptIn(r, x, Ascending(GroupsLeft(r, x))[n]))[k]>>)]]]
  BY DEF Dedupe, PageAt, FirstMentions, KeptMentions, KeptIn, GroupsLeft

\* One mention of two is before the other, so a page has one first mention.
LEMMA FirstMentionIsOne ==
  ASSUME NEW r, \A p \in Mentions(r) : p \in Nat \X Nat, NEW x,
         NEW p \in FirstMentions(r, x), NEW q \in FirstMentions(r, x),
         PageAt(r, p) = PageAt(r, q)
  PROVE  p = q
<1>1. p \in Nat \X Nat /\ q \in Nat \X Nat BY DEF FirstMentions
<1>2. PICK a \in Nat, b \in Nat, c \in Nat, d \in Nat : p = <<a, b>> /\ q = <<c, d>> BY <1>1
<1>3. ~Before(p, q) /\ ~Before(q, p) BY DEF FirstMentions
<1> QED BY <1>2, <1>3 DEF Before

GroupsRanked(gs) ==
  /\ gs \in Seq(Group)
  /\ \A i, j \in DOMAIN gs : \A k \in DOMAIN gs[i].urls, l \in DOMAIN gs[j].urls :
       gs[i].urls[k] = gs[j].urls[l] => i = j /\ k = l

\* After the dedupe no page is listed twice, and none that was excluded.
LEMMA DedupeSound ==
  ASSUME NEW r \in Rankings \cup {<<>>}, NEW x
  PROVE  /\ GroupsRanked(Dedupe(r, x))
         /\ \A i \in DOMAIN Dedupe(r, x) : \A k \in DOMAIN Dedupe(r, x)[i].urls :
              Dedupe(r, x)[i].urls[k] \notin x
<1> DEFINE D == Dedupe(r, x)
           L == GroupsLeft(r, x)
           A == Ascending(L)
           K(i) == KeptIn(r, x, i)
           B(i) == Ascending(K(i))
<1>1. r \in Seq(Group) /\ Len(r) \in Nat
  <2>1. CASE r = <<>> BY <2>1
  <2>2. CASE r \in Rankings
    <3>1. r \in Seq([group : {r[i].group : i \in DOMAIN r}, urls : Seq(Urls)]) BY <2>2, RankingsAssumption
    <3>2. {r[i].group : i \in DOMAIN r} \subseteq Names BY <2>2 DEF Names
    <3> DEFINE G == {r[i].group : i \in DOMAIN r}
    <3>3. [group : G, urls : Seq(Urls)] \subseteq Group BY <3>2 DEF Group
    <3>4. r \in Seq([group : G, urls : Seq(Urls)]) BY <3>1
    <3> DEFINE H == [group : G, urls : Seq(Urls)]
    <3> HIDE DEF G, H
    <3>5. r \in Seq(H) /\ H \subseteq Group BY <3>3, <3>4 DEF H
    <3>6. Len(r) \in Nat /\ \A i \in 1..Len(r) : r[i] \in H BY <3>5
    <3>7. \A i \in 1..Len(r) : r[i] \in Group BY <3>5, <3>6
    <3> QED BY <3>5, <3>6, <3>7
  <2> QED BY <2>1, <2>2
<1>2. \A i \in DOMAIN r : /\ i \in Nat /\ r[i].urls \in Seq(Urls) /\ r[i].group \in Names
                          /\ Len(r[i].urls) \in Nat /\ DOMAIN r[i].urls = 1..Len(r[i].urls)
  <2> SUFFICES ASSUME NEW i \in DOMAIN r
               PROVE  /\ i \in Nat /\ r[i].urls \in Seq(Urls) /\ r[i].group \in Names
                      /\ Len(r[i].urls) \in Nat /\ DOMAIN r[i].urls = 1..Len(r[i].urls)
    OBVIOUS
  <2>1. r[i] \in Group /\ i \in Nat BY <1>1
  <2>2. r[i].urls \in Seq(Urls) /\ r[i].group \in Names BY <2>1 DEF Group
  <2> QED BY <2>1, <2>2
<1>3. \A p \in Mentions(r) : p \in Nat \X Nat
  <2> SUFFICES ASSUME NEW i \in DOMAIN r, NEW p \in {i} \X DOMAIN r[i].urls
               PROVE p \in Nat \X Nat
    BY DEF Mentions
  <2>1. DOMAIN r[i].urls = 1..Len(r[i].urls) BY <1>2
  <2> QED BY <1>2, <2>1
<1>4. L \in SUBSET Nat /\ IsFiniteSet(L)
  <2>1. L \subseteq 1..Len(r) BY <1>1 DEF GroupsLeft
  <2>2. IsFiniteSet(1..Len(r)) BY <1>1, FS_Interval
  <2> QED BY <1>1, <2>1, <2>2, FS_Subset
<1>5. ASSUME NEW i \in DOMAIN r PROVE K(i) \in SUBSET Nat /\ IsFiniteSet(K(i))
  <2>1. K(i) \subseteq 1..Len(r[i].urls) BY <1>2 DEF KeptIn
  <2> DEFINE m == Len(r[i].urls)
  <2>3. m \in Nat BY <1>2
  <2> HIDE DEF m
  <2>2. IsFiniteSet(1..m) BY <2>3, FS_Interval
  <2> USE DEF m
  <2> QED BY <1>2, <2>1, <2>2, FS_Subset
<1>6. /\ Cardinality(L) \in Nat /\ A \in [1..Cardinality(L) -> L]
      /\ \A m, n \in 1..Cardinality(L) : A[m] = A[n] => m = n
  BY <1>4, AscendingLists
<1>7. ASSUME NEW i \in DOMAIN r
      PROVE  /\ Cardinality(K(i)) \in Nat /\ B(i) \in [1..Cardinality(K(i)) -> K(i)]
             /\ \A m, n \in 1..Cardinality(K(i)) : B(i)[m] = B(i)[n] => m = n
  BY <1>5, AscendingLists
<1>8. \A i \in L : i \in DOMAIN r BY DEF GroupsLeft
<1>9. D = [n \in 1..Cardinality(L) |->
             [group |-> r[A[n]].group,
              urls |-> [k \in 1..Cardinality(K(A[n])) |-> PageAt(r, <<A[n], B(A[n])[k]>>)]]]
  <2>1. DOMAIN A = 1..Cardinality(L) BY <1>6
  <2>2. \A n \in 1..Cardinality(L) : DOMAIN B(A[n]) = 1..Cardinality(K(A[n])) BY <1>6, <1>7, <1>8
  <2> QED BY <2>1, <2>2, DedupeByParts
<1>10. ASSUME NEW n \in 1..Cardinality(L)
       PROVE  /\ A[n] \in DOMAIN r
              /\ DOMAIN D[n].urls = 1..Cardinality(K(A[n]))
              /\ \A k \in 1..Cardinality(K(A[n])) :
                   /\ D[n].urls[k] = PageAt(r, <<A[n], B(A[n])[k]>>)
                   /\ <<A[n], B(A[n])[k]>> \in FirstMentions(r, x)
                   /\ D[n].urls[k] \in Urls
              /\ D[n] \in Group
  <2>1. A[n] \in DOMAIN r BY <1>6, <1>8
  <2> DEFINE a == A[n]
             c == Cardinality(K(a))
             b == B(a)
  <2>2. D[n] = [group |-> r[a].group, urls |-> [k \in 1..c |-> PageAt(r, <<a, b[k]>>)]] BY <1>9
  <2>3. c \in Nat /\ b \in [1..c -> K(a)] BY <1>7, <2>1
  <2>4. \A k \in K(a) : k \in DOMAIN r[a].urls /\ <<a, k>> \in FirstMentions(r, x)
    BY DEF KeptIn, KeptMentions
  <2>5. \A k \in K(a) : PageAt(r, <<a, k>>) \in Urls
    <3>1. r[a].urls \in Seq(Urls) BY <1>2, <2>1
    <3>2. \A k \in DOMAIN r[a].urls : r[a].urls[k] \in Urls BY <3>1
    <3> QED BY <2>4, <3>2 DEF PageAt
  <2>6. r[a].group \in Names BY <1>2, <2>1
  <2> HIDE DEF a, b, c, D
  <2>7. \A k \in 1..c : b[k] \in K(a) BY <2>3
  <2>8. [k \in 1..c |-> PageAt(r, <<a, b[k]>>)] \in Seq(Urls)
    <3>1. [k \in 1..c |-> PageAt(r, <<a, b[k]>>)] \in [1..c -> Urls] BY <2>5, <2>7
    <3> QED BY <2>3, <3>1
  <2>9. D[n] \in Group BY <2>2, <2>6, <2>8 DEF Group
  <2>10. a \in DOMAIN r BY <2>1 DEF a
  <2>11. DOMAIN D[n].urls = 1..c BY <2>2
  <2>12. \A k \in 1..c : /\ D[n].urls[k] = PageAt(r, <<a, b[k]>>)
                         /\ <<a, b[k]>> \in FirstMentions(r, x)
                         /\ D[n].urls[k] \in Urls
    BY <2>2, <2>4, <2>5, <2>7
  <2> QED BY <2>9, <2>10, <2>11, <2>12 DEF a, b, c
<1>11. D \in Seq(Group)
  <2>1. D = [n \in 1..Cardinality(L) |-> D[n]] BY <1>9
  <2>2. \A n \in 1..Cardinality(L) : D[n] \in Group BY <1>10
  <2> HIDE DEF D, L
  <2>3. D \in [1..Cardinality(L) -> Group] BY <2>1, <2>2
  <2> QED BY <1>6, <2>3
<1>12. DOMAIN D = 1..Cardinality(L) BY <1>9
<1>13. ASSUME NEW i \in DOMAIN D, NEW k \in DOMAIN D[i].urls PROVE D[i].urls[k] \notin x
  BY <1>10, <1>12, <1>13 DEF FirstMentions
<1>14. ASSUME NEW i \in DOMAIN D, NEW j \in DOMAIN D,
              NEW k \in DOMAIN D[i].urls, NEW l \in DOMAIN D[j].urls,
              D[i].urls[k] = D[j].urls[l]
       PROVE  i = j /\ k = l
  <2>1. /\ i \in 1..Cardinality(L) /\ j \in 1..Cardinality(L)
        /\ k \in 1..Cardinality(K(A[i])) /\ l \in 1..Cardinality(K(A[j]))
    BY <1>10, <1>12
  <2>2. <<A[i], B(A[i])[k]>> = <<A[j], B(A[j])[l]>>
    <3>1. /\ <<A[i], B(A[i])[k]>> \in FirstMentions(r, x)
          /\ <<A[j], B(A[j])[l]>> \in FirstMentions(r, x)
          /\ PageAt(r, <<A[i], B(A[i])[k]>>) = PageAt(r, <<A[j], B(A[j])[l]>>)
      BY <1>10, <1>14, <2>1
    <3> HIDE DEF A, B
    <3> QED BY <1>3, <3>1, FirstMentionIsOne
  <2>3. A[i] = A[j] /\ B(A[i])[k] = B(A[j])[l] BY <2>2
  <2>4. i = j BY <1>6, <2>1, <2>3
  <2>5. k \in 1..Cardinality(K(A[i])) /\ l \in 1..Cardinality(K(A[i])) /\ B(A[i])[k] = B(A[i])[l]
    BY <2>1, <2>3, <2>4
  <2>6. A[i] \in DOMAIN r BY <1>10, <2>1
  <2> QED BY <1>7, <2>4, <2>5, <2>6
<1> HIDE DEF D
<1>15. GroupsRanked(D) BY <1>11, <1>14 DEF GroupsRanked
<1> QED BY <1>13, <1>15 DEF D

(***************************************************************************)
(* The targets of a cycle.                                                 *)
(***************************************************************************)
Acc == [targets : Seq(Urls), next : [Names -> Nat]]
Typed == groups \in Seq(Group) /\ nextIndex \in [Names -> Nat] /\ needed \subseteq Names
UrlsOf(i) == groups[i].urls
NameOf(i) == groups[i].group

\* What has been collected lies past where the cycle began, and nothing of a
\* group with a name of its own was passed over.
Collected(acc) ==
  /\ acc \in Acc
  /\ \A n \in Names : nextIndex[n] <= acc.next[n]
  /\ \A u \in ToSet(acc.targets) :
       \E i \in DOMAIN groups : \E k \in DOMAIN UrlsOf(i) :
         UrlsOf(i)[k] = u /\ nextIndex[NameOf(i)] < k /\ k <= acc.next[NameOf(i)]
  /\ \A i \in DOMAIN groups : OwnName(i) =>
       \A k \in DOMAIN UrlsOf(i) :
         nextIndex[NameOf(i)] < k /\ k <= acc.next[NameOf(i)] => UrlsOf(i)[k] \in ToSet(acc.targets)

\* A group's pages are a sequence of URLs and its name is one of the names.
LEMMA GroupTyped ==
  ASSUME Typed, NEW i \in DOMAIN groups
  PROVE  /\ UrlsOf(i) \in Seq(Urls) /\ NameOf(i) \in Names /\ Len(UrlsOf(i)) \in Nat
         /\ DOMAIN UrlsOf(i) = 1..Len(UrlsOf(i)) /\ i \in Nat
<1>1. groups[i] \in Group /\ i \in Nat BY DEF Typed
<1>2. UrlsOf(i) \in Seq(Urls) /\ NameOf(i) \in Names BY <1>1 DEF Group, UrlsOf, NameOf
<1> QED BY <1>1, <1>2

\* What is taken of a group: the next pages it has, at most n.
LEMMA TakeShape ==
  ASSUME Typed, NEW acc \in Acc, NEW i \in DOMAIN groups, NEW n \in Nat
  PROVE  \E m \in Nat, part \in Seq(Urls) :
           /\ Take(acc, groups[i], n) = [targets |-> acc.targets \o part,
                                         next |-> [acc.next EXCEPT ![NameOf(i)] = @ + m]]
           /\ Len(part) = m
           /\ \A k \in 1..m : /\ acc.next[NameOf(i)] + k \in DOMAIN UrlsOf(i)
                              /\ part[k] = UrlsOf(i)[acc.next[NameOf(i)] + k]
           /\ m = 0 => n = 0 \/ Left(acc, groups[i]) = 0
<1> DEFINE from == acc.next[NameOf(i)]
           m == Smaller(n, Left(acc, groups[i]))
           us == UrlsOf(i)
           part == [k \in 1..m |-> us[from + k]]
<1>1. us \in Seq(Urls) /\ Len(us) \in Nat /\ DOMAIN us = 1..Len(us) /\ NameOf(i) \in Names
  BY GroupTyped
<1>2. from \in Nat BY <1>1 DEF Acc
<1>3. Left(acc, groups[i]) \in Nat /\ (Left(acc, groups[i]) = 0 \/ from + Left(acc, groups[i]) = Len(us))
  <2> HIDE DEF from, us
  <2>1. Left(acc, groups[i]) = IF NameOf(i) \notin needed THEN 0
                               ELSE IF from >= Len(us) THEN 0 ELSE Len(us) - from
    BY DEF Left, NameOf, UrlsOf, from, us
  <2> QED BY <1>1, <1>2, <2>1
<1>4. m \in Nat /\ (m = 0 => n = 0 \/ Left(acc, groups[i]) = 0) /\ m <= n
      /\ m <= Left(acc, groups[i])
  BY <1>3 DEF Smaller
<1>5. \A k \in 1..m : from + k \in DOMAIN us
  <2> HIDE DEF from, us, m
  <2> QED BY <1>1, <1>2, <1>3, <1>4
<1>6. SubSeq(us, from + 1, from + m) = part
  <2> HIDE DEF from, us, m
  <2>1. from + m = from + 1 + m - 1 BY <1>2, <1>4
  <2>2. from + 1 \in Int /\ from + m \in Int BY <1>2, <1>4
  <2>3. SubSeq(us, from + 1, from + m) = [k \in 1..m |-> us[from + k]]
    <3>1. SubSeq(us, from + 1, from + m) =
            [k \in 1..((from + m) - (from + 1) + 1) |-> us[k + (from + 1) - 1]]
      BY <1>1, <2>2
    <3>2. (from + m) - (from + 1) + 1 = m BY <1>2, <1>4
    <3>3. \A k \in 1..m : k + (from + 1) - 1 = from + k BY <1>2
    <3> QED BY <3>1, <3>2, <3>3
  <2> QED BY <2>3
<1>7. part \in Seq(Urls) /\ Len(part) = m
  <2> HIDE DEF from, us, m
  <2>1. \A k \in 1..m : us[from + k] \in Urls BY <1>1, <1>5
  <2>2. part \in [1..m -> Urls] BY <2>1
  <2>3. part \in Seq(Urls) BY <1>4, <2>2
  <2> QED BY <1>4, <2>3
<1>8. Take(acc, groups[i], n) = [targets |-> acc.targets \o SubSeq(us, from + 1, from + m),
                                 next |-> [acc.next EXCEPT ![NameOf(i)] = @ + m]]
  BY DEF Take, NameOf, UrlsOf
<1>9. \A k \in 1..m : part[k] = us[from + k] OBVIOUS
<1> HIDE DEF m, part
<1> QED BY <1>4, <1>5, <1>6, <1>7, <1>8, <1>9

\* The pages of two lists put together are the pages of both.
LEMMA ConcatSets ==
  ASSUME NEW s \in Seq(Urls), NEW t \in Seq(Urls)
  PROVE  ToSet(s \o t) = ToSet(s) \cup ToSet(t)
<1>1. /\ Len(s) \in Nat /\ Len(t) \in Nat /\ s \o t \in Seq(Urls)
      /\ Len(s \o t) = Len(s) + Len(t)
      /\ \A i \in 1..Len(s) + Len(t) :
           (s \o t)[i] = IF i <= Len(s) THEN s[i] ELSE t[i - Len(s)]
  OBVIOUS
<1>2. /\ DOMAIN s = 1..Len(s) /\ DOMAIN t = 1..Len(t)
      /\ DOMAIN (s \o t) = 1..Len(s) + Len(t)
  BY <1>1
<1>3. ASSUME NEW i \in DOMAIN s PROVE s[i] \in ToSet(s \o t)
  <2>1. i \in DOMAIN (s \o t) /\ (s \o t)[i] = s[i] BY <1>1, <1>2
  <2> QED BY <2>1 DEF ToSet
<1>4. ASSUME NEW i \in DOMAIN t PROVE t[i] \in ToSet(s \o t)
  <2>1. /\ Len(s) + i \in 1..Len(s) + Len(t) /\ ~(Len(s) + i <= Len(s)) /\ (Len(s) + i) - Len(s) = i
    BY <1>1, <1>2
  <2>2. (s \o t)[Len(s) + i] = t[i] BY <1>1, <2>1
  <2>3. Len(s) + i \in DOMAIN (s \o t) BY <1>2, <2>1
  <2> QED BY <2>2, <2>3 DEF ToSet
<1>5. ASSUME NEW i \in DOMAIN (s \o t) PROVE (s \o t)[i] \in ToSet(s) \cup ToSet(t)
  <2>1. CASE i <= Len(s)
    <3>1. i \in DOMAIN s /\ (s \o t)[i] = s[i] BY <1>1, <1>2, <2>1
    <3> QED BY <3>1 DEF ToSet
  <2>2. CASE ~(i <= Len(s))
    <3>1. i - Len(s) \in DOMAIN t /\ (s \o t)[i] = t[i - Len(s)] BY <1>1, <1>2, <2>2
    <3> QED BY <3>1 DEF ToSet
  <2> QED BY <2>1, <2>2
<1> QED BY <1>3, <1>4, <1>5 DEF ToSet

\* Taking more of a group keeps the collection in order.
LEMMA TakeCollects ==
  ASSUME Typed, NEW acc, Collected(acc), NEW j \in DOMAIN groups, NEW n \in Nat
  PROVE  Collected(Take(acc, groups[j], n))
<1>0. acc \in Acc /\ acc.targets \in Seq(Urls) /\ acc.next \in [Names -> Nat] BY DEF Collected, Acc
<1>1. PICK m \in Nat, part \in Seq(Urls) :
           /\ Take(acc, groups[j], n) = [targets |-> acc.targets \o part,
                                         next |-> [acc.next EXCEPT ![NameOf(j)] = @ + m]]
           /\ Len(part) = m
           /\ \A k \in 1..m : /\ acc.next[NameOf(j)] + k \in DOMAIN UrlsOf(j)
                              /\ part[k] = UrlsOf(j)[acc.next[NameOf(j)] + k]
  BY <1>0, TakeShape
<1> DEFINE new == Take(acc, groups[j], n)
           from == acc.next[NameOf(j)]
<1>2. NameOf(j) \in Names /\ UrlsOf(j) \in Seq(Urls) BY GroupTyped
<1>3. from \in Nat BY <1>0, <1>2
<1>4. /\ new.targets = acc.targets \o part
      /\ new.next = [acc.next EXCEPT ![NameOf(j)] = from + m]
      /\ new = [targets |-> new.targets, next |-> new.next]
  BY <1>1
<1>5. /\ new.next[NameOf(j)] = from + m
      /\ \A name \in Names : name # NameOf(j) => new.next[name] = acc.next[name]
      /\ new.next \in [Names -> Nat]
  BY <1>0, <1>2, <1>3, <1>4
<1>6. \A name \in Names : acc.next[name] <= new.next[name] /\ acc.next[name] \in Nat
  <2> HIDE DEF from, new
  <2> SUFFICES ASSUME NEW name \in Names PROVE acc.next[name] <= new.next[name] /\ acc.next[name] \in Nat
    OBVIOUS
  <2>1. acc.next[name] \in Nat BY <1>0
  <2>2. from <= from + m BY <1>3
  <2>3. CASE name = NameOf(j) BY <1>3, <1>5, <2>1, <2>2, <2>3 DEF from
  <2>4. CASE name # NameOf(j) BY <1>5, <2>1, <2>4
  <2> QED BY <2>3, <2>4
<1>7. ToSet(new.targets) = ToSet(acc.targets) \cup ToSet(part) BY <1>0, <1>4, ConcatSets
<1>8. new.targets \in Seq(Urls)
  <2>1. acc.targets \o part \in Seq(Urls) BY <1>0
  <2> HIDE DEF new
  <2> QED BY <1>4, <2>1
<1> HIDE DEF new
<1>9. new \in Acc BY <1>4, <1>5, <1>8 DEF Acc
<1>10. \A name \in Names : nextIndex[name] \in Nat /\ nextIndex[name] <= acc.next[name]
                           /\ nextIndex[name] <= new.next[name]
  <2>1. \A name \in Names : nextIndex[name] \in Nat /\ new.next[name] \in Nat BY <1>5 DEF Typed
  <2>2. \A name \in Names : nextIndex[name] <= acc.next[name] BY DEF Collected
  <2> QED BY <1>6, <2>1, <2>2
<1>11. DOMAIN part = 1..m BY <1>1
<1>12. ASSUME NEW u \in ToSet(new.targets)
       PROVE  \E i \in DOMAIN groups : \E k \in DOMAIN UrlsOf(i) :
                UrlsOf(i)[k] = u /\ nextIndex[NameOf(i)] < k /\ k <= new.next[NameOf(i)]
  <2>1. CASE u \in ToSet(acc.targets)
    <3>1. PICK i \in DOMAIN groups : \E k \in DOMAIN UrlsOf(i) :
                UrlsOf(i)[k] = u /\ nextIndex[NameOf(i)] < k /\ k <= acc.next[NameOf(i)]
      BY <2>1 DEF Collected
    <3>2. PICK k \in DOMAIN UrlsOf(i) :
                UrlsOf(i)[k] = u /\ nextIndex[NameOf(i)] < k /\ k <= acc.next[NameOf(i)]
      BY <3>1
    <3>3. k \in Nat /\ NameOf(i) \in Names BY GroupTyped
    <3>4. new.next[NameOf(i)] \in Nat BY <1>5, <3>3
    <3>5. k <= new.next[NameOf(i)] BY <1>6, <3>2, <3>3, <3>4
    <3> QED BY <3>2, <3>5
  <2>2. CASE u \in ToSet(part)
    <3>1. PICK k \in 1..m : u = part[k] BY <1>11, <2>2 DEF ToSet
    <3>2. from + k \in DOMAIN UrlsOf(j) /\ u = UrlsOf(j)[from + k] BY <1>1, <3>1
    <3>3. nextIndex[NameOf(j)] < from + k /\ from + k <= new.next[NameOf(j)]
      <4>1. nextIndex[NameOf(j)] <= from /\ nextIndex[NameOf(j)] \in Nat BY <1>2, <1>10
      <4> HIDE DEF from
      <4> QED BY <1>3, <1>5, <3>1, <4>1
    <3> HIDE DEF from
    <3> QED BY <3>2, <3>3
  <2> QED BY <1>7, <2>1, <2>2
<1>13. ASSUME NEW i \in DOMAIN groups, OwnName(i), NEW k \in DOMAIN UrlsOf(i),
              nextIndex[NameOf(i)] < k, k <= new.next[NameOf(i)]
       PROVE  UrlsOf(i)[k] \in ToSet(new.targets)
  <2>0. k \in Nat /\ NameOf(i) \in Names BY GroupTyped
  <2>1. CASE k <= acc.next[NameOf(i)]
    <3>1. UrlsOf(i)[k] \in ToSet(acc.targets) BY <1>13, <2>1 DEF Collected
    <3> QED BY <1>7, <3>1
  <2>2. CASE ~(k <= acc.next[NameOf(i)])
    <3>1. NameOf(i) = NameOf(j) BY <1>5, <1>13, <2>0, <2>2
    <3>2. j = i BY <1>13, <3>1 DEF OwnName, NameOf
    <3>3. k - from \in 1..m BY <1>3, <1>5, <1>13, <2>0, <2>2, <3>2
    <3>4. from + (k - from) = k BY <1>3, <2>0
    <3>5. part[k - from] = UrlsOf(i)[k] BY <1>1, <3>2, <3>3, <3>4
    <3>6. UrlsOf(i)[k] \in ToSet(part) BY <1>11, <3>3, <3>5 DEF ToSet
    <3> QED BY <1>7, <3>6
  <2> QED BY <2>1, <2>2
<1>14. \A name \in Names : nextIndex[name] <= new.next[name] BY <1>10
<1> QED BY <1>9, <1>12, <1>13, <1>14 DEF Collected, new

\* If there is still nothing, the group had nothing to give.
LEMMA TakeNothing ==
  ASSUME Typed, NEW acc \in Acc, NEW i \in DOMAIN groups, NEW n \in Nat,
         Take(acc, groups[i], n).targets = <<>>
  PROVE  /\ acc.targets = <<>>
         /\ Take(acc, groups[i], n).next = acc.next
         /\ n = 0 \/ Left(acc, groups[i]) = 0
<1>1. PICK m \in Nat, part \in Seq(Urls) :
           /\ Take(acc, groups[i], n) = [targets |-> acc.targets \o part,
                                         next |-> [acc.next EXCEPT ![NameOf(i)] = @ + m]]
           /\ Len(part) = m
           /\ \A k \in 1..m : /\ acc.next[NameOf(i)] + k \in DOMAIN UrlsOf(i)
                              /\ part[k] = UrlsOf(i)[acc.next[NameOf(i)] + k]
           /\ m = 0 => n = 0 \/ Left(acc, groups[i]) = 0
  BY TakeShape
<1>2. acc.targets \in Seq(Urls) /\ acc.next \in [Names -> Nat] BY DEF Acc
<1>3. acc.targets \o part = <<>> BY <1>1
<1>4. Len(acc.targets) + Len(part) = 0
  <2>1. Len(acc.targets \o part) = Len(acc.targets) + Len(part) BY <1>2
  <2> QED BY <1>3, <2>1
<1>5. m = 0 /\ Len(acc.targets) = 0 BY <1>1, <1>2, <1>4
<1>6. acc.targets = <<>> BY <1>2, <1>5
<1>7. NameOf(i) \in Names BY GroupTyped
<1>8. [acc.next EXCEPT ![NameOf(i)] = @ + 0] = acc.next BY <1>2, <1>7
<1> QED BY <1>1, <1>5, <1>6, <1>8

\* The two passes over the groups, step by step.
LEMMA OneEachSteps ==
  ASSUME Typed
  PROVE  /\ OneEach[0] = [targets |-> <<>>, next |-> nextIndex]
         /\ \A i \in 1..Len(groups) : OneEach[i] = Take(OneEach[i - 1], groups[i], 1)
         /\ \A i \in 0..Len(groups) : Collected(OneEach[i])
<1> DEFINE N == Len(groups)
           a == [targets |-> <<>>, next |-> nextIndex]
           S == {acc \in Acc : Collected(acc)}
           F == [p \in (1..N) \X S |-> Take(p[2], groups[p[1]], 1)]
           R(f) == f = [i \in 0..N |-> IF i = 0 THEN a ELSE Take(f[i - 1], groups[i], 1)]
<1>1. N \in Nat /\ DOMAIN groups = 1..N BY DEF Typed
<1>2. a \in S
  <2>1. a \in Acc BY DEF Typed, Acc
  <2>2. ToSet(a.targets) = {} BY DEF ToSet
  <2>3. \A n \in Names : nextIndex[n] \in Nat /\ nextIndex[n] <= nextIndex[n] BY DEF Typed
  <2>4. \A i \in DOMAIN groups : NameOf(i) \in Names /\ \A k \in DOMAIN UrlsOf(i) : k \in Nat BY GroupTyped
  <2>5. \A i \in DOMAIN groups : \A k \in DOMAIN UrlsOf(i) :
          ~(nextIndex[NameOf(i)] < k /\ k <= a.next[NameOf(i)])
    <3> SUFFICES ASSUME NEW i \in DOMAIN groups, NEW k \in DOMAIN UrlsOf(i)
                 PROVE ~(nextIndex[NameOf(i)] < k /\ k <= nextIndex[NameOf(i)])
      OBVIOUS
    <3>1. k \in Nat /\ nextIndex[NameOf(i)] \in Nat BY <2>3, <2>4
    <3> QED BY <3>1
  <2>6. Collected(a) BY <2>1, <2>2, <2>3, <2>5 DEF Collected
  <2> QED BY <2>1, <2>6
<1>3. \A i \in 1..N, x \in S : F[<<i, x>>] = Take(x, groups[i], 1) OBVIOUS
<1>4. \A i \in 1..N, x \in S : F[<<i, x>>] \in S
  <2>1. \A i \in 1..N, x \in S : Collected(Take(x, groups[i], 1)) BY <1>1, TakeCollects
  <2>2. \A x : Collected(x) => x \in S BY DEF Collected
  <2> HIDE DEF S, F
  <2> QED BY <1>3, <2>1, <2>2
<1>5. \E f : R(f)
  <2>1. PICK g \in [0..N -> S] : Iterates(g, a, F, N)
    <3> HIDE DEF S, F, a, N
    <3> QED BY <1>1, <1>2, <1>4, IteratesExist
  <2>2. g = [i \in 0..N |-> IF i = 0 THEN a ELSE F[<<i, g[i - 1]>>]] BY <2>1 DEF Iterates
  <2>3. \A i \in 0..N : i # 0 => g[i - 1] \in S /\ i \in 1..N
    <3> HIDE DEF S
    <3> QED BY <1>1, <2>1
  <2>4. \A i \in 0..N : i # 0 => F[<<i, g[i - 1]>>] = Take(g[i - 1], groups[i], 1)
    <3> HIDE DEF S, F
    <3> QED BY <1>3, <2>3
  <2> HIDE DEF S, F, a, N
  <2>5. R(g) BY <2>2, <2>4
  <2> QED BY <2>5
<1>6. OneEach = CHOOSE f : R(f) BY DEF OneEach
<1>7. R(OneEach)
  <2> HIDE DEF R
  <2> QED BY <1>5, <1>6
<1> HIDE DEF a, S, F
<1>8. OneEach[0] = a /\ \A i \in 1..N : OneEach[i] = Take(OneEach[i - 1], groups[i], 1)
  <2>1. ASSUME NEW i \in 0..N PROVE OneEach[i] = IF i = 0 THEN a ELSE Take(OneEach[i - 1], groups[i], 1)
    BY <1>7, <2>1
  <2>2. 0 \in 0..N /\ \A i \in 1..N : i \in 0..N /\ i # 0 BY <1>1
  <2> QED BY <2>1, <2>2
<1>9. \A i \in 0..N : Collected(OneEach[i])
  <2> DEFINE Q == {i \in 0..N : ~Collected(OneEach[i])}
  <2> SUFFICES ASSUME Q # {} PROVE FALSE OBVIOUS
  <2>1. PICK i \in Q : \A j \in Q : i <= j
    <3>1. Q \in SUBSET Nat OBVIOUS
    <3> HIDE DEF Q
    <3> QED BY <3>1, LeastNumber
  <2>2. Collected(a) BY <1>2 DEF S
  <2>3. i # 0 BY <1>8, <2>1, <2>2
  <2>4. i \in 1..N /\ i - 1 \in 0..N /\ ~(i <= i - 1) BY <1>1, <2>1, <2>3
  <2>5. Collected(OneEach[i - 1]) BY <2>1, <2>4
  <2>6. Collected(Take(OneEach[i - 1], groups[i], 1)) BY <1>1, <2>4, <2>5, TakeCollects
  <2> QED BY <1>8, <2>1, <2>4, <2>6
<1> QED BY <1>8, <1>9 DEF a

\* Filling up goes group by group, and every stage of it is a collection.
LEMMA FilledSteps ==
  ASSUME Typed
  PROVE  /\ Filled[0] = OneEach[Len(groups)]
         /\ \A i \in 1..Len(groups) :
              Filled[i] = Take(Filled[i - 1], groups[i], Missing(Filled[i - 1]))
         /\ \A i \in 0..Len(groups) : Collected(Filled[i])
<1> DEFINE N == Len(groups)
           a == OneEach[N]
           S == {acc \in Acc : Collected(acc)}
           F == [p \in (1..N) \X S |-> Take(p[2], groups[p[1]], Missing(p[2]))]
           R(f) == f = [i \in 0..N |-> IF i = 0 THEN a ELSE Take(f[i - 1], groups[i], Missing(f[i - 1]))]
<1>1. N \in Nat /\ DOMAIN groups = 1..N BY DEF Typed
<1>2. a \in S
  <2>1. Collected(a) BY <1>1, OneEachSteps
  <2> QED BY <2>1 DEF Collected
<1>3. \A i \in 1..N, x \in S : F[<<i, x>>] = Take(x, groups[i], Missing(x)) OBVIOUS
<1>4. \A x : Collected(x) => Missing(x) \in Nat
  <2> SUFFICES ASSUME NEW x, Collected(x) PROVE Missing(x) \in Nat OBVIOUS
  <2>1. x.targets \in Seq(Urls) BY DEF Collected, Acc
  <2>2. Len(x.targets) \in Nat BY <2>1
  <2> QED BY <2>2, RankingsAssumption DEF Missing
<1>5. \A i \in 1..N, x \in S : F[<<i, x>>] \in S
  <2>1. \A i \in 1..N, x \in S : Collected(Take(x, groups[i], Missing(x))) BY <1>1, <1>4, TakeCollects
  <2>2. \A x : Collected(x) => x \in S BY DEF Collected
  <2> HIDE DEF S, F
  <2> QED BY <1>3, <2>1, <2>2
<1>6. \E f : R(f)
  <2>1. PICK g \in [0..N -> S] : Iterates(g, a, F, N)
    <3> HIDE DEF S, F, a, N
    <3> QED BY <1>1, <1>2, <1>5, IteratesExist
  <2>2. g = [i \in 0..N |-> IF i = 0 THEN a ELSE F[<<i, g[i - 1]>>]] BY <2>1 DEF Iterates
  <2>3. \A i \in 0..N : i # 0 => g[i - 1] \in S /\ i \in 1..N
    <3> HIDE DEF S
    <3> QED BY <1>1, <2>1
  <2>4. \A i \in 0..N : i # 0 => F[<<i, g[i - 1]>>] = Take(g[i - 1], groups[i], Missing(g[i - 1]))
    <3> HIDE DEF S, F
    <3> QED BY <1>3, <2>3
  <2> HIDE DEF S, F, a, N
  <2>5. R(g) BY <2>2, <2>4
  <2> QED BY <2>5
<1>7. Filled = CHOOSE f : R(f) BY DEF Filled
<1>8. R(Filled)
  <2> HIDE DEF R
  <2> QED BY <1>6, <1>7
<1> HIDE DEF a, S, F
<1>9. Filled[0] = a /\ \A i \in 1..N : Filled[i] = Take(Filled[i - 1], groups[i], Missing(Filled[i - 1]))
  <2>1. ASSUME NEW i \in 0..N
        PROVE  Filled[i] = IF i = 0 THEN a ELSE Take(Filled[i - 1], groups[i], Missing(Filled[i - 1]))
    BY <1>8, <2>1
  <2>2. 0 \in 0..N /\ \A i \in 1..N : i \in 0..N /\ i # 0 BY <1>1
  <2> QED BY <2>1, <2>2
<1>10. \A i \in 0..N : Collected(Filled[i])
  <2> DEFINE Q == {i \in 0..N : ~Collected(Filled[i])}
  <2> SUFFICES ASSUME Q # {} PROVE FALSE OBVIOUS
  <2>1. PICK i \in Q : \A j \in Q : i <= j
    <3>1. Q \in SUBSET Nat OBVIOUS
    <3> HIDE DEF Q
    <3> QED BY <3>1, LeastNumber
  <2>2. Collected(a) BY <1>2 DEF S
  <2>3. i # 0 BY <1>9, <2>1, <2>2
  <2>4. i \in 1..N /\ i - 1 \in 0..N /\ ~(i <= i - 1) BY <1>1, <2>1, <2>3
  <2>5. Collected(Filled[i - 1]) BY <2>1, <2>4
  <2>6. Collected(Take(Filled[i - 1], groups[i], Missing(Filled[i - 1])))
    BY <1>1, <1>4, <2>4, <2>5, TakeCollects
  <2> QED BY <1>9, <2>1, <2>4, <2>6
<1> QED BY <1>9, <1>10 DEF a

\* A cycle without a target: no group in need has a page left.
LEMMA NoTargets ==
  ASSUME Typed, CycleTargets.targets = <<>>, NEW i \in DOMAIN groups, NameOf(i) \in needed
  PROVE  nextIndex[NameOf(i)] >= Len(UrlsOf(i))
<1> DEFINE N == Len(groups)
<1>1. N \in Nat /\ DOMAIN groups = 1..N BY DEF Typed
<1>2. \A n \in 0..N : OneEach[n] \in Acc /\ Filled[n] \in Acc
  BY OneEachSteps, FilledSteps DEF Collected
<1>3. Missing(Filled[0]) \in Nat /\ \A n \in 0..N : Missing(Filled[n]) \in Nat
  <2> SUFFICES ASSUME NEW n \in 0..N PROVE Missing(Filled[n]) \in Nat BY <1>1
  <2>1. Filled[n].targets \in Seq(Urls) BY <1>2 DEF Acc
  <2>2. Len(Filled[n].targets) \in Nat BY <2>1
  <2> QED BY <2>2, RankingsAssumption DEF Missing
<1>4. \A n \in 0..N : Filled[n].targets = <<>>
  <2> DEFINE Q == {n \in 0..N : Filled[N - n].targets # <<>>}
  <2>1. Q = {}
    <3> SUFFICES ASSUME Q # {} PROVE FALSE OBVIOUS
    <3>1. PICK n \in Q : \A m \in Q : n <= m
      <4>1. Q \in SUBSET Nat OBVIOUS
      <4> HIDE DEF Q
      <4> QED BY <4>1, LeastNumber
    <3>2. n # 0
      <4>1. N - 0 = N /\ Filled[N].targets = <<>> BY <1>1 DEF CycleTargets
      <4> QED BY <3>1, <4>1
    <3> DEFINE j == N - (n - 1)
    <3>3. n - 1 \in 0..N /\ ~(n <= n - 1) /\ j \in 1..N /\ j - 1 = N - n /\ j - 1 \in 0..N
      <4>1. n \in 0..N /\ N \in Nat BY <1>1, <3>1
      <4> HIDE DEF N, Q
      <4> QED BY <3>2, <4>1
    <3>4. Filled[j].targets = <<>>
      <4> DEFINE m == n - 1
      <4>1. m \in 0..N /\ ~(n <= m) BY <3>3
      <4> HIDE DEF m, Q
      <4>2. m \notin Q BY <3>1, <4>1
      <4>3. Filled[N - m].targets = <<>> BY <4>1, <4>2 DEF Q
      <4> QED BY <4>3 DEF m
    <3> HIDE DEF j
    <3>5. Take(Filled[j - 1], groups[j], Missing(Filled[j - 1])).targets = <<>>
      BY <3>3, <3>4, FilledSteps
    <3>6. Filled[j - 1].targets = <<>> BY <1>1, <1>2, <1>3, <3>3, <3>5, TakeNothing
    <3> QED BY <3>1, <3>3, <3>6
  <2>2. ASSUME NEW n \in 0..N PROVE Filled[n].targets = <<>>
    <3>1. N - n \in 0..N /\ N - (N - n) = n BY <1>1
    <3> QED BY <2>1, <3>1
  <2> QED BY <2>2
<1>5. OneEach[N].targets = <<>>
  <2>1. Filled[0] = OneEach[N] BY FilledSteps
  <2> QED BY <1>1, <1>4, <2>1
<1>6. \A n \in 0..N : OneEach[n].targets = <<>>
  <2> DEFINE Q == {n \in 0..N : OneEach[N - n].targets # <<>>}
  <2>1. Q = {}
    <3> SUFFICES ASSUME Q # {} PROVE FALSE OBVIOUS
    <3>1. PICK n \in Q : \A m \in Q : n <= m
      <4>1. Q \in SUBSET Nat OBVIOUS
      <4> HIDE DEF Q
      <4> QED BY <4>1, LeastNumber
    <3>2. n # 0
      <4>1. N - 0 = N BY <1>1
      <4> QED BY <1>5, <3>1, <4>1
    <3> DEFINE j == N - (n - 1)
    <3>3. n - 1 \in 0..N /\ ~(n <= n - 1) /\ j \in 1..N /\ j - 1 = N - n /\ j - 1 \in 0..N
      <4>1. n \in 0..N /\ N \in Nat BY <1>1, <3>1
      <4> HIDE DEF N, Q
      <4> QED BY <3>2, <4>1
    <3>4. OneEach[j].targets = <<>>
      <4> DEFINE m == n - 1
      <4>1. m \in 0..N /\ ~(n <= m) BY <3>3
      <4> HIDE DEF m, Q
      <4>2. m \notin Q BY <3>1, <4>1
      <4>3. OneEach[N - m].targets = <<>> BY <4>1, <4>2 DEF Q
      <4> QED BY <4>3 DEF m
    <3> HIDE DEF j
    <3>5. Take(OneEach[j - 1], groups[j], 1).targets = <<>> BY <3>3, <3>4, OneEachSteps
    <3>7. OneEach[j - 1] \in Acc /\ j \in DOMAIN groups /\ 1 \in Nat BY <1>1, <1>2, <3>3
    <3>6. OneEach[j - 1].targets = <<>> BY <3>5, <3>7, TakeNothing
    <3> QED BY <3>1, <3>3, <3>6
  <2>2. ASSUME NEW n \in 0..N PROVE OneEach[n].targets = <<>>
    <3>1. N - n \in 0..N /\ N - (N - n) = n BY <1>1
    <3> QED BY <2>1, <3>1
  <2> QED BY <2>2
<1>7. \A n \in 1..N : /\ OneEach[n].next = OneEach[n - 1].next
                      /\ Left(OneEach[n - 1], groups[n]) = 0
  <2> SUFFICES ASSUME NEW n \in 1..N
               PROVE OneEach[n].next = OneEach[n - 1].next /\ Left(OneEach[n - 1], groups[n]) = 0
    OBVIOUS
  <2>1. n - 1 \in 0..N /\ n \in 0..N BY <1>1
  <2>2. OneEach[n] = Take(OneEach[n - 1], groups[n], 1) BY OneEachSteps
  <2>3. Take(OneEach[n - 1], groups[n], 1).targets = <<>> BY <1>6, <2>1, <2>2
  <2>4. Take(OneEach[n - 1], groups[n], 1).next = OneEach[n - 1].next
        /\ (1 = 0 \/ Left(OneEach[n - 1], groups[n]) = 0)
    BY <1>1, <1>2, <2>1, <2>3, TakeNothing
  <2> QED BY <2>2, <2>4
<1>8. \A n \in 0..N : OneEach[n].next = nextIndex
  <2> DEFINE Q == {n \in 0..N : OneEach[n].next # nextIndex}
  <2> SUFFICES ASSUME Q # {} PROVE FALSE OBVIOUS
  <2>1. PICK n \in Q : \A m \in Q : n <= m
    <3>1. Q \in SUBSET Nat OBVIOUS
    <3> HIDE DEF Q
    <3> QED BY <3>1, LeastNumber
  <2>2. n # 0
    <3>1. OneEach[0].next = nextIndex BY OneEachSteps
    <3> QED BY <2>1, <3>1
  <2>3. n \in 1..N /\ n - 1 \in 0..N /\ ~(n <= n - 1) BY <1>1, <2>1, <2>2
  <2> QED BY <1>7, <2>1, <2>3
<1>9. i \in 1..N /\ i - 1 \in 0..N /\ Left(OneEach[i - 1], groups[i]) = 0 BY <1>1, <1>7
<1>10. OneEach[i - 1].next = nextIndex BY <1>8, <1>9
<1>11. NameOf(i) \in Names /\ Len(UrlsOf(i)) \in Nat BY GroupTyped
<1>12. nextIndex[NameOf(i)] \in Nat BY <1>11 DEF Typed
<1>13. Left(OneEach[i - 1], groups[i]) =
         IF nextIndex[NameOf(i)] >= Len(UrlsOf(i)) THEN 0
         ELSE Len(UrlsOf(i)) - nextIndex[NameOf(i)]
  BY <1>10 DEF Left, NameOf, UrlsOf
<1> QED BY <1>9, <1>11, <1>12, <1>13

(***************************************************************************)
(* The inductive invariant.                                                *)
(***************************************************************************)
CycleRecord == [targets : SUBSET Urls, ok : SUBSET Urls, delta : BOOLEAN, lack : SUBSET Names]
ReadPages == UNION {cycles[i].targets : i \in DOMAIN cycles}

ScrapeTypes ==
  /\ step \in {"hits", "rank", "cycle", "extract", "again", "text", "poor", "limit"}
  /\ retry \in BOOLEAN /\ old \subseteq Urls
  /\ groups \in Seq(Group) /\ needed \subseteq Names /\ nextIndex \in [Names -> Nat]
  /\ batch \in Seq(Urls) /\ cycles \in Seq(CycleRecord)

NothingYet ==
  step \in {"hits", "rank"} =>
    groups = <<>> /\ cycles = <<>> /\ batch = <<>> /\ nextIndex = [n \in Names |-> 0]

GroupsAreNew ==
  /\ GroupsRanked(groups)
  /\ retry => \A i \in DOMAIN groups : \A k \in DOMAIN UrlsOf(i) : UrlsOf(i)[k] \notin old

\* The index of a group separates what was read of it from what was not.
IndexMarksRead ==
  /\ \A u \in Fetched : \E i \in DOMAIN groups : \E k \in DOMAIN UrlsOf(i) :
       UrlsOf(i)[k] = u /\ k <= nextIndex[NameOf(i)]
  /\ \A i \in DOMAIN groups : OwnName(i) =>
       \A k \in DOMAIN UrlsOf(i) : k <= nextIndex[NameOf(i)] => UrlsOf(i)[k] \in Fetched

CyclesApart ==
  /\ \A i, j \in DOMAIN cycles : i < j => cycles[i].targets \cap cycles[j].targets = {}
  /\ step \in {"extract", "again"} => ToSet(batch) \cap ReadPages = {}
  /\ step = "cycle" => ToSet(batch) \subseteq ReadPages

PoorIsPoor == step = "poor" /\ cycles # <<>> => ~Salvageable

ScrapeInv == ScrapeTypes /\ NothingYet /\ GroupsAreNew /\ IndexMarksRead /\ CyclesApart /\ PoorIsPoor

\* The types give what the lemmas on collecting assume.
LEMMA InvTyped == ScrapeTypes => Typed BY DEF ScrapeTypes, Typed

\* What a pass has fetched is what its kept cycles and its present batch read.
LEMMA FetchedIs == Fetched = ReadPages \cup ToSet(batch) BY DEF Fetched, ReadPages

\* At the start, and until the ranking, there is nothing.
LEMMA EmptyIsFine ==
  ASSUME groups = <<>>, cycles = <<>>, batch = <<>>
  PROVE  GroupsAreNew /\ IndexMarksRead /\ CyclesApart /\ PoorIsPoor
<1>1. ReadPages = {} /\ ToSet(batch) = {} BY DEF ReadPages, ToSet
<1>2. Fetched = {} BY <1>1, FetchedIs
<1>3. GroupsRanked(groups)
  <2>1. groups \in Seq(Group) /\ DOMAIN groups = {} OBVIOUS
  <2> QED BY <2>1 DEF GroupsRanked
<1>4. DOMAIN groups = {} /\ DOMAIN cycles = {} OBVIOUS
<1> QED BY <1>1, <1>2, <1>3, <1>4 DEF GroupsAreNew, IndexMarksRead, CyclesApart, PoorIsPoor

\* A pass begins with nothing read.
LEMMA ScrapeInitial == ScrapeInit => ScrapeInv
<1> SUFFICES ASSUME ScrapeInit PROVE ScrapeInv OBVIOUS
<1>1. ScrapeTypes
  <2>1. [n \in Names |-> 0] \in [Names -> Nat] OBVIOUS
  <2>2. groups \in Seq(Group) /\ batch \in Seq(Urls) /\ cycles \in Seq(CycleRecord) BY DEF ScrapeInit
  <2> QED BY <2>1, <2>2 DEF ScrapeInit, ScrapeTypes
<1>2. NothingYet BY DEF ScrapeInit, NothingYet
<1>3. groups = <<>> /\ cycles = <<>> /\ batch = <<>> BY DEF ScrapeInit
<1> QED BY <1>1, <1>2, <1>3, EmptyIsFine DEF ScrapeInv

\* A step that leaves groups, pages and index alone.
LEMMA StepOnly ==
  ASSUME ScrapeInv, UNCHANGED <<retry, old, groups, nextIndex, batch, cycles>>,
         needed' \subseteq Names, step \in {"cycle", "extract", "again"},
         step' \in {"extract", "again", "text", "poor", "limit"},
         step' \in {"extract", "again"} => step \in {"extract", "again"},
         step' = "poor" => ~Salvageable
  PROVE  ScrapeInv'
<1>1. ScrapeTypes' BY DEF ScrapeInv, ScrapeTypes
<1>2. NothingYet' BY DEF NothingYet
<1>3. GroupsAreNew' BY DEF ScrapeInv, GroupsAreNew, UrlsOf
<1>4. IndexMarksRead' BY DEF ScrapeInv, IndexMarksRead, UrlsOf, NameOf, Fetched, OwnName
<1>5. CyclesApart' BY DEF ScrapeInv, CyclesApart, ReadPages
<1>6. PoorIsPoor' BY DEF ScrapeInv, PoorIsPoor, Salvageable
<1> QED BY <1>1, <1>2, <1>3, <1>4, <1>5, <1>6 DEF ScrapeInv

\* Listing the candidates keeps the invariant: nothing is ranked yet.
LEMMA ListKeeps ==
  ASSUME ScrapeInv, ListCandidates PROVE ScrapeInv'
<1>1. ScrapeTypes'
  <2>1. retry' \in BOOLEAN /\ step' = "rank" /\ old' \subseteq Urls BY DEF ListCandidates
  <2> QED BY <2>1 DEF ListCandidates, ScrapeInv, ScrapeTypes
<1>2. NothingYet' /\ groups' = <<>> /\ cycles' = <<>> /\ batch' = <<>>
  BY DEF ListCandidates, ScrapeInv, NothingYet
<1>3. (GroupsAreNew /\ IndexMarksRead /\ CyclesApart /\ PoorIsPoor)'
  <2>1. (groups = <<>> /\ cycles = <<>> /\ batch = <<>>)' BY <1>2
  <2> QED BY <2>1, EmptyIsFine, PTL
<1> QED BY <1>1, <1>2, <1>3 DEF ScrapeInv

\* Ranking keeps it: the groups that Dedupe leaves share no page.
LEMMA RankKeeps ==
  ASSUME ScrapeInv, RankHits PROVE ScrapeInv'
<1>0. /\ step = "rank" /\ groups = <<>> /\ cycles = <<>> /\ batch = <<>> /\ nextIndex = [n \in Names |-> 0]
      /\ UNCHANGED <<retry, old, nextIndex, batch, cycles>>
  BY DEF ScrapeInv, NothingYet, RankHits
<1>1. CASE step' \in {"poor", "limit"} /\ UNCHANGED <<groups, needed>>
  <2>1. ScrapeTypes' BY <1>0, <1>1 DEF ScrapeInv, ScrapeTypes
  <2>2. NothingYet' BY <1>1 DEF NothingYet
  <2>3. (groups = <<>> /\ cycles = <<>> /\ batch = <<>>)' BY <1>0, <1>1
  <2>4. (GroupsAreNew /\ IndexMarksRead /\ CyclesApart /\ PoorIsPoor)' BY <2>3, EmptyIsFine, PTL
  <2> QED BY <2>1, <2>2, <2>4 DEF ScrapeInv
<1>2. CASE \E r \in Rankings \cup {<<>>} :
             groups' = Dedupe(r, Excluded) /\ needed' = NamesOf(groups') /\ step' = "cycle"
  <2>1. PICK r \in Rankings \cup {<<>>} : groups' = Dedupe(r, Excluded) BY <1>2
  <2>2. /\ GroupsRanked(groups')
        /\ \A i \in DOMAIN groups' : \A k \in DOMAIN groups'[i].urls : groups'[i].urls[k] \notin Excluded
    BY <2>1, DedupeSound
  <2>3. groups' \in Seq(Group) BY <2>2 DEF GroupsRanked
  <2>4. needed' \subseteq Names
    <3>1. \A i \in DOMAIN groups' : groups'[i] \in Group BY <2>3
    <3>2. \A i \in DOMAIN groups' : groups'[i].group \in Names BY <3>1 DEF Group
    <3> QED BY <1>2, <3>2 DEF NamesOf
  <2>5. ScrapeTypes' BY <1>0, <1>2, <2>3, <2>4 DEF ScrapeInv, ScrapeTypes
  <2>6. NothingYet' BY <1>2 DEF NothingYet
  <2>7. GroupsAreNew'
    <3>1. retry' => \A i \in DOMAIN groups' : \A k \in DOMAIN groups'[i].urls : groups'[i].urls[k] \notin old'
      BY <1>0, <2>2 DEF Excluded
    <3> QED BY <2>2, <3>1 DEF GroupsAreNew, UrlsOf
  <2>8. Fetched' = {} /\ ReadPages' = {} /\ ToSet(batch') = {} /\ DOMAIN cycles' = {}
    BY <1>0 DEF Fetched, ReadPages, ToSet
  <2>9. IndexMarksRead'
    <3>1. \A i \in DOMAIN groups' : \A k \in DOMAIN groups'[i].urls : k \in Nat /\ k # 0
      <4> SUFFICES ASSUME NEW i \in DOMAIN groups' PROVE DOMAIN groups'[i].urls \subseteq Nat \ {0}
        OBVIOUS
      <4>1. groups'[i] \in Group BY <2>3
      <4>2. groups'[i].urls \in Seq(Urls) BY <4>1 DEF Group
      <4> QED BY <4>2
    <3>2. \A i \in DOMAIN groups' : groups'[i].group \in Names
      <4>1. \A i \in DOMAIN groups' : groups'[i] \in Group BY <2>3
      <4> QED BY <4>1 DEF Group
    <3>3. \A i \in DOMAIN groups' : \A k \in DOMAIN groups'[i].urls : ~(k <= nextIndex'[groups'[i].group])
      BY <1>0, <3>1, <3>2
    <3> QED BY <2>8, <3>3 DEF IndexMarksRead, UrlsOf, NameOf
  <2>10. CyclesApart' BY <2>8 DEF CyclesApart
  <2>11. PoorIsPoor' BY <1>2 DEF PoorIsPoor
  <2> QED BY <2>5, <2>6, <2>7, <2>9, <2>10, <2>11 DEF ScrapeInv
<1> QED BY <1>1, <1>2 DEF RankHits

\* Choosing a cycle's targets keeps it: they are pages behind the groups' places.
LEMMA BeginKeeps ==
  ASSUME ScrapeInv, BeginCycle PROVE ScrapeInv'
<1> DEFINE acc == CycleTargets
<1>0. /\ step = "cycle" /\ step' = "extract" /\ batch' = acc.targets /\ nextIndex' = acc.next
      /\ UNCHANGED <<retry, old, groups, needed, cycles>>
  BY DEF BeginCycle
<1>1. Typed BY InvTyped DEF ScrapeInv
<1>2. Collected(acc)
  <2>1. Len(groups) \in Nat BY <1>1 DEF Typed
  <2> QED BY <1>1, <2>1, FilledSteps DEF CycleTargets
<1> HIDE DEF acc
<1>3. acc.targets \in Seq(Urls) /\ acc.next \in [Names -> Nat] BY <1>2 DEF Collected, Acc
<1>4. ScrapeTypes' BY <1>0, <1>3 DEF ScrapeInv, ScrapeTypes
<1>5. NothingYet' BY <1>0 DEF NothingYet
<1>6. GroupsAreNew' BY <1>0 DEF ScrapeInv, GroupsAreNew, UrlsOf
<1>7. /\ Fetched = ReadPages /\ Fetched' = ReadPages \cup ToSet(acc.targets) /\ ReadPages' = ReadPages
  <2>1. ToSet(batch) \subseteq ReadPages BY <1>0 DEF ScrapeInv, CyclesApart
  <2>2. Fetched = ReadPages BY <2>1, FetchedIs
  <2>3. ReadPages' = ReadPages BY <1>0 DEF ReadPages
  <2>4. Fetched' = ReadPages' \cup ToSet(batch') BY DEF Fetched, ReadPages
  <2> QED BY <1>0, <2>2, <2>3, <2>4
<1>8. \A i \in DOMAIN groups : /\ nextIndex[NameOf(i)] \in Nat /\ acc.next[NameOf(i)] \in Nat
                               /\ nextIndex[NameOf(i)] <= acc.next[NameOf(i)]
                               /\ \A k \in DOMAIN UrlsOf(i) : k \in Nat
  <2> SUFFICES ASSUME NEW i \in DOMAIN groups
               PROVE  /\ nextIndex[NameOf(i)] \in Nat /\ acc.next[NameOf(i)] \in Nat
                      /\ nextIndex[NameOf(i)] <= acc.next[NameOf(i)]
                      /\ \A k \in DOMAIN UrlsOf(i) : k \in Nat
    OBVIOUS
  <2>1. NameOf(i) \in Names /\ \A k \in DOMAIN UrlsOf(i) : k \in Nat BY <1>1, GroupTyped
  <2>2. nextIndex[NameOf(i)] \in Nat BY <1>1, <2>1 DEF Typed
  <2>3. nextIndex[NameOf(i)] <= acc.next[NameOf(i)] BY <1>2, <2>1 DEF Collected
  <2> QED BY <1>3, <2>1, <2>2, <2>3
<1>9. \A u \in ReadPages : \E i \in DOMAIN groups : \E k \in DOMAIN UrlsOf(i) :
        UrlsOf(i)[k] = u /\ k <= nextIndex[NameOf(i)]
  BY <1>7 DEF ScrapeInv, IndexMarksRead
<1>10. \A u \in ToSet(acc.targets) : \E i \in DOMAIN groups : \E k \in DOMAIN UrlsOf(i) :
        UrlsOf(i)[k] = u /\ nextIndex[NameOf(i)] < k /\ k <= acc.next[NameOf(i)]
  BY <1>2 DEF Collected
<1>11. ASSUME NEW u \in ReadPages \cup ToSet(acc.targets)
       PROVE  \E i \in DOMAIN groups : \E k \in DOMAIN UrlsOf(i) :
                UrlsOf(i)[k] = u /\ k <= acc.next[NameOf(i)]
  <2>1. CASE u \in ToSet(acc.targets) BY <1>10, <2>1
  <2>2. CASE u \in ReadPages
    <3>1. PICK i \in DOMAIN groups : \E k \in DOMAIN UrlsOf(i) :
            UrlsOf(i)[k] = u /\ k <= nextIndex[NameOf(i)]
      BY <1>9, <2>2
    <3>2. PICK k \in DOMAIN UrlsOf(i) : UrlsOf(i)[k] = u /\ k <= nextIndex[NameOf(i)] BY <3>1
    <3>3. k <= acc.next[NameOf(i)] BY <1>8, <3>2
    <3> QED BY <3>2, <3>3
  <2> QED BY <2>1, <2>2
<1>12. ASSUME NEW i \in DOMAIN groups, OwnName(i), NEW k \in DOMAIN UrlsOf(i), k <= acc.next[NameOf(i)]
       PROVE  UrlsOf(i)[k] \in ReadPages \cup ToSet(acc.targets)
  <2>1. CASE k <= nextIndex[NameOf(i)] BY <1>7, <1>12, <2>1 DEF ScrapeInv, IndexMarksRead
  <2>2. CASE nextIndex[NameOf(i)] < k BY <1>2, <1>12, <2>2 DEF Collected
  <2> QED BY <1>8, <2>1, <2>2
<1>13. IndexMarksRead'
  <2>1. UNCHANGED groups BY <1>0
  <2> QED BY <1>0, <1>7, <1>11, <1>12, <2>1 DEF IndexMarksRead, UrlsOf, NameOf, OwnName
<1>14. ToSet(acc.targets) \cap ReadPages = {}
  <2> SUFFICES ASSUME NEW u \in ToSet(acc.targets), u \in ReadPages PROVE FALSE OBVIOUS
  <2>1. PICK i \in DOMAIN groups : \E k \in DOMAIN UrlsOf(i) :
          UrlsOf(i)[k] = u /\ nextIndex[NameOf(i)] < k
    BY <1>10
  <2>2. PICK k \in DOMAIN UrlsOf(i) : UrlsOf(i)[k] = u /\ nextIndex[NameOf(i)] < k BY <2>1
  <2>3. PICK j \in DOMAIN groups : \E l \in DOMAIN UrlsOf(j) :
          UrlsOf(j)[l] = u /\ l <= nextIndex[NameOf(j)]
    BY <1>9
  <2>4. PICK l \in DOMAIN UrlsOf(j) : UrlsOf(j)[l] = u /\ l <= nextIndex[NameOf(j)] BY <2>3
  <2>5. i = j /\ k = l BY <2>2, <2>4 DEF ScrapeInv, GroupsAreNew, GroupsRanked, UrlsOf
  <2> QED BY <1>8, <2>2, <2>4, <2>5
<1>15. CyclesApart'
  <2>1. \A i, j \in DOMAIN cycles : i < j => cycles[i].targets \cap cycles[j].targets = {}
    BY DEF ScrapeInv, CyclesApart
  <2> QED BY <1>0, <1>7, <1>14, <2>1 DEF CyclesApart
<1>16. PoorIsPoor' BY <1>0 DEF PoorIsPoor
<1> QED BY <1>4, <1>5, <1>6, <1>13, <1>15, <1>16 DEF ScrapeInv

\* A cycle that ends well keeps it: its pages move from the batch to the cycles.
LEMMA SucceedKeeps ==
  ASSUME ScrapeInv, ExtractSucceeds PROVE ScrapeInv' /\ Fetched' = Fetched
<1>1. PICK ok \in SUBSET ToSet(batch), delta \in BOOLEAN, lack \in SUBSET NamesOf(groups) :
        cycles' = Validated(ok, delta, lack) /\ needed' = lack
  BY DEF ExtractSucceeds
<1>2. /\ step \in {"extract", "again"} /\ step' = "cycle"
      /\ UNCHANGED <<retry, old, groups, nextIndex, batch>>
  BY DEF ExtractSucceeds
<1> DEFINE c == [targets |-> ToSet(batch), ok |-> ok, delta |-> delta, lack |-> lack]
           N == Len(cycles)
<1>3. cycles' = Append(cycles, c) BY <1>1 DEF Validated
<1>4. NamesOf(groups) \subseteq Names /\ ToSet(batch) \subseteq Urls
  <2>1. \A i \in DOMAIN groups : groups[i] \in Group BY DEF ScrapeInv, ScrapeTypes
  <2>2. \A i \in DOMAIN batch : batch[i] \in Urls BY DEF ScrapeInv, ScrapeTypes
  <2> QED BY <2>1, <2>2 DEF Group, NamesOf, ToSet
<1>5. c \in CycleRecord BY <1>4 DEF CycleRecord
<1>6. cycles \in Seq(CycleRecord) /\ N \in Nat /\ DOMAIN cycles = 1..N BY DEF ScrapeInv, ScrapeTypes
<1> HIDE DEF c
<1>7. /\ cycles' \in Seq(CycleRecord) /\ DOMAIN cycles' = 1..(N + 1)
      /\ cycles'[N + 1] = c /\ \A i \in 1..N : cycles'[i] = cycles[i]
  BY <1>3, <1>5, <1>6
<1>8. c.targets = ToSet(batch) BY DEF c
<1>9. ScrapeTypes' BY <1>1, <1>2, <1>4, <1>7 DEF ScrapeInv, ScrapeTypes
<1>10. NothingYet' BY <1>2 DEF NothingYet
<1>11. GroupsAreNew' BY <1>2 DEF ScrapeInv, GroupsAreNew, UrlsOf
<1>12. ReadPages' = ReadPages \cup ToSet(batch)
  <2>1. \A u : u \in ReadPages' <=> \E i \in 1..(N + 1) : u \in cycles'[i].targets BY <1>7 DEF ReadPages
  <2>2. \A u : u \in ReadPages <=> \E i \in 1..N : u \in cycles[i].targets BY <1>6 DEF ReadPages
  <2>3. \A i \in 1..(N + 1) : i \in 1..N \/ i = N + 1 BY <1>6
  <2>4. \A i \in 1..N : i \in 1..(N + 1) BY <1>6
  <2>5. N + 1 \in 1..(N + 1) BY <1>6
  <2> HIDE DEF N
  <2> QED BY <1>7, <1>8, <2>1, <2>2, <2>3, <2>4, <2>5
<1>13. Fetched' = Fetched
  <2>1. Fetched' = ReadPages' \cup ToSet(batch') BY DEF Fetched, ReadPages
  <2> QED BY <1>2, <1>12, <2>1, FetchedIs
<1>14. IndexMarksRead'
  <2>1. UNCHANGED <<groups, nextIndex>> BY <1>2
  <2> QED BY <1>13, <2>1 DEF ScrapeInv, IndexMarksRead, UrlsOf, NameOf, OwnName
<1>15. CyclesApart'
  <2>1. ASSUME NEW i \in 1..(N + 1), NEW j \in 1..(N + 1), i < j
        PROVE  cycles'[i].targets \cap cycles'[j].targets = {}
    <3>1. i \in 1..N /\ cycles'[i] = cycles[i] BY <1>6, <1>7, <2>1
    <3>2. CASE j \in 1..N
      <4>1. cycles'[j] = cycles[j] BY <1>7, <3>2
      <4> QED BY <1>6, <2>1, <3>1, <3>2, <4>1 DEF ScrapeInv, CyclesApart
    <3>3. CASE j = N + 1
      <4>1. cycles'[j].targets = ToSet(batch) BY <1>7, <1>8, <3>3
      <4>2. cycles[i].targets \subseteq ReadPages BY <1>6, <3>1 DEF ReadPages
      <4>3. ToSet(batch) \cap ReadPages = {} BY <1>2 DEF ScrapeInv, CyclesApart
      <4> QED BY <3>1, <4>1, <4>2, <4>3
    <3> QED BY <1>6, <3>2, <3>3
  <2>2. \A i, j \in DOMAIN cycles' : i < j => cycles'[i].targets \cap cycles'[j].targets = {}
    BY <1>7, <2>1
  <2>3. ToSet(batch') \subseteq ReadPages' BY <1>2, <1>12
  <2> QED BY <1>2, <2>2, <2>3 DEF CyclesApart
<1>16. PoorIsPoor' BY <1>2 DEF PoorIsPoor
<1> QED BY <1>9, <1>10, <1>11, <1>13, <1>14, <1>15, <1>16 DEF ScrapeInv

\* The invariant of the work on one engine's results, and that it is kept.
LEMMA ScrapeKeeps == ScrapeInv /\ [ScrapeNext]_scrapeVars => ScrapeInv'
<1> SUFFICES ASSUME ScrapeInv, [ScrapeNext]_scrapeVars PROVE ScrapeInv' OBVIOUS
<1>0. needed \subseteq Names BY DEF ScrapeInv, ScrapeTypes
<1>1. CASE ListCandidates BY <1>1, ListKeeps
<1>2. CASE RankHits BY <1>2, RankKeeps
<1>3. CASE StopCycling BY <1>0, <1>3, StepOnly DEF StopCycling
<1>4. CASE BeginCycle BY <1>4, BeginKeeps
<1>5. CASE ExtractSucceeds BY <1>5, SucceedKeeps
<1>6. CASE ExtractFails BY <1>0, <1>6, StepOnly DEF ExtractFails
<1>7. CASE UNCHANGED scrapeVars
  <2>1. UNCHANGED <<step, retry, old, groups, needed, nextIndex, batch, cycles>> BY <1>7 DEF scrapeVars
  <2>2. (ScrapeTypes /\ NothingYet)' BY <2>1 DEF ScrapeInv, ScrapeTypes, NothingYet
  <2>3. GroupsAreNew' BY <2>1 DEF ScrapeInv, GroupsAreNew, UrlsOf
  <2>4. IndexMarksRead' BY <2>1 DEF ScrapeInv, IndexMarksRead, UrlsOf, NameOf, Fetched, OwnName
  <2>5. CyclesApart' BY <2>1 DEF ScrapeInv, CyclesApart, ReadPages
  <2>6. PoorIsPoor' BY <2>1 DEF ScrapeInv, PoorIsPoor, Salvageable
  <2> QED BY <2>2, <2>3, <2>4, <2>5, <2>6 DEF ScrapeInv
<1> QED BY <1>1, <1>2, <1>3, <1>4, <1>5, <1>6, <1>7 DEF ScrapeNext

\* The invariant holds throughout a pass.
LEMMA ScrapeInvHolds == ScrapeSpec => []ScrapeInv
  BY ScrapeInitial, ScrapeKeeps, PTL DEF ScrapeSpec

\* Reading in cycles loses no hit, repeats no page, throws no finding away and
\* leaves no page of a group in need unread while a cycle is left.
THEOREM CyclesAlwaysKeep == ScrapeSpec => []CyclesKeepWhatTheyRead
<1>1. ScrapeInv => CyclesKeepWhatTheyRead
  <2> SUFFICES ASSUME ScrapeInv PROVE CyclesKeepWhatTheyRead OBVIOUS
  <2>1. NoHitIsLost BY DEF NoHitIsLost, Snippets, ScrapedOk
  <2>2. PagesAreNew
    <3>1. retry => Fetched \cap old = {} BY DEF ScrapeInv, GroupsAreNew, IndexMarksRead
    <3> QED BY <3>1 DEF PagesAreNew, ScrapeInv, CyclesApart
  <2>3. FindingsAreKept BY DEF FindingsAreKept, ScrapeInv, PoorIsPoor, Salvageable
  <2>4. LackingPagesAreRead
    <3> SUFFICES ASSUME step = "cycle", Len(cycles) < MaxCycles, NEW i \in DOMAIN groups,
                        OwnName(i), groups[i].group \in needed,
                        ~(ToSet(groups[i].urls) \subseteq Fetched)
                 PROVE  CanCycle
      BY DEF LackingPagesAreRead
    <3>1. Typed BY InvTyped DEF ScrapeInv
    <3>2. PICK k \in DOMAIN UrlsOf(i) : UrlsOf(i)[k] \notin Fetched BY DEF ToSet, UrlsOf
    <3>3. NameOf(i) \in Names /\ k \in 1..Len(UrlsOf(i)) /\ Len(UrlsOf(i)) \in Nat
      BY <3>1, GroupTyped
    <3>4. nextIndex[NameOf(i)] \in Nat BY <3>1, <3>3 DEF Typed
    <3>5. ~(k <= nextIndex[NameOf(i)]) BY <3>2 DEF ScrapeInv, IndexMarksRead
    <3>6. ~(nextIndex[NameOf(i)] >= Len(UrlsOf(i))) BY <3>3, <3>4, <3>5
    <3>7. NameOf(i) \in needed BY DEF NameOf
    <3>8. CycleTargets.targets # <<>> BY <3>1, <3>6, <3>7, NoTargets
    <3> QED BY <3>7, <3>8 DEF CanCycle
  <2> QED BY <2>1, <2>2, <2>3, <2>4 DEF CyclesKeepWhatTheyRead
<1> QED BY <1>1, ScrapeInvHolds, PTL

(***************************************************************************)
(* The pipeline's view: listing, reading, one end.                         *)
(***************************************************************************)
StageNow == CASE step = "hits" -> "asked"
              [] step \in Finished -> step
              [] OTHER -> "listed"

\* What the pipeline sees at each step of a pass.
LEMMA StageCases ==
  /\ step = "hits" => StageNow = "asked"
  /\ step \in Finished => StageNow = step
  /\ step \in {"rank", "cycle", "extract", "again"} => StageNow = "listed"
  BY DEF StageNow, Finished

\* What research_from_hits does is what the pipeline relies on, step by step.
THEOREM CyclesAreOnePass == ScrapeSpec => Section!Safety
<1>1. ScrapeInit => Section!Init
  <2> SUFFICES ASSUME ScrapeInit PROVE Section!Init OBVIOUS
  <2>1. StageNow = "asked" BY StageCases DEF ScrapeInit
  <2>2. Fetched = {} BY DEF ScrapeInit, Fetched, ToSet
  <2> QED BY <2>1, <2>2 DEF Section!Init, StageNow
<1>2. ScrapeInv /\ [ScrapeNext]_scrapeVars => [Section!Next]_<<StageNow, Fetched>>
  <2> SUFFICES ASSUME ScrapeInv, [ScrapeNext]_scrapeVars
               PROVE  [Section!Next]_<<StageNow, Fetched>>
    OBVIOUS
  <2>0. Section!Next <=> \/ StageNow = "asked" /\ StageNow' = "listed" /\ UNCHANGED Fetched
                         \/ /\ StageNow = "listed"
                            /\ \E new \in (SUBSET (Urls \ Fetched)) \ {{}} : Fetched' = Fetched \cup new
                            /\ UNCHANGED StageNow
                         \/ StageNow = "listed" /\ StageNow' \in Finished /\ UNCHANGED Fetched
    BY DEF Section!Next, Section!List, Section!ReadPages, Section!End, Section!Outcome, StageNow, Finished
  <2>1. \A s : step' = s => /\ s = "hits" => StageNow' = "asked"
                            /\ s \in Finished => StageNow' = s
                            /\ s \in {"rank", "cycle", "extract", "again"} => StageNow' = "listed"
    BY DEF StageNow, Finished
  <2>2. UNCHANGED <<batch, cycles>> => UNCHANGED Fetched BY DEF Fetched
  <2>3. CASE ListCandidates BY <2>0, <2>1, <2>2, <2>3, StageCases DEF ListCandidates
  <2>4. CASE RankHits BY <2>0, <2>1, <2>2, <2>4, StageCases DEF RankHits, Finished
  <2>5. CASE StopCycling BY <2>0, <2>1, <2>2, <2>5, StageCases DEF StopCycling, Finished
  <2>6. CASE BeginCycle
    <3> DEFINE acc == CycleTargets
    <3>1. /\ step = "cycle" /\ step' = "extract" /\ UNCHANGED cycles
          /\ batch' = acc.targets /\ acc.targets # <<>>
      BY <2>6 DEF BeginCycle, CanCycle
    <3>2. StageNow = "listed" /\ StageNow' = "listed" BY <2>1, <3>1, StageCases
    <3> HIDE DEF acc
    <3>3. ScrapeInv' BY <2>6, BeginKeeps
    <3>4. ToSet(batch') \cap ReadPages' = {} /\ ReadPages' = ReadPages /\ batch' \in Seq(Urls)
      BY <3>1, <3>3 DEF ScrapeInv, CyclesApart, ScrapeTypes, ReadPages
    <3>5. Fetched = ReadPages
      <4>1. ToSet(batch) \subseteq ReadPages BY <3>1 DEF ScrapeInv, CyclesApart
      <4> QED BY <4>1, FetchedIs
    <3>6. Fetched' = Fetched \cup ToSet(batch')
      <4>1. Fetched' = ReadPages' \cup ToSet(batch') BY DEF Fetched, ReadPages
      <4> QED BY <3>4, <3>5, <4>1
    <3>7. ToSet(batch') \subseteq Urls \ Fetched
      <4>1. \A i \in DOMAIN batch' : batch'[i] \in Urls BY <3>4
      <4> QED BY <3>4, <3>5, <4>1 DEF ToSet
    <3>8. ToSet(batch') # {}
      <4>1. batch' # <<>> /\ 1 \in DOMAIN batch' BY <3>1, <3>4
      <4> QED BY <4>1 DEF ToSet
    <3> QED BY <2>0, <3>2, <3>6, <3>7, <3>8
  <2>7. CASE ExtractSucceeds
    <3>1. step \in {"extract", "again"} /\ step' = "cycle" BY <2>7 DEF ExtractSucceeds
    <3>2. StageNow = "listed" /\ StageNow' = "listed" BY <2>1, <3>1, StageCases
    <3>3. Fetched' = Fetched BY <2>7, SucceedKeeps
    <3> QED BY <3>2, <3>3
  <2>8. CASE ExtractFails
    <3>1. UNCHANGED Fetched BY <2>2, <2>8 DEF ExtractFails
    <3>2. step \in {"extract", "again"} /\ (step' = "again" \/ step' \in Finished)
      BY <2>8 DEF ExtractFails, Finished
    <3> QED BY <2>0, <2>1, <3>1, <3>2, StageCases
  <2>9. CASE UNCHANGED scrapeVars BY <2>9 DEF scrapeVars, StageNow, Fetched
  <2> QED BY <2>3, <2>4, <2>5, <2>6, <2>7, <2>8, <2>9 DEF ScrapeNext
<1>3. ScrapeSpec => Section!Init /\ [][Section!Next]_<<StageNow, Fetched>>
  BY <1>1, <1>2, ScrapeInvHolds, PTL DEF ScrapeSpec
<1> QED BY <1>3 DEF Section!Safety, StageNow

(***************************************************************************)
(* MeasuredSeries: where the series is.  A ladder that goes from one place *)
(* to the next ends empty exactly when none of them holds anything.        *)
(***************************************************************************)
\* The beginning of a list.
LEMMA UpToIsStart ==
  ASSUME NEW S, NEW s \in Seq(S), NEW n \in Nat
  PROVE  /\ UpTo(s, n) \in Seq(S)
         /\ \E m \in Nat : DOMAIN UpTo(s, n) = 1..m
         /\ \A i \in DOMAIN UpTo(s, n) : UpTo(s, n)[i] = s[i] /\ s[i] \in S
<1> DEFINE m == IF Len(s) <= n THEN Len(s) ELSE n
<1>1. m \in Nat /\ m <= Len(s) /\ DOMAIN s = 1..Len(s) /\ Len(s) \in Nat OBVIOUS
<1>2. UpTo(s, n) = SubSeq(s, 1, m) BY DEF UpTo
<1>3. \A i \in 1..m : s[i] \in S BY <1>1
<1>5. m \in Nat BY <1>1
<1> HIDE DEF m
<1>4. /\ SubSeq(s, 1, m) \in Seq(S) /\ DOMAIN SubSeq(s, 1, m) = 1..m
      /\ \A i \in 1..m : SubSeq(s, 1, m)[i] = s[i]
  BY <1>1
<1>6. DOMAIN UpTo(s, n) = 1..m BY <1>2, <1>4
<1>7. \E k \in Nat : DOMAIN UpTo(s, n) = 1..k BY <1>5, <1>6
<1> QED BY <1>2, <1>3, <1>4, <1>7 DEF m

\* A stub is followed to the page it names.
Hop(w, u) == IF u # Nowhere /\ w[u].ok /\ w[u].to # Nowhere THEN w[u].to ELSE u
Hops(g, w, url) == g = [n \in 0..MaxHops |-> IF n = 0 THEN url ELSE Hop(w, g[n - 1])]

\* Stubs lead to pages, and from nowhere to nowhere.
LEMMA LandsOnPage ==
  ASSUME NEW w \in Webs, NEW url \in (DOMAIN w) \cup {Nowhere}
  PROVE  /\ Landing(w, url) \in (DOMAIN w) \cup {Nowhere}
         /\ url = Nowhere => Landing(w, url) = Nowhere
<1> DEFINE N == MaxHops
           S == (DOMAIN w) \cup {Nowhere}
           F == [p \in (1..N) \X S |-> Hop(w, p[2])]
<1>1. N \in Nat \ {0} BY SeriesAssumption
<1>2. \A u \in S : Hop(w, u) \in S
  <2> SUFFICES ASSUME NEW u \in S PROVE Hop(w, u) \in S OBVIOUS
  <2>1. u # Nowhere => w[u] \in Served(w) BY SeriesAssumption
  <2>2. u # Nowhere => w[u].to \in S BY <2>1 DEF Served
  <2> QED BY <2>2 DEF Hop
<1>3. \A i \in 1..N, x \in S : F[<<i, x>>] = Hop(w, x) /\ F[<<i, x>>] \in S BY <1>2
<1>4. PICK h \in [0..N -> S] : Iterates(h, url, F, N)
  <2> HIDE DEF F, N, S
  <2>1. url \in S BY DEF S
  <2> QED BY <1>1, <1>3, <2>1, IteratesExist
<1>5. Hops(h, w, url)
  <2>1. h = [i \in 0..N |-> h[i]] OBVIOUS
  <2>2. ASSUME NEW i \in 0..N PROVE h[i] = IF i = 0 THEN url ELSE Hop(w, h[i - 1])
    <3>1. h[i] = IF i = 0 THEN url ELSE F[<<i, h[i - 1]>>]
      <4> HIDE DEF F
      <4> QED BY <1>4 DEF Iterates
    <3>2. CASE i = 0 BY <3>1, <3>2
    <3>3. CASE i # 0
      <4>1. i \in 1..N /\ i - 1 \in 0..N BY <1>1, <3>3
      <4>2. h[i - 1] \in S BY <4>1
      <4> HIDE DEF F
      <4>3. F[<<i, h[i - 1]>>] = Hop(w, h[i - 1]) BY <1>3, <4>1, <4>2
      <4> QED BY <3>1, <3>3, <4>3
    <3> QED BY <3>2, <3>3
  <2> QED BY <2>1, <2>2 DEF Hops
<1> DEFINE k == CHOOSE g : Hops(g, w, url)
           last == k[N - 1]
<1>6. Landing(w, url) =
        IF last # Nowhere /\ w[last].ok /\ w[last].to \in {Nowhere, last} THEN last ELSE Nowhere
  BY DEF Landing, Hops, Hop
<1>7. Hops(k, w, url) BY <1>5
<1> HIDE DEF k, F
<1>8. \A n \in 0..N : k[n] = IF n = 0 THEN url ELSE Hop(w, k[n - 1]) BY <1>7 DEF Hops
<1> DEFINE P == {n \in 0..N : ~(k[n] \in S /\ (url = Nowhere => k[n] = Nowhere))}
<1>9. P = {}
  <2> SUFFICES ASSUME P # {} PROVE FALSE OBVIOUS
  <2>1. PICK n \in P : \A m \in P : n <= m
    <3>1. P \in SUBSET Nat OBVIOUS
    <3> HIDE DEF P
    <3> QED BY <3>1, LeastNumber
  <2>2. n \in 0..N /\ ~(k[n] \in S /\ (url = Nowhere => k[n] = Nowhere)) OBVIOUS
  <2>3. CASE n = 0 BY <1>8, <2>2, <2>3
  <2>4. CASE n # 0
    <3>1. n - 1 \in 0..N /\ ~(n <= n - 1) BY <1>1, <2>2, <2>4
    <3>2. n - 1 \notin P
      <4> HIDE DEF P
      <4> QED BY <2>1, <3>1
    <3>3. k[n - 1] \in S /\ (url = Nowhere => k[n - 1] = Nowhere) BY <3>1, <3>2
    <3>4. k[n] = Hop(w, k[n - 1]) BY <1>8, <2>2, <2>4
    <3>5. url = Nowhere => Hop(w, k[n - 1]) = Nowhere BY <3>3 DEF Hop
    <3> QED BY <1>2, <2>2, <3>3, <3>4, <3>5
  <2> QED BY <2>3, <2>4
<1>10. last \in S /\ (url = Nowhere => last = Nowhere)
  <2>1. N - 1 \in 0..N BY <1>1
  <2>2. N - 1 \notin P BY <1>9
  <2> QED BY <2>1, <2>2
<1> HIDE DEF last
<1> QED BY <1>6, <1>10

\* The endpoints a page names are pages, in a list.
LEMMA EndpointsAreListed ==
  ASSUME NEW w \in Webs, NEW u \in DOMAIN w
  PROVE  Ranked(w, u) \in Seq(DOMAIN w)
<1> DEFINE S == DOMAIN w
           bs == UpTo(w[u].bundles, MaxBundles)
           ss == [i \in DOMAIN bs |-> LET b == w[u].bundles[i] IN IF w[b].ok THEN w[b].data ELSE <<>>]
           names == w[u].data \o FlattenSeq(ss)
<1>1. \A x \in S : w[x] \in Served(w) BY SeriesAssumption
<1>2. \A x \in S : w[x].data \in Seq(S) /\ w[x].bundles \in Seq(S) BY <1>1 DEF Served
<1>3. MaxBundles \in Nat /\ MaxCandidates \in Nat BY SeriesAssumption
<1>4. /\ bs \in Seq(S) /\ \E m \in Nat : DOMAIN bs = 1..m
      /\ \A i \in DOMAIN bs : w[u].bundles[i] \in S
  <2> DEFINE all == w[u].bundles
  <2>1. all \in Seq(S) BY <1>2
  <2> HIDE DEF S, all
  <2>2. /\ UpTo(all, MaxBundles) \in Seq(S) /\ \E m \in Nat : DOMAIN UpTo(all, MaxBundles) = 1..m
        /\ \A i \in DOMAIN UpTo(all, MaxBundles) :
             UpTo(all, MaxBundles)[i] = all[i] /\ all[i] \in S
    BY <1>3, <2>1, UpToIsStart
  <2>3. bs = UpTo(all, MaxBundles) BY DEF all
  <2> HIDE DEF bs
  <2>4. \A i \in DOMAIN bs : all[i] \in S BY <2>2, <2>3
  <2>5. bs \in Seq(S) /\ \E m \in Nat : DOMAIN bs = 1..m BY <2>2, <2>3
  <2> QED BY <2>4, <2>5 DEF all
<1>5. ss \in Seq(Seq(S))
  <2>1. PICK m \in Nat : DOMAIN bs = 1..m BY <1>4
  <2>2. \A i \in 1..m : ss[i] \in Seq(S)
    <3> SUFFICES ASSUME NEW i \in 1..m PROVE ss[i] \in Seq(S) OBVIOUS
    <3>1. w[u].bundles[i] \in S BY <1>4, <2>1
    <3>2. w[w[u].bundles[i]].data \in Seq(S) BY <1>2, <3>1
    <3>3. <<>> \in Seq(S) OBVIOUS
    <3> QED BY <2>1, <3>2, <3>3
  <2> HIDE DEF bs
  <2>3. ss \in [1..m -> Seq(S)] BY <2>1, <2>2
  <2> HIDE DEF ss, S
  <2> QED BY <2>3, NumberedIsSeq
<1>6. FlattenSeq(ss) \in Seq(S)
  <2> HIDE DEF ss, S
  <2>1. CASE ss = <<>> BY <2>1 DEF FlattenSeq
  <2>2. CASE ss # <<>> BY <1>5, <2>2, FlattenIsAll
  <2> QED BY <2>1, <2>2
<1>7. names \in Seq(S)
  <2>1. w[u].data \in Seq(S) BY <1>2
  <2> HIDE DEF ss, S
  <2> QED BY <1>6, <2>1, TextsJoin
<1>8. Ranked(w, u) = UpTo(names, MaxCandidates) BY DEF Ranked
<1> HIDE DEF names, S
<1>9. UpTo(names, MaxCandidates) \in Seq(S) BY <1>3, <1>7, UpToIsStart
<1> QED BY <1>8, <1>9 DEF S

\* The first of a list that is one of those sought is found when there is one.
LEMMA FirstIsFound ==
  ASSUME NEW n \in Nat, NEW hits \in SUBSET (1..n), hits # {}
  PROVE  Min(hits) \in hits
<1>1. hits \in SUBSET Nat OBVIOUS
<1>2. PICK m \in hits : \A i \in hits : m <= i BY <1>1, LeastNumber
<1> QED BY <1>1, <1>2 DEF Min

SeriesAt(w, c) == Holds(w, Landing(w, c)) /\ ~w[Landing(w, c)].html

\* Every endpoint is tried until one holds a series.
LEMMA EndpointIsFound ==
  ASSUME NEW w \in Webs, NEW u \in DOMAIN w
  PROVE  Endpoint(w, u) # Nowhere <=> \E c \in ToSet(Ranked(w, u)) : SeriesAt(w, c)
<1> DEFINE urls == Ranked(w, u)
           hits == {i \in DOMAIN urls : SeriesAt(w, urls[i])}
<1>1. /\ \E n \in Nat : DOMAIN urls = 1..n
      /\ \A i \in DOMAIN urls : urls[i] \in DOMAIN w
  <2>1. urls \in Seq(DOMAIN w) BY EndpointsAreListed
  <2> HIDE DEF urls
  <2> QED BY <2>1
<1>2. PICK n \in Nat : DOMAIN urls = 1..n BY <1>1
<1>3. Endpoint(w, u) = IF hits = {} THEN Nowhere ELSE urls[Min(hits)] BY DEF Endpoint, SeriesAt
<1>4. \A i \in hits : urls[i] # Nowhere
  <2> SUFFICES ASSUME NEW i \in hits, urls[i] = Nowhere PROVE FALSE OBVIOUS
  <2>1. urls[i] \in DOMAIN w /\ SeriesAt(w, urls[i]) BY <1>1
  <2>2. Landing(w, urls[i]) = Nowhere BY <2>1, LandsOnPage
  <2> QED BY <2>1, <2>2 DEF SeriesAt, Holds
<1>5. (\E c \in ToSet(urls) : SeriesAt(w, c)) <=> hits # {} BY DEF ToSet
<1>6. hits # {} => Min(hits) \in hits
  <2>1. hits \in SUBSET (1..n) BY <1>2
  <2> HIDE DEF hits
  <2> QED BY <2>1, FirstIsFound
<1> HIDE DEF hits, urls
<1> QED BY <1>3, <1>4, <1>5, <1>6 DEF urls

\* One page is searched to its end.
LEMMA ClimbFinds ==
  ASSUME NEW w \in Webs, NEW here \in DOMAIN w, here # Nowhere, NEW framed
  PROVE  Climb(w, here, framed) # Nowhere <=>
           \/ w[here].inline >= MinRows \/ framed # Nowhere
           \/ \E x \in Reach(w, here) : Holds(w, x)
<1>1. \A c \in ToSet(Ranked(w, here)) : c \in DOMAIN w
  <2>1. Ranked(w, here) \in Seq(DOMAIN w) BY EndpointsAreListed
  <2> QED BY <2>1 DEF ToSet
<1>2. (\E x \in Reach(w, here) : Holds(w, x))
        <=> Holds(w, here) \/ \E c \in ToSet(Ranked(w, here)) : SeriesAt(w, c)
  BY DEF Reach, SeriesAt, Holds
<1> QED BY <1>2, EndpointIsFound DEF Climb

FramesOf(w, here) == ToSet(UpTo(w[here].frames, MaxFrames))

\* So is every frame.
LEMMA FrameIsFound ==
  ASSUME NEW w \in Webs, NEW here \in DOMAIN w
  PROVE  /\ \A f \in FramesOf(w, here) : Landing(w, f) \in (DOMAIN w) \cup {Nowhere}
         /\ Framed(w, here) # Nowhere <=> \E f \in FramesOf(w, here) : InFrame(w, f) # Nowhere
<1> DEFINE fs == UpTo(w[here].frames, MaxFrames)
           inner == [i \in DOMAIN fs |-> InFrame(w, w[here].frames[i])]
           hits == {i \in DOMAIN inner : inner[i] # Nowhere}
<1>1. w[here] \in Served(w) /\ MaxFrames \in Nat BY SeriesAssumption
<1>2. w[here].frames \in Seq(DOMAIN w) BY <1>1 DEF Served
<1>3. PICK n \in Nat : DOMAIN fs = 1..n
  <2>1. \E m \in Nat : DOMAIN fs = 1..m BY <1>1, <1>2, UpToIsStart
  <2> QED BY <2>1
<1>4. \A i \in DOMAIN fs : fs[i] = w[here].frames[i] /\ fs[i] \in DOMAIN w
  <2> DEFINE S == DOMAIN w
             all == w[here].frames
  <2>1. all \in Seq(S) BY <1>2
  <2> HIDE DEF S, all
  <2>2. \A i \in DOMAIN UpTo(all, MaxFrames) :
          UpTo(all, MaxFrames)[i] = all[i] /\ all[i] \in S
    BY <1>1, <2>1, UpToIsStart
  <2> QED BY <2>2 DEF S, all
<1>5. Framed(w, here) = IF hits = {} THEN Nowhere ELSE inner[Min(hits)] BY DEF Framed
<1>6. hits # {} => Min(hits) \in hits
  <2>1. hits \in SUBSET (1..n) BY <1>3
  <2> HIDE DEF hits
  <2> QED BY <2>1, FirstIsFound
<1>7. Framed(w, here) # Nowhere <=> hits # {} BY <1>5, <1>6
<1>8. \A i \in DOMAIN fs : inner[i] = InFrame(w, fs[i]) BY <1>4
<1>9. hits # {} <=> \E f \in ToSet(fs) : InFrame(w, f) # Nowhere BY <1>8 DEF ToSet
<1>10. \A f \in ToSet(fs) : f \in DOMAIN w BY <1>4 DEF ToSet
<1> QED BY <1>7, <1>9, <1>10, LandsOnPage DEF FramesOf

\* A series is found if and only if there is one in reach.
LEMMA SeriesIsFound ==
  ASSUME NEW w \in Webs
  PROVE  LET here == Landing(w, Page)
             frames == IF here = Nowhere THEN {}
                       ELSE {Landing(w, f) : f \in ToSet(UpTo(w[here].frames, MaxFrames))}
             places == UNION {Reach(w, u) : u \in ({here} \cup frames) \ {Nowhere}}
             inline == {u \in ({here} \cup frames) \ {Nowhere} : w[u].inline >= MinRows}
         IN Discover(w) # Nowhere <=> inline # {} \/ \E u \in places : Holds(w, u)
<1> DEFINE here == Landing(w, Page)
           frames == IF here = Nowhere THEN {}
                     ELSE {Landing(w, f) : f \in ToSet(UpTo(w[here].frames, MaxFrames))}
           pages == ({here} \cup frames) \ {Nowhere}
           Hit(u) == w[u].inline >= MinRows \/ \E x \in Reach(w, u) : Holds(w, x)
<1>1. Page \in DOMAIN w BY SeriesAssumption
<1>2. here \in (DOMAIN w) \cup {Nowhere} BY <1>1, LandsOnPage
<1> SUFFICES Discover(w) # Nowhere <=> \E u \in pages : Hit(u) OBVIOUS
<1>3. CASE here = Nowhere
  <2>1. Discover(w) = Nowhere BY <1>3 DEF Discover, Climb
  <2>2. pages = {} BY <1>3
  <2> QED BY <2>1, <2>2
<1>4. CASE here # Nowhere
  <2>1. here \in DOMAIN w BY <1>2, <1>4
  <2>2. Discover(w) = Climb(w, here, Framed(w, here)) BY <1>4 DEF Discover
  <2>3. Discover(w) # Nowhere <=> Hit(here) \/ Framed(w, here) # Nowhere
    BY <1>4, <2>1, <2>2, ClimbFinds
  <2>4. ASSUME NEW f \in FramesOf(w, here)
        PROVE  InFrame(w, f) # Nowhere <=> Landing(w, f) # Nowhere /\ Hit(Landing(w, f))
    <3> DEFINE l == Landing(w, f)
    <3>1. l \in (DOMAIN w) \cup {Nowhere} BY <2>1, FrameIsFound
    <3>2. CASE l = Nowhere BY <3>2 DEF InFrame, Climb
    <3>3. CASE l # Nowhere
      <4>1. l \in DOMAIN w BY <3>1, <3>3
      <4>2. InFrame(w, f) = Climb(w, l, Nowhere) BY DEF InFrame
      <4> QED BY <3>3, <4>1, <4>2, ClimbFinds
    <3> QED BY <3>2, <3>3
  <2>5. frames = {Landing(w, f) : f \in FramesOf(w, here)} BY <1>4 DEF FramesOf
  <2>6. Framed(w, here) # Nowhere <=> \E f \in FramesOf(w, here) : InFrame(w, f) # Nowhere
    BY <2>1, FrameIsFound
  <2> HIDE DEF Hit, here
  <2>7. (\E u \in pages : Hit(u))
          <=> Hit(here) \/ \E f \in FramesOf(w, here) : Landing(w, f) # Nowhere /\ Hit(Landing(w, f))
    BY <1>4, <2>5
  <2> QED BY <2>3, <2>4, <2>6, <2>7
<1> QED BY <1>3, <1>4

(***************************************************************************)
(* MeasuredSeries: the table.                                              *)
(***************************************************************************)
Numbered(rows) == rows \in [1..Len(rows) -> Measured] /\ Len(rows) \in Nat
InOrder(rows) == \A i, j \in DOMAIN rows : i <= j => rows[i].at <= rows[j].at

\* The greater of two numbers.
LEMMA MaxOfTwo ==
  ASSUME NEW a \in Int, NEW b \in Int
  PROVE  Max({a, b}) = IF a <= b THEN b ELSE a
<1> DEFINE m == IF a <= b THEN b ELSE a
<1>1. m \in {a, b} /\ \A y \in {a, b} : m >= y OBVIOUS
<1>2. \A x \in {a, b} : (\A y \in {a, b} : x >= y) => x = m OBVIOUS
<1> HIDE DEF m
<1> QED BY <1>1, <1>2 DEF Max, m

\* Half of a number.
LEMMA Halves ==
  ASSUME NEW n \in Nat
  PROVE  /\ n \div 2 \in Nat /\ n % 2 \in {0, 1} /\ n = 2 * (n \div 2) + (n % 2)
         /\ (n + 1) \div 2 = (n \div 2) + (n % 2)
OBVIOUS

\* The numbers from a to b.
LEMMA CountBetween ==
  ASSUME NEW a \in Int, NEW b \in Int, a <= b + 1
  PROVE  IsFiniteSet(a..b) /\ Cardinality(a..b) = b - a + 1
<1>1. IsFiniteSet(a..b) /\ Cardinality(a..b) = IF a > b THEN 0 ELSE b - a + 1 BY FS_Interval
<1>2. a > b => b - a + 1 = 0 OBVIOUS
<1> QED BY <1>1, <1>2

\* The first rows of a list.
LEMMA UpToIsPart ==
  ASSUME NEW rows, Numbered(rows), NEW n \in Nat
  PROVE  LET s == UpTo(rows, n)
         IN /\ Numbered(s) /\ DOMAIN s = 1..Len(s) /\ Len(s) <= Len(rows)
            /\ Len(s) = IF Len(rows) <= n THEN Len(rows) ELSE n
            /\ \A i \in 1..Len(s) : s[i] = rows[i]
<1> DEFINE m == IF Len(rows) <= n THEN Len(rows) ELSE n
           s == UpTo(rows, n)
<1>1. m \in Nat /\ m <= Len(rows) /\ Len(rows) \in Nat BY DEF Numbered
<1>2. s = SubSeq(rows, 1, m) BY DEF UpTo
<1>3. rows \in Seq(Measured) BY NumberedIsSeq DEF Numbered
<1> HIDE DEF m, s
<1>4. s \in Seq(Measured) /\ Len(s) = m /\ \A i \in 1..m : s[i] = rows[i]
  <2>1. \A i \in 1..m : i \in 1..Len(rows) BY <1>1
  <2> QED BY <1>1, <1>2, <1>3, <2>1
<1>5. s \in [1..m -> Measured] /\ DOMAIN s = 1..m BY <1>4
<1> QED BY <1>1, <1>4, <1>5 DEF Numbered, s, m

\* When every day has rows of two entities there are at most half as many days as rows:
\* each day has a first row and one that is not.
LEMMA DaysAreHalf ==
  ASSUME NEW s, Numbered(s),
         \A i \in DOMAIN s : \E j \in DOMAIN s : s[j].at = s[i].at /\ s[j].of # s[i].of
  PROVE  LET days == {s[i].at : i \in DOMAIN s}
         IN Cardinality(days) \in Nat /\ 2 * Cardinality(days) <= Len(s)
<1> DEFINE D == DOMAIN s
           n == Len(s)
           days == {s[i].at : i \in D}
           first == [d \in days |-> CHOOSE i \in D : s[i].at = d]
           F == {first[d] : d \in days}
           R == D \ F
<1>1. D = 1..n /\ n \in Nat BY DEF Numbered
<1>2. \A d \in days : first[d] \in D /\ s[first[d]].at = d OBVIOUS
<1>3. IsFiniteSet(D) /\ Cardinality(D) = n
  <2>1. 1 \in Int /\ n \in Int /\ 1 <= n + 1 /\ n - 1 + 1 = n BY <1>1
  <2> HIDE DEF D, n
  <2>2. IsFiniteSet(1..n) /\ Cardinality(1..n) = n BY <2>1, CountBetween
  <2> QED BY <1>1, <2>2
<1>4. \A i \in D : \E j \in D : s[j].at = s[i].at /\ s[j].of # s[i].of OBVIOUS
<1> HIDE DEF D, first, days
<1>5. F \subseteq D BY <1>2
<1>6. \A d \in days : \E j \in R : s[j].at = d
  <2> SUFFICES ASSUME NEW d \in days PROVE \E j \in R : s[j].at = d OBVIOUS
  <2>1. PICK j \in D : s[j].at = d /\ s[j].of # s[first[d]].of BY <1>2, <1>4
  <2>2. j \notin F
    <3> SUFFICES ASSUME NEW e \in days, j = first[e] PROVE FALSE OBVIOUS
    <3>1. e = d BY <1>2, <2>1
    <3> QED BY <2>1, <3>1
  <2> QED BY <2>1, <2>2
<1> HIDE DEF n, R
<1>7. /\ IsFiniteSet(F) /\ IsFiniteSet(R) /\ F \cap R = {} /\ F \cup R = D
      /\ R \subseteq D
  <2>1. R = D \ F BY DEF R
  <2> HIDE DEF F
  <2>2. IsFiniteSet(F) /\ IsFiniteSet(R) BY <1>3, <1>5, <2>1, FS_Subset
  <2> QED BY <1>5, <2>1, <2>2
<1>8. /\ \A i \in D : s[i].at \in days
      /\ \A d \in days : \E i \in F : s[i].at = d
  BY <1>2 DEF days, D
<1> HIDE DEF F
<1>9. ASSUME NEW S, S \subseteq D, IsFiniteSet(S), \A d \in days : \E i \in S : s[i].at = d
      PROVE  IsFiniteSet(days) /\ Cardinality(days) <= Cardinality(S)
  <2> DEFINE f == [i \in S |-> s[i].at]
  <2>1. f \in [S -> days] /\ \A i \in S : f[i] = s[i].at BY <1>8, <1>9
  <2> HIDE DEF f
  <2>2. f \in Surjection(S, days) BY <1>9, <2>1 DEF Surjection
  <2> QED BY <1>9, <2>2, FS_Surjection
<1>10. IsFiniteSet(days) /\ Cardinality(days) <= Cardinality(F) BY <1>5, <1>7, <1>8, <1>9
<1>11. Cardinality(days) <= Cardinality(R) BY <1>6, <1>7, <1>9
<1>12. n = Cardinality(F) + Cardinality(R)
  <2>1. Cardinality(F \cup R) = Cardinality(F) + Cardinality(R) - Cardinality(F \cap R)
    BY <1>7, FS_Union
  <2>2. Cardinality(F \cap R) = 0 BY <1>7, FS_EmptySet
  <2>3. Cardinality(F) \in Nat /\ Cardinality(R) \in Nat BY <1>7, FS_CardinalityType
  <2> QED BY <1>3, <1>7, <2>1, <2>2, <2>3
<1>13. Cardinality(days) \in Nat /\ Cardinality(F) \in Nat /\ Cardinality(R) \in Nat
  BY <1>7, <1>10, FS_CardinalityType
<1> DEFINE c == Cardinality(days)
           x == Cardinality(F)
           y == Cardinality(R)
<1> HIDE DEF c, x, y
<1>14. c \in Nat /\ x \in Nat /\ y \in Nat /\ c <= x /\ c <= y /\ n = x + y
  BY <1>10, <1>11, <1>12, <1>13 DEF c, x, y
<1>15. 2 * c <= n BY <1>14
<1> QED BY <1>14, <1>15 DEF c, days, D, n

\* A payload and its sample.
LEMMA PayloadFacts ==
  ASSUME NEW p \in Payloads
  PROVE  /\ Numbered(p.rows) /\ DOMAIN p.rows = 1..Len(p.rows) /\ 1 <= Len(p.rows)
         /\ p.format \in Formats /\ p.named \in BOOLEAN
         /\ LET s == UpTo(p.rows, SampleRows)
            IN Numbered(s) /\ DOMAIN s = 1..Len(s) /\ 1 <= Len(s) /\ Len(s) <= Len(p.rows)
               /\ \A i \in 1..Len(s) : s[i] = p.rows[i]
<1>1. /\ p \in [format : Formats, named : BOOLEAN, rows : Seq(Measured)]
      /\ MinRows \in Nat \ {0} /\ SampleRows \in Nat \ {0} /\ MinRows <= Len(p.rows)
  BY SeriesAssumption
<1>2. p.rows \in Seq(Measured) /\ p.format \in Formats /\ p.named \in BOOLEAN BY <1>1
<1> DEFINE rows == p.rows
           s == UpTo(rows, SampleRows)
<1>3. rows \in Seq(Measured) /\ MinRows <= Len(rows) BY <1>1, <1>2
<1> HIDE DEF rows
<1>4. /\ Len(rows) \in Nat /\ rows \in [1..Len(rows) -> Measured] /\ DOMAIN rows = 1..Len(rows)
      /\ 1 <= Len(rows)
  BY <1>1, <1>3
<1>5. Numbered(rows) BY <1>4 DEF Numbered
<1>6. /\ Numbered(s) /\ DOMAIN s = 1..Len(s) /\ Len(s) <= Len(rows)
      /\ Len(s) = IF Len(rows) <= SampleRows THEN Len(rows) ELSE SampleRows
      /\ \A i \in 1..Len(s) : s[i] = rows[i]
  BY <1>1, <1>5, UpToIsPart
<1> HIDE DEF s
<1>7. 1 <= Len(s) BY <1>1, <1>4, <1>6
<1> QED BY <1>2, <1>4, <1>5, <1>6, <1>7 DEF rows, s

\* A sample that shows its entities is a panel's.
LEMMA EntitiesAreSeen ==
  ASSUME NEW p \in Payloads, p.format \in Examined, p.named,
         ShowsItsEntities(UpTo(p.rows, SampleRows))
  PROVE  IsPanel(p)
<1> DEFINE s == UpTo(p.rows, SampleRows)
           n == Len(s)
           days == {s[i].at : i \in DOMAIN s}
           kinds == {s[i].of : i \in DOMAIN s}
           c == Cardinality(days)
           g == Cardinality(kinds)
<1>1. Numbered(s) /\ DOMAIN s = 1..n /\ 1 <= n /\ n \in Nat BY PayloadFacts DEF Numbered
<1> HIDE DEF s
<1>2. /\ \A i \in DOMAIN s : \E j \in DOMAIN s : s[j].at = s[i].at /\ s[j].of # s[i].of
      /\ g = 2 \/ 3 * g <= n
  <2>1. kinds = {r.of : r \in ToSet(s)} BY DEF ToSet
  <2> QED BY <2>1 DEF ShowsItsEntities, s
<1>3. c \in Nat /\ 2 * c <= n BY <1>1, <1>2, DaysAreHalf
<1>4. IsFiniteSet(kinds) /\ g \in Nat
  <2> DEFINE f == [i \in 1..n |-> s[i].of]
  <2>1. 1 \in Int /\ n \in Int BY <1>1
  <2>2. IsFiniteSet(1..n) BY <2>1, FS_Interval
  <2>3. f \in Surjection(1..n, kinds) BY <1>1 DEF Surjection
  <2> HIDE DEF f, n, kinds
  <2>4. IsFiniteSet(kinds) BY <2>2, <2>3, FS_Surjection
  <2> QED BY <2>4, FS_CardinalityType DEF kinds
<1>5. 1 < g
  <2>1. 1 \in DOMAIN s BY <1>1
  <2>2. PICK j \in DOMAIN s : s[j].of # s[1].of BY <1>2, <2>1
  <2> DEFINE a == s[1].of
             b == s[j].of
  <2>3. a \in kinds /\ b \in kinds /\ a # b BY <2>1, <2>2
  <2> HIDE DEF a, b, kinds
  <2>4. {a, b} \subseteq kinds /\ IsFiniteSet(kinds) BY <1>4, <2>3
  <2>5. Cardinality({a, b}) <= Cardinality(kinds) BY <2>4, FS_Subset
  <2>6. Cardinality({a, b}) = 2
    <3>1. Cardinality({a}) = 1 /\ IsFiniteSet({a}) BY FS_Singleton
    <3>2. b \notin {a} /\ {a, b} = {a} \cup {b} BY <2>3
    <3>3. Cardinality({a} \cup {b}) = Cardinality({a}) + 1 BY <3>1, <3>2, FS_AddElement
    <3> QED BY <3>1, <3>2, <3>3
  <2>7. g = Cardinality(kinds) OBVIOUS
  <2> HIDE DEF g
  <2> QED BY <1>4, <2>5, <2>6, <2>7 DEF g
<1> DEFINE t == n \div 3
<1>6. t \in Int /\ (3 * g <= n => g <= t)
  <2> HIDE DEF n, g
  <2> QED BY <1>1, <1>4
<1> HIDE DEF t
<1>7. Max({2, t}) = IF 2 <= t THEN t ELSE 2 BY <1>6, MaxOfTwo
<1>8. g <= Max({2, t})
  <2> HIDE DEF n, g
  <2> QED BY <1>2, <1>4, <1>6, <1>7
<1>9. 10 * c < 9 * n
  <2> HIDE DEF n, c
  <2> QED BY <1>1, <1>3
<1> QED BY <1>5, <1>8, <1>9 DEF IsPanel, s, t

\* Rows of one entity are no panel.
LEMMA PanelIsOfMany ==
  ASSUME NEW p \in Payloads, IsPanel(p)
  PROVE  Cardinality({r.of : r \in ToSet(p.rows)}) > 1
<1> DEFINE s == UpTo(p.rows, SampleRows)
           kinds == {s[i].of : i \in DOMAIN s}
           all == {r.of : r \in ToSet(p.rows)}
<1>1. 1 < Cardinality(kinds) BY DEF IsPanel
<1>2. /\ DOMAIN s = 1..Len(s) /\ Len(s) <= Len(p.rows) /\ DOMAIN p.rows = 1..Len(p.rows)
      /\ Len(s) \in Nat /\ Len(p.rows) \in Nat /\ \A i \in 1..Len(s) : s[i] = p.rows[i]
  BY PayloadFacts DEF Numbered
<1> HIDE DEF s
<1> DEFINE rows == p.rows
           n == Len(rows)
           f == [i \in 1..n |-> rows[i].of]
<1>3. kinds \subseteq all
  <2>1. \A i \in DOMAIN s : i \in DOMAIN p.rows /\ s[i] = p.rows[i] BY <1>2
  <2> QED BY <2>1 DEF ToSet
<1>4. IsFiniteSet(all)
  <2>1. 1 \in Int /\ n \in Int BY <1>2
  <2>2. IsFiniteSet(1..n) BY <2>1, FS_Interval
  <2>3. f \in Surjection(1..n, all) BY <1>2 DEF Surjection, ToSet
  <2> HIDE DEF f, n, all
  <2> QED BY <2>2, <2>3, FS_Surjection
<1> HIDE DEF kinds, all
<1>5. /\ Cardinality(kinds) <= Cardinality(all) /\ Cardinality(kinds) \in Nat
      /\ Cardinality(all) \in Nat
  BY <1>3, <1>4, FS_Subset, FS_CardinalityType
<1>6. Cardinality(all) > 1 BY <1>1, <1>5
<1> QED BY <1>6 DEF all

\* What is not taken for a panel is put in the order of its days.
LEMMA SortedIsOneSeries ==
  ASSUME NEW p \in Payloads
  PROVE  LET t == SortedTable(p)
         IN /\ Numbered(t.rows) /\ t.panel = IsPanel(p) /\ (~t.panel => InOrder(t.rows))
            /\ DOMAIN t.rows = 1..Len(t.rows)
<1> DEFINE rows == p.rows
           n == Len(rows)
           days == [i \in DOMAIN rows |-> rows[i].at]
           o == Rising(days)
           sorted == [k \in 1..n |-> rows[o[k]]]
           t == SortedTable(p)
<1>1. rows \in [1..n -> Measured] /\ n \in Nat /\ DOMAIN rows = 1..n
  BY PayloadFacts DEF Numbered
<1>2. t.rows = (IF IsPanel(p) THEN rows ELSE sorted) /\ t.panel = IsPanel(p)
  BY DEF SortedTable
<1> HIDE DEF t, rows, n
<1>3. CASE IsPanel(p) BY <1>1, <1>2, <1>3, PayloadFacts DEF t, rows, n
<1>4. CASE ~IsPanel(p)
  <2>1. days \in [1..n -> Int] BY <1>1 DEF Measured
  <2>2. \A i \in 1..n : days[i] = rows[i].at BY <1>1
  <2> HIDE DEF days
  <2>3. /\ o \in [1..n -> 1..n]
        /\ \A k, m \in 1..n : k <= m => days[o[k]] <= days[o[m]]
    BY <1>1, <2>1, RisingLists
  <2> HIDE DEF o
  <2>4. /\ sorted \in [1..n -> Measured] /\ DOMAIN sorted = 1..n
        /\ \A k \in 1..n : sorted[k] = rows[o[k]] /\ o[k] \in 1..n
    BY <1>1, <2>3
  <2> HIDE DEF sorted
  <2>5. Len(sorted) = n BY <1>1, <2>4, NumberedIsSeq
  <2>6. \A k, m \in 1..n : k <= m => sorted[k].at <= sorted[m].at BY <2>2, <2>3, <2>4
  <2>7. Numbered(sorted) /\ InOrder(sorted) BY <1>1, <2>4, <2>5, <2>6 DEF Numbered, InOrder
  <2>8. t.rows = sorted /\ t.panel = IsPanel(p) BY <1>2, <1>4
  <2> QED BY <1>4, <2>4, <2>5, <2>7, <2>8 DEF t
<1> QED BY <1>3, <1>4

\* Part of a list.
LEMMA PartOfList ==
  ASSUME NEW S, NEW s \in Seq(S), NEW a \in 1..Len(s), NEW b \in 1..Len(s), a <= b + 1
  PROVE  /\ SubSeq(s, a, b) \in [1..(b - a + 1) -> S]
         /\ \A m \in 1..(b - a + 1) : SubSeq(s, a, b)[m] = s[a + m - 1]
<1>1. Len(s) \in Nat /\ a \in Nat /\ b \in Nat /\ 1 <= a /\ b <= Len(s) OBVIOUS
<1>2. \A m \in 1..(b - a + 1) : a + m - 1 \in 1..Len(s) BY <1>1
<1> DEFINE q == SubSeq(s, a, b)
           n == b - a + 1
<1>3. \A m \in 1..n : q[m] = s[a + m - 1] BY <1>1
<1>4. q \in Seq(S) /\ Len(q) = n BY <1>1, <1>2
<1> HIDE DEF q, n
<1>5. q \in [1..n -> S] BY <1>4
<1> QED BY <1>3, <1>5 DEF q, n

\* A row at the level of most of the window before it is at that window's median, and so
\* an outage exactly when it is below zero.
LEMMA LevelIsMedian ==
  ASSUME NEW n \in Nat, NEW s \in [1..n -> Int], NEW i \in 1..n, i > Trailing,
         \A j \in (i - Trailing \div 2 - 1)..(i - 1) : s[j] = s[i]
  PROVE  IsOutage(s, i) <=> s[i] < 0
<1> DEFINE T == Trailing
           half == T \div 2
           x == s[i]
           w == Preceding(s, i)
           M == (T - half)..T
<1>1. /\ T \in Nat /\ 1 <= T /\ i \in Int /\ T < i /\ i <= n /\ x \in Int
      /\ MinTrail \in Nat /\ MinTrail <= T
  BY SeriesAssumption
<1>2. /\ half \in Nat /\ T % 2 \in {0, 1} /\ T = 2 * half + (T % 2)
      /\ (T + 1) \div 2 = half + (T % 2) /\ half < T
  <2>1. T \in Nat /\ 1 <= T BY <1>1
  <2> HIDE DEF T
  <2>2. /\ half \in Nat /\ T % 2 \in {0, 1} /\ T = 2 * half + (T % 2)
        /\ (T + 1) \div 2 = half + (T % 2)
    BY <2>1, Halves
  <2> DEFINE r == T % 2
  <2>3. r \in {0, 1} /\ T = 2 * half + r BY <2>2
  <2> HIDE DEF half, r
  <2>4. half < T BY <2>1, <2>2, <2>3
  <2> QED BY <2>2, <2>4
<1>3. s \in Seq(Int) /\ Len(s) = n BY <1>1, NumberedIsSeq
<1> DEFINE a == i - T
<1>4. /\ Len(w) = T /\ w \in [1..T -> Int]
      /\ \A m \in 1..T : w[m] = s[a + m - 1]
  <2>1. 1 \in Int /\ a \in Int /\ 1 <= a BY <1>1
  <2>2. Max({1, a}) = a BY <2>1, MaxOfTwo
  <2>3. w = SubSeq(s, a, i - 1) BY <2>2 DEF Preceding
  <2>4. a \in 1..n /\ i - 1 \in 1..n /\ i - 1 - a + 1 = T BY <1>1
  <2> DEFINE b == i - 1
  <2>5. b \in 1..n /\ b - a + 1 = T BY <2>4
  <2> HIDE DEF a, b, T
  <2>6. /\ SubSeq(s, a, b) \in [1..(b - a + 1) -> Int]
        /\ \A m \in 1..(b - a + 1) : SubSeq(s, a, b)[m] = s[a + m - 1]
    <3>1. a \in 1..Len(s) /\ b \in 1..Len(s) /\ a <= b + 1 BY <1>1, <1>3, <2>4, <2>5 DEF T
    <3>2. s \in Seq(Int) BY <1>3, Zenon
    <3> QED BY <3>1, <3>2, PartOfList, SMTT(20)
  <2> HIDE DEF w
  <2>7. w \in [1..T -> Int] BY <2>3, <2>5, <2>6 DEF b
  <2>8. \A m \in 1..T : w[m] = s[a + m - 1] BY <2>3, <2>5, <2>6 DEF b
  <2>9. Len(w) = T BY <1>1, <2>7, NumberedIsSeq
  <2> QED BY <2>7, <2>8, <2>9
<1>5. M \in SUBSET (1..T) /\ \A m \in M : w[m] = x
  <2> HIDE DEF half, w
  <2>1. \A m \in M : m \in 1..T BY <1>1, <1>2
  <2>2. \A m \in M : a + m - 1 \in (i - half - 1)..(i - 1) BY <1>1, <1>2
  <2>3. \A m \in M : s[a + m - 1] = x BY <2>2 DEF half
  <2> QED BY <1>4, <2>1, <2>3
<1>6. Cardinality(M) = half + 1
  <2> DEFINE l == T - half
  <2>1. l \in Int /\ T \in Int /\ l <= T + 1 /\ T - l + 1 = half + 1
    <3> HIDE DEF half, T
    <3> QED BY <1>1, <1>2
  <2> HIDE DEF l, half, T
  <2>2. Cardinality(l..T) = T - l + 1 BY <2>1, CountBetween
  <2> QED BY <2>1, <2>2 DEF l
<1> HIDE DEF M, half, w, T, x
<1>7. ASSUME NEW k \in 1..T, k <= half + 1, T - k < half + 1
      PROVE  w[Rising(w)[k]] = x
  <2>1. k <= Cardinality(M) /\ T - k < Cardinality(M) BY <1>6, <1>7
  <2>2. T \in Nat /\ w \in [1..T -> Int] /\ x \in Int BY <1>1, <1>4
  <2> QED BY <1>5, <2>1, <2>2, MostIsMiddle
<1>8. TwiceMedian(w) = 2 * x
  <2> DEFINE r == T % 2
  <2>1. r \in {0, 1} /\ T = 2 * half + r /\ (T + 1) \div 2 = half + r BY <1>2
  <2>2. CASE r = 1
    <3> DEFINE k == half + 1
    <3>1. k \in 1..T /\ k <= half + 1 /\ T - k < half + 1
      <4> HIDE DEF r
      <4> QED BY <1>1, <1>2, <2>1, <2>2
    <3>2. w[Rising(w)[k]] = x
      <4> HIDE DEF k
      <4> QED BY <1>7, <3>1
    <3>3. (T + 1) \div 2 = k BY <2>1, <2>2
    <3>4. Len(w) % 2 = 1 /\ (Len(w) + 1) \div 2 = k BY <1>4, <2>2, <3>3
    <3> HIDE DEF k, r
    <3>5. TwiceMedian(w) = 2 * w[Rising(w)[k]] BY <3>4 DEF TwiceMedian
    <3> QED BY <3>2, <3>5
  <2>3. CASE r = 0
    <3>1. half \in 1..T /\ half + 1 \in 1..T /\ T - half < half + 1 /\ T - (half + 1) < half + 1
      <4> HIDE DEF r
      <4> QED BY <1>1, <1>2, <2>1, <2>3
    <3>2. half <= half + 1 /\ half + 1 <= half + 1 BY <1>2
    <3>3. w[Rising(w)[half]] = x BY <1>7, <3>1, <3>2
    <3>4. w[Rising(w)[half + 1]] = x
      <4> DEFINE k == half + 1
      <4>1. k \in 1..T /\ k <= half + 1 /\ T - k < half + 1 BY <3>1, <3>2
      <4> HIDE DEF k
      <4>2. w[Rising(w)[k]] = x BY <1>7, <4>1
      <4> QED BY <4>2 DEF k
    <3>5. Len(w) % 2 # 1 /\ Len(w) \div 2 = half BY <1>4, <2>3 DEF half
    <3> HIDE DEF r
    <3>6. TwiceMedian(w) = w[Rising(w)[half]] + w[Rising(w)[half + 1]] BY <3>5 DEF TwiceMedian
    <3> QED BY <1>1, <3>3, <3>4, <3>6
  <2> QED BY <2>1, <2>2, <2>3
<1>9. /\ 20 * x < 7 * (2 * x) <=> x < 0
      /\ x < 0 => 2 * x # 0
  BY <1>1
<1>10. IsOutage(s, i) <=> Len(w) >= MinTrail /\ TwiceMedian(w) # 0 /\ 20 * x < 7 * TwiceMedian(w)
  BY DEF IsOutage, w, x
<1>11. Len(w) >= MinTrail BY <1>1, <1>4
<1>12. IsOutage(s, i) <=> x < 0 BY <1>8, <1>9, <1>10, <1>11
<1> QED BY <1>12 DEF x

Good(rows) == {i \in DOMAIN rows : ~IsOutage([j \in DOMAIN rows |-> rows[j].value], i)}

\* The rows that are kept are those that are no outages, in their order.
LEMMA GoodRowsAreKept ==
  ASSUME NEW rows, Numbered(rows)
  PROVE  /\ \E c \in Nat : /\ DOMAIN DropOutages(rows) = 1..c /\ Len(DropOutages(rows)) = c
                           /\ DropOutages(rows) \in Seq(Measured)
         /\ \A k \in DOMAIN DropOutages(rows) :
              /\ Ascending(Good(rows))[k] \in Good(rows)
              /\ DropOutages(rows)[k] = rows[Ascending(Good(rows))[k]]
         /\ \A k, m \in DOMAIN DropOutages(rows) :
              k <= m => Ascending(Good(rows))[k] <= Ascending(Good(rows))[m]
         /\ \A i \in Good(rows) : rows[i] \in ToSet(DropOutages(rows))
<1> DEFINE G == Good(rows)
           c == Cardinality(G)
           good == Ascending(G)
           kept == DropOutages(rows)
           n == Len(rows)
<1>1. n \in Nat /\ DOMAIN rows = 1..n /\ rows \in [1..n -> Measured] BY DEF Numbered
<1>2. G \in SUBSET (1..n) BY <1>1 DEF Good
<1>3. IsFiniteSet(G) /\ G \in SUBSET Nat
  <2>1. 1 \in Int /\ n \in Int BY <1>1
  <2>2. IsFiniteSet(1..n) BY <2>1, FS_Interval
  <2>3. G \in SUBSET Nat BY <1>2
  <2> DEFINE I == 1..n
  <2>4. IsFiniteSet(I) /\ G \in SUBSET I BY <1>2, <2>2
  <2> HIDE DEF G, I
  <2> QED BY <2>3, <2>4, FS_Subset
<1> HIDE DEF n
<1>4. kept = [k \in DOMAIN good |-> rows[good[k]]] BY DEF DropOutages, Good
<1> HIDE DEF G, kept
<1>5. /\ c \in Nat /\ good \in [1..c -> G]
      /\ \A l, m \in 1..c : l <= m => good[l] <= good[m]
      /\ \A x \in G : \E m \in 1..c : good[m] = x
  BY <1>3, AscendingLists
<1> HIDE DEF good, c
<1>6. DOMAIN good = 1..c BY <1>5
<1>7. DOMAIN kept = 1..c /\ \A k \in 1..c : kept[k] = rows[good[k]] BY <1>4, <1>6
<1>8. \A k \in 1..c : good[k] \in G /\ good[k] \in 1..n BY <1>2, <1>5
<1>9. kept \in [1..c -> Measured]
  <2>1. \A k \in 1..c : rows[good[k]] \in Measured BY <1>1, <1>8
  <2> QED BY <1>4, <1>6, <2>1
<1>10. kept \in Seq(Measured) /\ Len(kept) = c BY <1>5, <1>9, NumberedIsSeq
<1>11. \A i \in G : rows[i] \in ToSet(kept)
  <2> SUFFICES ASSUME NEW i \in G PROVE rows[i] \in ToSet(kept) OBVIOUS
  <2>1. PICK m \in 1..c : good[m] = i BY <1>5
  <2>2. m \in DOMAIN kept /\ kept[m] = rows[i] BY <1>7, <2>1
  <2> QED BY <2>2 DEF ToSet
<1> QED BY <1>5, <1>7, <1>8, <1>10, <1>11 DEF G, kept, good

(***************************************************************************)
(* MeasuredSeries: the whole.                                              *)
(***************************************************************************)
ReducedOf(t) == IF t.panel THEN [kept |-> <<>>, panel |-> TRUE]
                ELSE [kept |-> DropOutages(t.rows), panel |-> FALSE]

\* The series was looked for on the page at hand; the table is the payload's; what is
\* reported is reduced from that table.
SeriesInv ==
  /\ web # <<>> => web \in Webs /\ found \in {"api", Discover(web)}
  /\ ms \in {"read", "reduced"} => payload \in Payloads /\ table = SortedTable(payload)
  /\ reduced = IF ms = "reduced" THEN ReducedOf(table) ELSE Unreduced

\* SeriesInv is inductive.
LEMMA SeriesStep == SeriesInv /\ [SeriesNext]_seriesVars => SeriesInv'
<1> SUFFICES ASSUME SeriesInv, [SeriesNext]_seriesVars PROVE SeriesInv' OBVIOUS
<1>1. CASE SeekSeries
  <2>1. /\ ms = "start" /\ ms' \in {"none", "found"} /\ UNCHANGED <<payload, table, reduced>>
        /\ web' \in Webs /\ found' \in {"api", Discover(web')}
    BY <1>1 DEF SeekSeries
  <2> QED BY <2>1 DEF SeriesInv
<1>2. CASE HandOn BY <1>2 DEF HandOn, SeriesInv
<1>3. CASE ReadTable
  <2>1. /\ payload' \in Payloads /\ table' = SortedTable(payload')
        /\ ms = "payload" /\ ms' = "read" /\ UNCHANGED <<web, found, reduced>>
    BY <1>3 DEF ReadTable
  <2> QED BY <2>1 DEF SeriesInv
<1>4. CASE ReduceSeries
  <2>1. /\ ms = "read" /\ ms' = "reduced" /\ UNCHANGED <<web, found, payload, table>>
        /\ reduced' = Reduced
    BY <1>4 DEF ReduceSeries
  <2>2. Reduced = ReducedOf(table) BY DEF Reduced, ReducedOf
  <2> QED BY <2>1, <2>2 DEF SeriesInv
<1>5. CASE UNCHANGED seriesVars BY <1>5 DEF seriesVars, SeriesInv
<1> QED BY <1>1, <1>2, <1>3, <1>4, <1>5 DEF SeriesNext

\* A row of a level that has settled is kept when it is not below zero, and no outage
\* otherwise stands for it.
LEMMA SettledRows ==
  ASSUME Numbered(table.rows), DOMAIN table.rows = 1..Len(table.rows),
         NEW i \in DOMAIN table.rows, Settled(i)
  PROVE  i \in Good(table.rows) <=> table.rows[i].value >= 0
<1> DEFINE rows == table.rows
           n == Len(rows)
           s == [j \in DOMAIN rows |-> rows[j].value]
           h == Trailing \div 2
<1>1. rows \in [1..n -> Measured] /\ n \in Nat /\ DOMAIN rows = 1..n BY DEF Numbered
<1>2. /\ i > Trailing
      /\ \A j \in (i - h - 1)..(i - 1) : rows[j].value = rows[i].value
  BY DEF Settled
<1>3. i \in 1..n BY <1>1
<1>4. Good(rows) = {j \in DOMAIN rows : ~IsOutage(s, j)} BY DEF Good
<1> HIDE DEF rows, n
<1>5. s \in [1..n -> Int] /\ \A j \in 1..n : s[j] = rows[j].value BY <1>1 DEF Measured
<1> HIDE DEF s
<1>6. \A j \in (i - h - 1)..(i - 1) : j \in 1..n
  <2>1. Trailing \in Nat /\ 1 <= Trailing BY SeriesAssumption
  <2>2. h \in Nat /\ 2 * h <= Trailing BY <2>1
  <2> HIDE DEF h
  <2> QED BY <1>1, <1>2, <1>3, <2>1, <2>2
<1>7. \A j \in (i - h - 1)..(i - 1) : s[j] = s[i] BY <1>2, <1>3, <1>5, <1>6
<1>8. IsOutage(s, i) <=> s[i] < 0 BY <1>1, <1>2, <1>3, <1>5, <1>7, LevelIsMedian
<1>9. s[i] \in Int /\ s[i] = rows[i].value BY <1>3, <1>5
<1>10. i \in Good(rows) <=> rows[i].value >= 0 BY <1>1, <1>3, <1>4, <1>8, <1>9
<1> QED BY <1>10 DEF rows

\* What is reported comes from a table of one entity where that shows, up to its newest
\* row that is no outage.
LEMMA ReportedIsNewest ==
  ASSUME SeriesInv
  PROVE  LatestIsNewest /\ EntitiesAreNotMixed /\ ShiftIsAccepted /\ BelowZeroIsLost
<1>1. EntitiesAreNotMixed
  <2> SUFFICES ASSUME ms = "reduced"
               PROVE  /\ /\ payload.format \in Examined /\ payload.named
                         /\ ShowsItsEntities(UpTo(payload.rows, SampleRows))
                         => reduced.panel /\ reduced.kept = <<>>
                      /\ reduced.panel => Cardinality({r.of : r \in ToSet(payload.rows)}) > 1
    BY DEF EntitiesAreNotMixed
  <2>1. payload \in Payloads /\ table = SortedTable(payload) /\ reduced = ReducedOf(table)
    BY DEF SeriesInv
  <2>2. table.panel = IsPanel(payload) BY <2>1, SortedIsOneSeries
  <2>3. /\ table.panel => reduced.panel /\ reduced.kept = <<>>
        /\ ~table.panel => ~reduced.panel
    BY <2>1 DEF ReducedOf
  <2> QED BY <2>1, <2>2, <2>3, EntitiesAreSeen, PanelIsOfMany
<1>2. CASE ms # "reduced" \/ table.panel
  <2>1. reduced.kept = <<>> /\ (ms = "reduced" => reduced.panel)
    BY <1>2 DEF SeriesInv, Unreduced, ReducedOf
  <2> QED BY <1>1, <2>1 DEF LatestIsNewest, ShiftIsAccepted, BelowZeroIsLost
<1>3. CASE ms = "reduced" /\ ~table.panel
  <2> DEFINE rows == table.rows
             kept == DropOutages(rows)
             good == Ascending(Good(rows))
  <2>1. reduced.kept = kept /\ ~reduced.panel BY <1>3 DEF SeriesInv, ReducedOf
  <2>2. Numbered(rows) /\ InOrder(rows) /\ DOMAIN rows = 1..Len(rows)
    BY <1>3, SortedIsOneSeries DEF SeriesInv
  <2>3. \A k \in DOMAIN kept : /\ good[k] \in Good(rows) /\ good[k] \in DOMAIN rows
                               /\ kept[k] = rows[good[k]]
    <3>1. Good(rows) \subseteq DOMAIN rows BY DEF Good
    <3> QED BY <2>2, <3>1, GoodRowsAreKept
  <2>4. LatestIsNewest
    <3> SUFFICES ASSUME kept # <<>>, NEW i \in DOMAIN kept PROVE kept[i].at <= Last(kept).at
      BY <2>1 DEF LatestIsNewest
    <3>1. PICK c \in Nat : DOMAIN kept = 1..c /\ Len(kept) = c BY <2>2, GoodRowsAreKept
    <3>2. \A k, m \in DOMAIN kept : k <= m => good[k] <= good[m] BY <2>2, GoodRowsAreKept
    <3> HIDE DEF kept, good, rows
    <3>3. i \in 1..c /\ c \in DOMAIN kept /\ i <= c BY <3>1
    <3>4. Last(kept) = kept[c] BY <3>1 DEF Last
    <3>5. rows[good[i]].at <= rows[good[c]].at BY <2>2, <2>3, <3>2, <3>3 DEF InOrder
    <3> QED BY <2>3, <3>3, <3>4, <3>5
  <2>5. \A i \in DOMAIN rows : Settled(i) => (i \in Good(rows) <=> rows[i].value >= 0)
    BY <2>2, SettledRows
  <2>6. ShiftIsAccepted
    <3>1. \A i \in Good(rows) : rows[i] \in ToSet(kept) BY <2>2, GoodRowsAreKept
    <3> HIDE DEF kept
    <3> QED BY <2>1, <2>5, <3>1 DEF ShiftIsAccepted
  <2>7. BelowZeroIsLost
    <3> SUFFICES ASSUME NEW i \in DOMAIN rows, Settled(i), rows[i].value < 0,
                        \A j \in (DOMAIN rows) \ {i} : rows[j].at # rows[i].at,
                        rows[i] \in ToSet(kept)
                 PROVE  FALSE
      BY <2>1 DEF BelowZeroIsLost
    <3>1. PICK k \in DOMAIN kept : kept[k] = rows[i] BY DEF ToSet
    <3>2. good[k] \in Good(rows) /\ good[k] \in DOMAIN rows /\ rows[good[k]] = rows[i]
      BY <2>3, <3>1
    <3>3. good[k] = i BY <3>2
    <3>4. rows[i].value >= 0 BY <2>5, <3>2, <3>3
    <3>5. rows[i].value \in Int BY <2>2 DEF Numbered, Measured
    <3> QED BY <3>4, <3>5
  <2> QED BY <1>1, <2>4, <2>6, <2>7
<1> QED BY <1>2, <1>3

\* What discovery and reduction may not get wrong (discover_series, _drop_outages and
\* the panel test): for all pages, payloads, samples and windows, a series in reach is
\* found and nothing else is taken for one; rows of several entities are not reduced where
\* an examined sample shows them; what is reported ends with the newest row that is no
\* outage; and a level that has settled counts exactly when it is not below zero.
THEOREM SeriesAlwaysFaithful == SeriesSpec => []SeriesIsFaithful
<1>1. SeriesInit => SeriesInv BY DEF SeriesInit, SeriesInv
<1>2. SeriesInv /\ [SeriesNext]_seriesVars => SeriesInv' BY SeriesStep
<1>3. SeriesInv => SeriesIsFaithful
  <2> SUFFICES ASSUME SeriesInv PROVE SeriesIsFaithful OBVIOUS
  <2>1. SeriesInReachIsFound
    <3>1. web # <<>> /\ found # "api" => web \in Webs /\ found = Discover(web) BY DEF SeriesInv
    <3> QED BY <3>1, SeriesIsFound DEF SeriesInReachIsFound
  <2> QED BY <2>1, ReportedIsNewest DEF SeriesIsFaithful
<1> QED BY <1>1, <1>2, <1>3, PTL DEF SeriesSpec

=============================================================================
