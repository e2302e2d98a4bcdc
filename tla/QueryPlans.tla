----------------------------- MODULE QueryPlans -----------------------------
(***************************************************************************)
(* generate_google_search_query_plan: one plan per prompt, made by a task  *)
(* that all who ask for it wait for behind a shield.                       *)
(***************************************************************************)
EXTENDS Naturals, Sequences, FiniteSets

CONSTANTS Callers,    \* the searches that ask
          Prompts,    \* what they ask with
          MaxPlans,   \* bound on the plans made
          MaxCached   \* _MAX_QUERY_PLAN_CACHE_ENTRIES

ASSUME PlansAssumption == IsFiniteSet(Prompts) /\ MaxCached \in Nat

VARIABLES
  plans,   \* the tasks made, oldest first: [prompt, st]; st running, plan or limit
  cache,   \* prompt -> task, 0 for none
  caller   \* caller -> [st, prompt, task]; st idle, waits, plan, limit, cancelled

planVars == <<plans, cache, caller>>
Idle == [st |-> "idle", task |-> 0]
PlansInit == plans = <<>> /\ cache = [p \in Prompts |-> 0] /\ caller = [c \in Callers |-> Idle]

Cached == {p \in Prompts : cache[p] # 0}

\* A cache that is full is emptied, running plans and all.
Store(p, t) ==
  cache' = [q \in Prompts |-> IF q = p THEN t
                              ELSE IF Cardinality(Cached) >= MaxCached THEN 0 ELSE cache[q]]

\* As if a plan were looked up once it is made.
AskAfresh(c) ==
  \E p \in Prompts :
    /\ caller[c].st = "idle" /\ Len(plans) < MaxPlans
    /\ plans' = Append(plans, [prompt |-> p, st |-> "running"])
    /\ Store(p, Len(plans'))
    /\ caller' = [caller EXCEPT ![c] = [st |-> "waits", task |-> cache'[p]]]

Ask(c) ==
  \E p \in Prompts :
    /\ caller[c].st = "idle"
    /\ IF cache[p] # 0 THEN UNCHANGED <<plans, cache>>
       ELSE /\ Len(plans) < MaxPlans
            /\ plans' = Append(plans, [prompt |-> p, st |-> "running"])
            /\ Store(p, Len(plans'))
    /\ caller' = [caller EXCEPT ![c] = [st |-> "waits", task |-> cache'[p]]]

\* The model's plan or, whatever fails, the fallback; the hard limit is raised.
PlanEnds(t) ==
  /\ plans[t].st = "running"
  /\ \E st \in {"plan", "limit"} : plans' = [plans EXCEPT ![t].st = st]
  /\ UNCHANGED <<cache, caller>>

\* As if only a running plan were shared.
ReceiveKept(c) ==
  LET t == caller[c].task IN
  /\ caller[c].st = "waits" /\ plans[t].st # "running"
  /\ caller' = [caller EXCEPT ![c].st = plans[t].st]
  /\ UNCHANGED <<plans, cache>>

\* Whoever waits for a plan that failed takes it out of the cache, if it is still there.
Receive(c) ==
  LET t == caller[c].task IN
  /\ caller[c].st = "waits" /\ plans[t].st # "running"
  /\ caller' = [caller EXCEPT ![c].st = plans[t].st]
  /\ cache' = [p \in Prompts |-> IF plans[t].st = "limit" /\ cache[p] = t THEN 0 ELSE cache[p]]
  /\ UNCHANGED plans

\* The shield: the plan goes on without its caller.
CancelCaller(c) ==
  /\ caller[c].st = "waits" /\ caller' = [caller EXCEPT ![c].st = "cancelled"]
  /\ UNCHANGED <<plans, cache>>

\* The next search of this caller.
Again(c) ==
  /\ caller[c].st \in {"plan", "limit", "cancelled"}
  /\ caller' = [caller EXCEPT ![c] = Idle] /\ UNCHANGED <<plans, cache>>

PlansNext == \/ \E c \in Callers : Ask(c) \/ Receive(c) \/ CancelCaller(c) \/ Again(c)
             \/ \E t \in DOMAIN plans : PlanEnds(t)
PlansSpec == PlansInit /\ [][PlansNext]_planVars

(***************************************************************************)
(* Properties.                                                             *)
(***************************************************************************)
\* While the cache is not emptied a prompt is planned again only if its last plan failed.
PlannedOnce ==
  Cardinality(Prompts) <= MaxCached =>
    \A t, u \in DOMAIN plans :
      t < u /\ plans[t].prompt = plans[u].prompt => plans[t].st = "limit"

\* A failed plan is only found in the cache while someone who waits for it is still to
\* take it out, or after all who waited were cancelled.
FailureIsNotKept ==
  \A p \in Cached : plans[cache[p]].st = "limit" =>
    \A c \in Callers : caller[c].task = cache[p] => caller[c].st # "limit"

\* The plan of a prompt is shared, and its failure is not.
PlansAreShared == PlannedOnce /\ FailureIsNotKept
=============================================================================
