----------------------------- MODULE Selections -----------------------------
(***************************************************************************)
(* What is kept when there is more than fits: the retry's queries pooled   *)
(* from several models' plans, the queries of one plan, and the sections   *)
(* shown to the artifact check.                                            *)
(***************************************************************************)
EXTENDS Integers, SequencesExt, Functions, Listings

CONSTANTS Queries,     \* what may be searched for
          Alike,       \* same_query: pairs that are near-duplicates, not transitive
          PlanSets,    \* the models' plans: sequences of sequences of queries
          SearchedSets,        \* searches already run: sets of queries
          MaxItems,    \* bound on the queries of one plan
          PoolCap,     \* _MAX_POOLED_RETRY_QUERIES, and max_queries
          PoolTop,     \* _POOL_TOP_PER_PLAN
          Sections,    \* what the check may be shown: sequences of [weight, len]
          Room,        \* what is left of its budget for text
          MinSection   \* _MIN_ARTIFACT_CHECK_SECTION_CHARS

\* A section shown to the check has a weight and some text.
ASSUME SelectionsAssumption ==
  /\ PlanSets \subseteq Seq(Seq(Queries))
  /\ \A s \in Sections : s \in Seq([weight : Nat \ {0}, len : Nat \ {0}])
  /\ PoolCap \in Nat /\ PoolTop \in Nat \ {0} /\ MaxItems \in Nat /\ Room \in Nat /\ MinSection \in Nat

VARIABLES
  task,   \* start; pool, plan, fit; pooled, capped, fitted
  given,  \* the input
  kept    \* the output

selVars == <<task, given, kept>>
SelectionsInit == task = "start" /\ given = <<>> /\ kept = <<>>

Same(a, b) == a = b \/ {a, b} \in Alike

(***************************************************************************)
(* pool_retry_queries: every plan's first query, then every plan's second. *)
(***************************************************************************)
Ranks == FlattenSeq([r \in 1..PoolTop |-> [p \in DOMAIN given.plans |-> <<p, r>>]])
RanksByPlan == FlattenSeq([p \in DOMAIN given.plans |-> [r \in 1..PoolTop |-> <<p, r>>]])

\* The pool so far, and the query of plan place[1] at rank place[2].
Pooled(so, place) ==
  LET plan == given.plans[place[1]] r == place[2] IN
  IF \/ r > Len(plan) \/ Len(so) >= PoolCap
     \/ \E q \in ToSet(so) \cup given.run : Same(plan[r], q)
  THEN so ELSE Append(so, plan[r])

PoolFrom(order) ==
  LET k[n \in 0..Len(order)] == IF n = 0 THEN <<>> ELSE Pooled(k[n - 1], order[n])
  IN k[Len(order)]

\* As if one plan were exhausted before the next.
PoolByPlan == PoolFrom(RanksByPlan)

PooledQueries == PoolFrom(Ranks)

(***************************************************************************)
(* _dedupe_and_cap_queries: by priority, the same text once.               *)
(***************************************************************************)
CapInOrder(items) == SubSeq(items, 1, IF Len(items) < PoolCap THEN Len(items) ELSE PoolCap)

\* A stable sort: what is as urgent keeps its order.
ByPriority(items) ==
  LET order == Rising([i \in DOMAIN items |-> items[i].priority])
  IN [k \in 1..Len(items) |-> items[order[k]]]

\* As if the list were cut before it is sorted.
DedupeAfterCut == ByPriority(CapInOrder(given.items))

Firsts(items) == {i \in DOMAIN items : \A j \in 1..(i - 1) : items[j].query # items[i].query}

Dedupe ==
  LET items == ByPriority(given.items)
      first == Ascending(Firsts(items))
  IN CapInOrder([k \in 1..Cardinality(Firsts(items)) |-> items[first[k]]])

(***************************************************************************)
(* fit_artifact_check_sections: weighted water-filling.  A section that    *)
(* fits in its share is settled, and what it leaves is shared again.       *)
(***************************************************************************)
Demand(is) == SumFunction([i \in is |-> given.sections[i].weight * given.sections[i].len])

FairShare(i, is, left) ==
  LET s == given.sections[i] fair == (left * (s.weight * s.len)) \div Demand(is)
  IN IF fair > MinSection THEN fair ELSE MinSection

Fitting(is, left) == {i \in is : given.sections[i].len <= FairShare(i, is, left)}
LenOf(is) == SumFunction([i \in is |-> given.sections[i].len])

Pass(b) ==
  LET fits == Fitting(b.open, b.left)
  IN [open |-> b.open \ fits, left |-> b.left - LenOf(fits)]

\* As if what a settled section leaves were not shared again.
FitOnce ==
  LET all == DOMAIN given.sections
  IN [i \in all |-> IF i \in Fitting(all, Room) THEN given.sections[i].len ELSE FairShare(i, all, Room)]

Fit ==
  LET all == DOMAIN given.sections
      pass[n \in 0..Len(given.sections)] ==
        IF n = 0 THEN [open |-> all, left |-> Room] ELSE LET b == pass[n - 1] IN Pass(b)
      end == pass[Len(given.sections)]
  IN [i \in all |-> IF LenOf(all) <= Room \/ i \notin end.open THEN given.sections[i].len
                    ELSE FairShare(i, end.open, end.left)]

Choose ==
  /\ task = "start" /\ UNCHANGED kept
  /\ \/ task' = "pool" /\ \E p \in PlanSets, r \in SearchedSets : given' = [plans |-> p, run |-> r]
     \/ task' = "plan" /\ \E n \in 1..MaxItems :
          \E q \in [1..n -> [query : Queries, priority : 1..3]] : given' = [items |-> q]
     \/ task' = "fit" /\ \E s \in Sections : given' = [sections |-> s]

PoolRetryQueries == task = "pool" /\ kept' = PooledQueries /\ task' = "pooled" /\ UNCHANGED given
CapQueries == task = "plan" /\ kept' = Dedupe /\ task' = "capped" /\ UNCHANGED given
FitSections == task = "fit" /\ kept' = Fit /\ task' = "fitted" /\ UNCHANGED given

SelectionsNext == Choose \/ PoolRetryQueries \/ CapQueries \/ FitSections
SelectionsSpec == SelectionsInit /\ [][SelectionsNext]_selVars

(***************************************************************************)
(* Properties.                                                             *)
(***************************************************************************)
\* "No plan's top two are dropped for agreement or order before the cap": a query
\* left out repeats one that is searched for anyway; at the cap the firsts go before
\* the seconds; and no two kept queries are near-duplicates.
PoolIsFair ==
  task = "pooled" =>
    LET searched == ToSet(kept) \cup given.run
        covered(q) == \E o \in searched : Same(q, o)
    IN /\ \A i, j \in DOMAIN kept : i # j => ~Same(kept[i], kept[j])
       /\ Len(kept) < PoolCap => \A p \in ToSet(given.plans) : \A r \in DOMAIN p :
                                   r <= PoolTop => covered(p[r])
       /\ (\E q \in ToSet(kept) : \A p \in ToSet(given.plans) : p # <<>> => p[1] # q) =>
            \A p \in ToSet(given.plans) : p # <<>> => covered(p[1])

\* A query is only left out of a plan for being there already or for one at least as
\* urgent.
UrgentGoFirst ==
  task = "capped" =>
    \A i \in ToSet(given.items) :
      \/ \E k \in ToSet(kept) : k.query = i.query /\ k.priority <= i.priority
      \/ Len(kept) = PoolCap /\ \A k \in ToSet(kept) : k.priority <= i.priority

\* No section is cut while there is room for more than rounding lost, and the floor
\* overshoots by no more than a floor per section.
NoRoomIsWasted ==
  task = "fitted" =>
    LET sum == SumFunction(kept)
        cutOff == {i \in DOMAIN kept : kept[i] < given.sections[i].len}
    IN /\ cutOff # {} => sum > Room - Len(given.sections)
       /\ sum <= Room + MinSection * Len(given.sections)

\* What a cap leaves out gave way to something that came first by the rule.
CapsAreFair == PoolIsFair /\ UrgentGoFirst /\ NoRoomIsWasted
=============================================================================
