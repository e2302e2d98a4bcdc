---------------------------- MODULE SharedProofs ----------------------------
(***************************************************************************)
(* Proofs about what the questions of a run share: the Firecrawl budget,   *)
(* the rate gates, the cost ledger and the fetches of pages.               *)
(***************************************************************************)
EXTENDS FirecrawlBudget, RateGate, CostLedger, FetchLadder, DataLemmas

(***************************************************************************)
(* FirecrawlBudget, for every set of scrapes, cap, reserve,                *)
(* price and number of attempts.                                           *)
(*                                                                         *)
(* A step adds one scrape to those that are charged, takes one away, or    *)
(* leaves them as they are; BooksBalance and FirstClaim follow from how    *)
(* the counts of the code move with that set.  OverrunBounded is inductive *)
(* once every scrape in flight is allowed its own overage.                 *)
(***************************************************************************)

Overage == MaxCost - 1

\* What may still be topped up: one overage per scrape in flight.
OverrunToCome ==
    /\ Cardinality(InFlight) <= Slots
    /\ spent + Cardinality(InFlight) * Overage <= Cap + Slots * Overage

-----------------------------------------------------------------------------
(* Sets that gain or lose one element.                                     *)

\* What one more element adds to the counts.
LEMMA OneMore ==
    ASSUME NEW S, IsFiniteSet(S), NEW s, s \notin S
    PROVE  /\ Cardinality(S \cup {s}) = Cardinality(S) + 1
           /\ Cardinality((S \cup {s}) \cap Resolution) =
                Cardinality(S \cap Resolution) + (IF s \in Resolution THEN 1 ELSE 0)
           /\ Cardinality((S \cup {s}) \ Resolution) =
                Cardinality(S \ Resolution) + (IF s \in Resolution THEN 0 ELSE 1)
<1>1. Cardinality(S \cup {s}) = Cardinality(S) + 1
  BY FS_AddElement
<1>2. /\ IsFiniteSet(S \cap Resolution) /\ IsFiniteSet(S \ Resolution)
      /\ Cardinality(S \cap Resolution) \in Nat /\ Cardinality(S \ Resolution) \in Nat
  BY FS_Subset, FS_CardinalityType
<1>3. CASE s \in Resolution
  <2>1. (S \cup {s}) \cap Resolution = (S \cap Resolution) \cup {s} /\ (S \cup {s}) \ Resolution = S \ Resolution
    BY <1>3
  <2>2. Cardinality((S \cap Resolution) \cup {s}) = Cardinality(S \cap Resolution) + 1
    BY <1>2, <1>3, FS_AddElement
  <2> QED BY <1>1, <1>2, <1>3, <2>1, <2>2
<1>4. CASE s \notin Resolution
  <2>1. (S \cup {s}) \cap Resolution = S \cap Resolution /\ (S \cup {s}) \ Resolution = (S \ Resolution) \cup {s}
    BY <1>4
  <2>2. Cardinality((S \ Resolution) \cup {s}) = Cardinality(S \ Resolution) + 1
    BY <1>2, <1>4, FS_AddElement
  <2> QED BY <1>1, <1>2, <1>4, <2>1, <2>2
<1> QED BY <1>3, <1>4

\* What one element less takes from them.
LEMMA OneLess ==
    ASSUME NEW S, IsFiniteSet(S), NEW s, s \in S
    PROVE  /\ Cardinality(S \ {s}) = Cardinality(S) - 1
           /\ Cardinality((S \ {s}) \cap Resolution) =
                Cardinality(S \cap Resolution) - (IF s \in Resolution THEN 1 ELSE 0)
           /\ Cardinality((S \ {s}) \ Resolution) =
                Cardinality(S \ Resolution) - (IF s \in Resolution THEN 0 ELSE 1)
<1>1. ASSUME NEW T, IsFiniteSet(T), s \in T
      PROVE  Cardinality(T \ {s}) = Cardinality(T) - 1
  BY <1>1, FS_RemoveElement
<1>0. Cardinality(S \ {s}) = Cardinality(S) - 1
  BY FS_RemoveElement
<1>2. /\ IsFiniteSet(S \cap Resolution) /\ IsFiniteSet(S \ Resolution)
      /\ Cardinality(S \cap Resolution) \in Nat /\ Cardinality(S \ Resolution) \in Nat
  BY FS_Subset, FS_CardinalityType
<1>3. CASE s \in Resolution
  <2>1. (S \ {s}) \cap Resolution = (S \cap Resolution) \ {s}
      /\ (S \ {s}) \ Resolution = S \ Resolution
      /\ s \in S \cap Resolution
    BY <1>3
  <2>2. Cardinality((S \ {s}) \cap Resolution) = Cardinality(S \cap Resolution) - 1
    <3> DEFINE T == S \cap Resolution
    <3>1. IsFiniteSet(T) /\ s \in T /\ (S \ {s}) \cap Resolution = T \ {s}
      BY <1>2, <2>1
    <3> HIDE DEF T
    <3>2. Cardinality(T \ {s}) = Cardinality(T) - 1
      BY <1>1, <3>1
    <3> QED BY <3>1, <3>2 DEF T
  <2>3. Cardinality((S \ {s}) \ Resolution) = Cardinality(S \ Resolution)
    BY <2>1, Zenon
  <2> QED BY <1>0, <1>2, <1>3, <2>2, <2>3
<1>4. CASE s \notin Resolution
  <2>1. (S \ {s}) \cap Resolution = S \cap Resolution /\ (S \ {s}) \ Resolution = (S \ Resolution) \ {s}
      /\ s \in S \ Resolution
    BY <1>4
  <2>2. Cardinality((S \ {s}) \ Resolution) = Cardinality(S \ Resolution) - 1
    <3> DEFINE T == S \ Resolution
    <3>1. IsFiniteSet(T) /\ s \in T /\ (S \ {s}) \ Resolution = T \ {s}
      BY <1>2, <2>1
    <3> HIDE DEF T
    <3>2. Cardinality(T \ {s}) = Cardinality(T) - 1
      BY <1>1, <3>1
    <3> QED BY <3>1, <3>2 DEF T
  <2>3. Cardinality((S \ {s}) \cap Resolution) = Cardinality(S \cap Resolution)
    BY <2>1, Zenon
  <2> QED BY <1>0, <1>2, <1>4, <2>2, <2>3
<1> QED BY <1>3, <1>4

\* The counts of finite sets are numbers, and a part has no more than the whole.
LEMMA Counts ==
    ASSUME NEW S, IsFiniteSet(S), NEW R
    PROVE  /\ Cardinality(S) \in Nat
           /\ Cardinality(S \cap R) \in Nat /\ Cardinality(S \ R) \in Nat
           /\ Cardinality(S \ R) <= Cardinality(S)
           /\ Cardinality(S \cap R) <= Cardinality(S)
<1>1. IsFiniteSet(S \cap R) /\ IsFiniteSet(S \ R)
  BY FS_Subset
<1>2. Cardinality(S \ R) <= Cardinality(S) /\ Cardinality(S \cap R) <= Cardinality(S)
  BY FS_Subset
<1> QED BY <1>1, <1>2, FS_CardinalityType

-----------------------------------------------------------------------------
(* Types.                                                                  *)

\* An initial state has every type.
LEMMA InitType == Init => TypeOK
<1>1. 1 \in 1..MaxAttempts /\ 0 \in 0..MaxCost
  BY CreditsAssumption DEF CreditsAssumption
<1>2. Init => released \in BOOLEAN /\ exhausted \in BOOLEAN
  BY Zenon DEF Init
<1>3. Init => bill \in [Scrapes -> 0..MaxCost]
  BY <1>1 DEF Init
<1>4. Init => attempt \in 1..MaxAttempts /\ searching \subseteq 1..MaxAttempts
  BY <1>1 DEF Init
<1> QED BY <1>2, <1>3, <1>4 DEF Init, TypeOK

\* No step changes a type.
LEMMA StepType == TypeOK /\ [Next]_vars => TypeOK'
<1> SUFFICES ASSUME TypeOK, [Next]_vars PROVE TypeOK'
  OBVIOUS
<1> USE CreditsAssumption DEF CreditsAssumption
<1>1. ASSUME NEW s \in Scrapes, Charge(s) PROVE TypeOK'
  BY <1>1 DEF TypeOK, Charge, Priority, MoveTo, question, firecrawl, books
<1>2. ASSUME NEW s \in Scrapes, Skip(s) PROVE TypeOK'
  BY <1>2 DEF TypeOK, Skip, MoveTo, question, firecrawl, books
<1>3. ASSUME NEW s \in Scrapes, RateLimited(s) PROVE TypeOK'
  BY <1>3 DEF TypeOK, RateLimited, MoveTo, question, books
<1>4. ASSUME NEW s \in Scrapes, Resend(s) PROVE TypeOK'
  BY <1>4 DEF TypeOK, Resend, MoveTo, question, books
<1>5. ASSUME NEW s \in Scrapes, Rejected(s) PROVE TypeOK'
  <2>1. spent' \in Nat /\ prioritySpent' \in Nat
    BY <1>5 DEF TypeOK, Rejected, Refund, Priority, AtLeastZero
  <2>2. exhausted' \in BOOLEAN /\ released' \in BOOLEAN
    BY <1>5, Zenon DEF TypeOK, Rejected
  <2> QED BY <1>5, <2>1, <2>2 DEF TypeOK, Rejected, MoveTo, question
<1>6. ASSUME NEW s \in Scrapes, NoAnswer(s) PROVE TypeOK'
  BY <1>6 DEF TypeOK, NoAnswer, Refund, Priority, AtLeastZero, MoveTo, question, firecrawl
<1>7. ASSUME NEW s \in Scrapes, Scraped(s) PROVE TypeOK'
  BY <1>7 DEF TypeOK, Scraped, ExtraCredits, MoveTo, question, firecrawl
<1>8. ASSUME NEW s \in Scrapes, Unusable(s) PROVE TypeOK'
  BY <1>8 DEF TypeOK, Unusable, MoveTo, question, firecrawl, books
<1>9. ASSUME NEW s \in Scrapes, Cancel(s) PROVE TypeOK'
  BY <1>9 DEF TypeOK, Cancel, MoveTo, question, firecrawl, books
<1>10. ASSUME NEW s \in Scrapes, NEW cost \in 1..MaxCost, Run(s, cost) PROVE TypeOK'
  BY <1>10 DEF TypeOK, Run, question, books
<1>11. ASSUME NEW a \in 1..MaxAttempts, ReleaseReserve(a) PROVE TypeOK'
  BY <1>11 DEF TypeOK, ReleaseReserve, firecrawl
<1>12. CASE ExhaustedElsewhere
  BY <1>12 DEF TypeOK, ExhaustedElsewhere, question, firecrawl, books
<1>13. CASE Retry
  BY <1>13 DEF TypeOK, Retry, firecrawl, books
<1>14. CASE UNCHANGED vars
  BY <1>14 DEF TypeOK, vars, question, firecrawl, books
<1> QED
  BY <1>1, <1>2, <1>3, <1>4, <1>5, <1>6, <1>7, <1>8, <1>9, <1>10, <1>11, <1>12, <1>13,
     <1>14 DEF Next, Done

\* Every variable keeps its type; the two counts never go below zero.
THEOREM BudgetTypeCorrect == Spec => []TypeOK
<1> QED BY InitType, StepType, PTL DEF Spec

-----------------------------------------------------------------------------
(* How a step moves scrapes.                                               *)

\* Sets of scrapes are finite.
LEMMA Finite == IsFiniteSet(InFlight) /\ IsFiniteSet(Charged)
BY ScrapesAssumption, FS_Subset DEF ScrapesAssumption, InFlight, Charged, Waiting

\* A charged scrape is a new one in both sets.
LEMMA ChargeMoves ==
    ASSUME TypeOK, NEW s \in Scrapes, Charge(s)
    PROVE  /\ s \notin Charged /\ Charged' = Charged \cup {s}
           /\ s \notin InFlight /\ InFlight' = InFlight \cup {s}
BY DEF TypeOK, Charge, MoveTo, Charged, InFlight, Waiting

\* A refunded scrape leaves both sets.
LEMMA RefundMoves ==
    ASSUME TypeOK, NEW s \in Scrapes, Rejected(s) \/ NoAnswer(s)
    PROVE  /\ s \in Charged /\ Charged' = Charged \ {s}
           /\ s \in InFlight /\ InFlight' = InFlight \ {s}
BY DEF TypeOK, Rejected, NoAnswer, MoveTo, Charged, InFlight, Waiting

\* A scrape that keeps its charge leaves the ones in flight only.
LEMMA KeptMoves ==
    ASSUME TypeOK, NEW s \in Scrapes, Scraped(s) \/ Unusable(s) \/ Cancel(s)
    PROVE  /\ Charged' = Charged
           /\ s \in InFlight /\ InFlight' = InFlight \ {s}
BY DEF TypeOK, Scraped, Unusable, Cancel, MoveTo, Charged, InFlight, Waiting

\* Steps that touch neither set.
Still(s) ==
    \/ Skip(s) \/ RateLimited(s) \/ Resend(s) \/ (\E cost \in 1..MaxCost : Run(s, cost))

\* They leave the counts alone, too.
LEMMA StillMoves ==
    ASSUME TypeOK, NEW s \in Scrapes, Still(s)
    PROVE  Charged' = Charged /\ InFlight' = InFlight
           /\ UNCHANGED <<spent, prioritySpent, released>>
<1>1. CASE Skip(s)
  BY <1>1 DEF TypeOK, Skip, MoveTo, Charged, InFlight, Waiting, books
<1>2. CASE RateLimited(s)
  BY <1>2 DEF TypeOK, RateLimited, MoveTo, Charged, InFlight, Waiting, books
<1>3. CASE Resend(s)
  BY <1>3 DEF TypeOK, Resend, MoveTo, Charged, InFlight, Waiting, books
<1>4. CASE \E cost \in 1..MaxCost : Run(s, cost)
  BY <1>4 DEF Run, Charged, InFlight, Waiting, books
<1> QED BY <1>1, <1>2, <1>3, <1>4 DEF Still

\* Steps of no scrape.
Elsewhere ==
    \/ \E a \in 1..MaxAttempts : ReleaseReserve(a)
    \/ ExhaustedElsewhere \/ Retry \/ UNCHANGED vars

\* They may release the reserve.
LEMMA ElsewhereMoves ==
    ASSUME Elsewhere
    PROVE  /\ Charged' = Charged /\ InFlight' = InFlight
           /\ UNCHANGED <<spent, prioritySpent>> /\ (released => released')
<1>1. /\ UNCHANGED <<pc, spent, prioritySpent>> /\ (released => released')
  BY DEF Elsewhere, ReleaseReserve, ExhaustedElsewhere, Retry, vars, books
<1> QED BY <1>1 DEF Charged, InFlight, Waiting

\* Every step is of one of these kinds.
LEMMA Kinds ==
    ASSUME [Next]_vars
    PROVE  \/ \E s \in Scrapes : \/ Charge(s) \/ Rejected(s) \/ NoAnswer(s)
                                 \/ Scraped(s) \/ Unusable(s) \/ Cancel(s) \/ Still(s)
           \/ Elsewhere
BY DEF Next, Done, Still, Elsewhere

-----------------------------------------------------------------------------
(* The books.                                                              *)

\* The counts are those of the charged scrapes, initially.
LEMMA InitBooks == Init => BooksBalance
<1>1. Init => Charged = {} /\ Charged \cap Resolution = {}
  BY DEF Init, Charged, InFlight, Waiting
<1> QED BY <1>1, FS_EmptySet DEF Init, BooksBalance

\* ... and after every step.
LEMMA StepBooks == TypeOK /\ BooksBalance /\ [Next]_vars => BooksBalance'
<1> SUFFICES ASSUME TypeOK, BooksBalance, [Next]_vars PROVE BooksBalance'
  OBVIOUS
<1>0. /\ IsFiniteSet(Charged) /\ spent \in Nat /\ prioritySpent \in Nat
      /\ Cardinality(Charged) \in Nat /\ Cardinality(Charged \cap Resolution) \in Nat
  BY Finite, Counts DEF TypeOK
<1>1. ASSUME NEW s \in Scrapes, Charge(s) PROVE BooksBalance'
  <2>1. s \notin Charged /\ Charged' = Charged \cup {s}
    BY <1>1, ChargeMoves
  <2>2. spent' = spent + 1 /\ prioritySpent' = prioritySpent + Priority(s)
    BY <1>1 DEF Charge
  <2>3. Cardinality(Charged') = Cardinality(Charged) + 1
    BY <1>0, <2>1, OneMore
  <2>4. Cardinality(Charged' \cap Resolution) = Cardinality(Charged \cap Resolution) + Priority(s)
    <3>1. Cardinality((Charged \cup {s}) \cap Resolution)
            = Cardinality(Charged \cap Resolution) + (IF s \in Resolution THEN 1 ELSE 0)
      BY <1>0, <2>1, OneMore
    <3> QED BY <1>0, <2>1, <3>1 DEF Priority
  <2> QED BY <1>0, <2>2, <2>3, <2>4 DEF BooksBalance
<1>2. ASSUME NEW s \in Scrapes, Rejected(s) \/ NoAnswer(s) PROVE BooksBalance'
  <2>1. s \in Charged /\ Charged' = Charged \ {s}
    BY <1>2, RefundMoves
  <2>2. Refund(s)
    BY <1>2 DEF Rejected, NoAnswer
  <2>3. Cardinality(Charged') = Cardinality(Charged) - 1 /\ Cardinality(Charged') \in Nat
    BY <1>0, <2>1, OneLess, Finite, FS_RemoveElement, FS_CardinalityType
  <2>4. /\ Cardinality(Charged' \cap Resolution) = Cardinality(Charged \cap Resolution) - Priority(s)
        /\ Cardinality(Charged' \cap Resolution) \in Nat
    <3>1. Cardinality((Charged \ {s}) \cap Resolution)
            = Cardinality(Charged \cap Resolution) - (IF s \in Resolution THEN 1 ELSE 0)
      BY <1>0, <2>1, OneLess
    <3>2. Cardinality((Charged \ {s}) \cap Resolution) \in Nat
      BY <1>0, FS_RemoveElement, Counts
    <3> QED BY <1>0, <2>1, <3>1, <3>2 DEF Priority
  <2>5. spent' = spent - 1 /\ prioritySpent' = prioritySpent - Priority(s)
    BY <1>0, <2>2, <2>3, <2>4 DEF BooksBalance, Refund, AtLeastZero, Priority
  <2> QED BY <1>0, <2>3, <2>4, <2>5 DEF BooksBalance
<1>3. ASSUME NEW s \in Scrapes, Scraped(s) PROVE BooksBalance'
  <2>1. Charged' = Charged
    BY <1>3, KeptMoves
  <2>2. spent' >= spent /\ prioritySpent' = prioritySpent /\ spent' \in Nat
    BY <1>3, CreditsAssumption DEF Scraped, ExtraCredits, TypeOK, CreditsAssumption
  <2> QED BY <1>0, <2>1, <2>2 DEF BooksBalance
<1>4. ASSUME NEW s \in Scrapes, Unusable(s) \/ Cancel(s) PROVE BooksBalance'
  <2>1. Charged' = Charged
    BY <1>4, KeptMoves
  <2>2. UNCHANGED <<spent, prioritySpent>>
    BY <1>4 DEF Unusable, Cancel, books
  <2> QED BY <2>1, <2>2 DEF BooksBalance
<1>5. ASSUME NEW s \in Scrapes, Still(s) PROVE BooksBalance'
  BY <1>5, StillMoves DEF BooksBalance
<1>6. CASE Elsewhere
  BY <1>6, ElsewhereMoves DEF BooksBalance
<1> QED BY <1>1, <1>2, <1>3, <1>4, <1>5, <1>6, Kinds

\* Every refund undoes one charge of its own kind, in every run.
THEOREM BooksAlwaysBalance == Spec => []BooksBalance
<1> QED BY InitType, StepType, InitBooks, StepBooks, PTL DEF Spec

-----------------------------------------------------------------------------
(* The first claim.                                                        *)

\* A general scrape is charged within the credits outside the reserve.
LEMMA GeneralFits ==
    ASSUME TypeOK, BooksBalance, NEW s \in Scrapes \ Resolution, Charge(s),
           EnableResolution, ~released
    PROVE  Cardinality(Charged \ Resolution) + 1 <= AtLeastZero(Cap - Reserve)
<1>1. /\ IsFiniteSet(Charged) /\ spent \in Nat /\ prioritySpent \in Nat
      /\ Cardinality(Charged) \in Nat /\ Cardinality(Charged \cap Resolution) \in Nat
      /\ Cardinality(Charged \ Resolution) \in Nat
  BY Finite, Counts DEF TypeOK
<1>2. Cardinality(Charged) =
        Cardinality(Charged \cap Resolution) + Cardinality(Charged \ Resolution)
  BY <1>1, FS_Difference
<1>3. spent + 1 <= Cap - AtLeastZero(Reserve - prioritySpent)
  BY DEF Charge, BudgetAllows, Reserved
<1> QED BY <1>1, <1>2, <1>3, CreditsAssumption
        DEF BooksBalance, AtLeastZero, CreditsAssumption

\* No step breaks the first claim.
LEMMA StepClaim ==
    TypeOK /\ BooksBalance /\ FirstClaim /\ [Next]_vars => FirstClaim'
<1> SUFFICES ASSUME TypeOK, BooksBalance, FirstClaim, [Next]_vars,
                    EnableResolution, ~released'
             PROVE  Cardinality(Charged' \ Resolution) <= AtLeastZero(Cap - Reserve)
  BY DEF FirstClaim, AtLeastZero
<1>0. /\ IsFiniteSet(Charged) /\ Cardinality(Charged \ Resolution) \in Nat
      /\ AtLeastZero(Cap - Reserve) \in Nat
  <2>1. Cardinality(Charged \ Resolution) \in Nat
    BY Finite, Counts
  <2>2. AtLeastZero(Cap - Reserve) \in Nat
    BY CreditsAssumption DEF AtLeastZero, CreditsAssumption
  <2> QED BY <2>1, <2>2, Finite
<1>1. ASSUME NEW s \in Scrapes, Charge(s)
      PROVE  Cardinality(Charged' \ Resolution) <= AtLeastZero(Cap - Reserve)
  <2>1. s \notin Charged /\ Charged' = Charged \cup {s} /\ ~released
    BY <1>1, ChargeMoves DEF Charge
  <2>2. CASE s \in Resolution
    <3>1. Charged' \ Resolution = Charged \ Resolution
      BY <2>1, <2>2
    <3> QED BY <2>1, <3>1 DEF FirstClaim
  <2>3. CASE s \notin Resolution
    <3>1. Cardinality(Charged' \ Resolution) = Cardinality(Charged \ Resolution) + 1
      BY <1>0, <2>1, <2>3, OneMore
    <3>2. s \in Scrapes \ Resolution
      BY <2>3
    <3> QED BY <1>1, <2>1, <3>1, <3>2, GeneralFits
  <2> QED BY <2>2, <2>3
<1>2. ASSUME NEW s \in Scrapes, Rejected(s) \/ NoAnswer(s)
      PROVE  Cardinality(Charged' \ Resolution) <= AtLeastZero(Cap - Reserve)
  <2>0. released' = released
    BY <1>2 DEF Rejected, NoAnswer
  <2>1. s \in Charged /\ Charged' = Charged \ {s} /\ ~released
    BY <1>2, <2>0, RefundMoves
  <2>2. CASE s \in Resolution
    <3>1. Charged' \ Resolution = Charged \ Resolution
      BY <2>1, <2>2
    <3> QED BY <2>1, <3>1 DEF FirstClaim
  <2>3. CASE s \notin Resolution
    <3>1. Cardinality(Charged' \ Resolution) = Cardinality(Charged \ Resolution) - 1
      BY <1>0, <2>1, <2>3, OneLess
    <3> QED BY <1>0, <2>1, <3>1 DEF FirstClaim
  <2> QED BY <2>2, <2>3
<1>3. ASSUME NEW s \in Scrapes, Scraped(s) \/ Unusable(s) \/ Cancel(s)
      PROVE  Cardinality(Charged' \ Resolution) <= AtLeastZero(Cap - Reserve)
  <2>0. released' = released
    BY <1>3 DEF Scraped, Unusable, Cancel, books
  <2>1. Charged' = Charged /\ ~released
    BY <1>3, <2>0, KeptMoves
  <2> QED BY <2>1 DEF FirstClaim
<1>4. ASSUME NEW s \in Scrapes, Still(s)
      PROVE  Cardinality(Charged' \ Resolution) <= AtLeastZero(Cap - Reserve)
  BY <1>4, StillMoves DEF FirstClaim
<1>5. ASSUME Elsewhere
      PROVE  Cardinality(Charged' \ Resolution) <= AtLeastZero(Cap - Reserve)
  <2>1. Charged' = Charged /\ ~released
    BY <1>5, ElsewhereMoves
  <2> QED BY <2>1 DEF FirstClaim
<1> QED BY <1>1, <1>2, <1>3, <1>4, <1>5, Kinds

\* Until the reserve is released, general research never holds a credit of it.
THEOREM ResolutionComesFirst == Spec => []FirstClaim
<1>1. Init => FirstClaim
  <2>1. Init => Charged \ Resolution = {}
    BY DEF Init, Charged, InFlight, Waiting
  <2> QED BY <2>1, FS_EmptySet, CreditsAssumption DEF FirstClaim, AtLeastZero, CreditsAssumption
<1> QED BY <1>1, InitType, StepType, InitBooks, StepBooks, StepClaim, PTL DEF Spec

-----------------------------------------------------------------------------
(* The overrun.                                                            *)

\* The overages are numbers, and Slots of them cover fewer.
LEMMA Overages ==
    /\ Overage \in Nat /\ Slots * Overage \in Nat
    /\ \A n \in Nat : /\ n * Overage \in Nat
                      /\ (n + 1) * Overage = n * Overage + Overage
<1>1. Overage \in Nat
  BY CreditsAssumption DEF Overage, CreditsAssumption
<1>2. ASSUME NEW k \in Nat, NEW n \in Nat
      PROVE  n * k \in Nat /\ (n + 1) * k = n * k + k
  OBVIOUS
<1> QED BY <1>1, <1>2, CreditsAssumption DEF CreditsAssumption

\* More scrapes in flight, more overage to come.
LEMMA OverageGrows ==
    ASSUME NEW m \in Nat, NEW n \in Nat, m <= n
    PROVE  m * Overage <= n * Overage
<1>1. ASSUME NEW k \in Nat PROVE m * k <= n * k
  OBVIOUS
<1> QED BY <1>1, Overages

\* No step breaks what the overages to come allow for.
LEMMA StepOverrun == TypeOK /\ OverrunToCome /\ BooksBalance /\ [Next]_vars => OverrunToCome'
<1> SUFFICES ASSUME TypeOK, OverrunToCome, BooksBalance, [Next]_vars PROVE OverrunToCome'
  OBVIOUS
<1> DEFINE n == Cardinality(InFlight)
<1>0. /\ IsFiniteSet(InFlight) /\ n \in Nat /\ spent \in Nat
      /\ Slots \in Nat /\ Cap \in Nat /\ Slots * Overage \in Nat
      /\ Overage \in Nat /\ n * Overage \in Nat
  BY Finite, FS_CardinalityType, Overages, CreditsAssumption DEF TypeOK, CreditsAssumption
<1>1. ASSUME NEW s \in Scrapes, Charge(s) PROVE OverrunToCome'
  <2>1. s \notin InFlight /\ InFlight' = InFlight \cup {s} /\ n < Slots
    BY <1>1, ChargeMoves DEF Charge
  <2>2. Cardinality(InFlight') = n + 1
    BY <1>0, <2>1, OneMore
  <2>3. spent' = spent + 1 /\ spent + 1 <= Cap
    <3>1. prioritySpent \in Nat /\ Reserved(s) \in Nat
      BY CreditsAssumption DEF TypeOK, Reserved, AtLeastZero, CreditsAssumption
    <3> QED BY <1>0, <1>1, <3>1 DEF Charge, BudgetAllows
  <2>4. (n + 1) * Overage <= Slots * Overage /\ (n + 1) * Overage \in Nat
    BY <1>0, <2>1, OverageGrows, Overages
  <2> QED BY <1>0, <2>1, <2>2, <2>3, <2>4 DEF OverrunToCome
<1>2. ASSUME NEW s \in Scrapes, s \in InFlight, InFlight' = InFlight \ {s},
             spent' \in Nat, spent' <= spent + Overage
      PROVE  OverrunToCome'
  <2>1. Cardinality(InFlight') = n - 1 /\ n - 1 \in Nat
    <3>1. Cardinality(InFlight \ {s}) = n - 1 /\ Cardinality(InFlight \ {s}) \in Nat
      BY <1>0, <1>2, FS_RemoveElement, FS_CardinalityType
    <3> QED BY <1>2, <3>1
  <2>2. (n - 1) * Overage \in Nat /\ n * Overage = (n - 1) * Overage + Overage
    <3>1. (n - 1) + 1 = n
      BY <1>0
    <3> QED BY <2>1, <3>1, Overages
  <2> QED BY <1>0, <1>2, <2>1, <2>2 DEF OverrunToCome
<1>3. ASSUME NEW s \in Scrapes, Rejected(s) \/ NoAnswer(s) PROVE OverrunToCome'
  <2>1. s \in InFlight /\ InFlight' = InFlight \ {s}
    BY <1>3, RefundMoves
  <2>2. spent' \in Nat /\ spent' <= spent + Overage
    <3>1. spent' = AtLeastZero(spent - 1)
      BY <1>3 DEF Rejected, NoAnswer, Refund
    <3> QED BY <1>0, <3>1 DEF AtLeastZero
  <2> QED BY <2>1, <2>2, <1>2
<1>4. ASSUME NEW s \in Scrapes, Scraped(s) \/ Unusable(s) \/ Cancel(s) PROVE OverrunToCome'
  <2>1. s \in InFlight /\ InFlight' = InFlight \ {s}
    BY <1>4, KeptMoves
  <2>2. spent' \in Nat /\ spent' <= spent + Overage
    <3>1. CASE Scraped(s)
      BY <1>0, <3>1, CreditsAssumption DEF Scraped, ExtraCredits, Overage, TypeOK, CreditsAssumption
    <3>2. CASE Unusable(s) \/ Cancel(s)
      <4>1. spent' = spent
        BY <3>2 DEF Unusable, Cancel, books
      <4> QED BY <1>0, <4>1
    <3> QED BY <1>4, <3>1, <3>2
  <2> QED BY <2>1, <2>2, <1>2
<1>5. ASSUME NEW s \in Scrapes, Still(s) PROVE OverrunToCome'
  BY <1>5, StillMoves DEF OverrunToCome
<1>6. CASE Elsewhere
  BY <1>6, ElsewhereMoves DEF OverrunToCome
<1> QED BY <1>1, <1>3, <1>4, <1>5, <1>6, Kinds

\* However many pages turn out dear at once, the books exceed the cap by no more
\* than the overages of the scrapes that run together.
THEOREM OverrunIsBounded == Spec => []OverrunBounded
<1>1. Init => OverrunToCome
  <2>1. Init => InFlight = {}
    BY DEF Init, InFlight, Waiting
  <2>2. Init => Cardinality(InFlight) = 0 /\ 0 <= Slots /\ Slots \in Nat
    BY <2>1, FS_EmptySet, CreditsAssumption DEF CreditsAssumption
  <2>3. Init => Cardinality(InFlight) * Overage <= Slots * Overage
    BY <2>2, OverageGrows
  <2>4. Init => Cardinality(InFlight) * Overage \in Nat
    BY <2>2, Overages
  <2> QED BY <2>2, <2>3, <2>4, Overages, CreditsAssumption
          DEF Init, OverrunToCome, CreditsAssumption
<1>2. TypeOK /\ OverrunToCome => OverrunBounded
  <2> SUFFICES ASSUME TypeOK, OverrunToCome PROVE spent <= Cap + Slots * Overage
    BY DEF OverrunBounded, Overage
  <2>1. Cardinality(InFlight) * Overage \in Nat
    BY Finite, FS_CardinalityType, Overages
  <2> QED BY <2>1, Overages, CreditsAssumption DEF TypeOK, OverrunToCome, CreditsAssumption
<1> QED BY <1>1, <1>2, InitType, StepType, InitBooks, StepBooks, StepOverrun, PTL DEF Spec


\* First claim and bounded overrun hold together, whatever the scrapes do.
THEOREM CreditsHeld == Spec => []CreditsAreHeld
<1>1. TypeOK /\ FirstClaim /\ OverrunBounded => CreditsAreHeld
  BY DEF CreditsAreHeld
<1> QED BY <1>1, BudgetTypeCorrect, ResolutionComesFirst, OverrunIsBounded, PTL

(***************************************************************************)
(* RateGate, for every set of callers, interval, penalties                 *)
(* and number of tries.                                                    *)
(*                                                                         *)
(* A gate's _next_at lies an interval behind every slot it gave and never  *)
(* before a penalty's end; since it only grows, a new slot is apart from   *)
(* all older ones.  If all callers are tasks of the event loop, there is   *)
(* one gate, and the same holds of the whole endpoint.                     *)
(***************************************************************************)

\* Who is past the look-up has a gate, and the table has one from then on.
GateKnown ==
    /\ \A c \in Callers : doing[c] \in {"reserve", "sleeping", "sent"} => gate[c] \in Gates
    /\ \A c \in Callers : gate[c] # NoGate => table \in Gates

\* _next_at is behind everything the gate promised.
NextAtIsBehind ==
    /\ \A s \in slots : s.at + Interval <= nextAt[s.gate]
    /\ \A g \in Gates : pushedTo[g] <= nextAt[g]

\* Tasks of the event loop make one gate.
OneGate ==
    LoopTasks = Callers =>
        /\ \A c \in Callers : gate[c] \in {NoGate, table}
        /\ \A s \in slots : s.gate = table /\ table # NoGate
        /\ \A c \in Callers : doing[c] = "creating" => table = NoGate
        /\ \A c, d \in Callers : doing[c] = "creating" /\ doing[d] = "creating" => c = d

Inv == GateTypeOK /\ GateKnown

-----------------------------------------------------------------------------
(* The latest of two times.                                                *)
LEMMA LaterIsNat ==
    ASSUME NEW a \in Nat, NEW b \in Nat
    PROVE  /\ Later(a, b) \in Nat
           /\ a <= Later(a, b) /\ b <= Later(a, b)
  BY DEF Later

(* The invariant that types the state holds initially and is kept. *)
LEMMA InvHolds == GateSpec => []Inv
<1>1. GateInit => Inv
  BY CallersAssumption, TimesAssumption
  DEF GateInit, Inv, GateTypeOK, GateKnown, Gates
<1>2. Inv /\ [GateNext]_gateVars => Inv'
  <2> SUFFICES ASSUME Inv, [GateNext]_gateVars PROVE Inv'
    OBVIOUS
  <2> USE CallersAssumption, TimesAssumption
  <2>1. ASSUME NEW c \in Callers, LookUp(c) PROVE Inv'
    BY <2>1 DEF Inv, GateTypeOK, GateKnown, LookUp, Gates
  <2>2. ASSUME NEW c \in Callers, Create(c) PROVE Inv'
    BY <2>2 DEF Inv, GateTypeOK, GateKnown, Create, Gates
  <2>3. ASSUME NEW c \in Callers, ReserveSlot(c) PROVE Inv'
    <3>1. gate[c] \in Gates /\ doing[c] = "reserve"
      BY <2>3 DEF Inv, GateKnown, ReserveSlot
    <3> DEFINE g == gate[c]
               start == Later(now, nextAt[g])
    <3>2. start \in Nat
      BY <3>1, LaterIsNat DEF Inv, GateTypeOK
    <3>3. slots' \subseteq SlotRecords
      <4>1. [gate |-> g, by |-> c, try |-> try[c], at |-> start, pushedTo |-> pushedTo[g]]
              \in SlotRecords
        BY <3>1, <3>2 DEF Inv, GateTypeOK, SlotRecords
      <4> QED BY <2>3, <4>1 DEF ReserveSlot, Inv, GateTypeOK
    <3>4. nextAt' \in [Gates -> Nat]
      <4>1. NextSlot(g, start) \in Nat
        BY <3>2 DEF NextSlot
      <4> QED BY <2>3, <4>1 DEF ReserveSlot, Inv, GateTypeOK
    <3> QED BY <2>3, <3>1, <3>3, <3>4 DEF ReserveSlot, Inv, GateTypeOK, GateKnown, Gates
  <2>4. ASSUME NEW c \in Callers, Send(c) PROVE Inv'
    BY <2>4 DEF Inv, GateTypeOK, GateKnown, Send
  <2>5. ASSUME NEW c \in Callers, Answered(c) PROVE Inv'
    BY <2>5 DEF Inv, GateTypeOK, GateKnown, Answered
  <2>6. ASSUME NEW c \in Callers, PushedBack(c) PROVE Inv'
    <3>1. PICK seconds \in Backoffs : Penalise(table, seconds)
      BY <2>6 DEF PushedBack
    <3>2. doing[c] = "sent" /\ gate[c] \in Gates /\ table \in Gates
      BY <2>6 DEF PushedBack, Inv, GateKnown, Gates
    <3>3. now + seconds \in Nat
      BY DEF Inv, GateTypeOK
    <3>4. nextAt' \in [Gates -> Nat] /\ pushedTo' \in [Gates -> Nat]
      BY <3>1, <3>2, <3>3, LaterIsNat DEF Penalise, Inv, GateTypeOK
    <3>5. /\ doing' \in [Callers -> {"idle", "creating", "reserve", "sleeping", "sent", "done"}]
          /\ try' \in [Callers -> 1..MaxTries]
      BY <2>6 DEF PushedBack, TryAgain, GiveUp, Inv, GateTypeOK
    <3>6. \A d \in Callers : doing'[d] \in {"reserve", "sleeping", "sent"} =>
             doing[d] \in {"reserve", "sleeping", "sent"}
      BY <2>6, <3>2 DEF PushedBack, TryAgain, GiveUp, Inv, GateTypeOK
    <3> QED BY <2>6, <3>4, <3>5, <3>6 DEF PushedBack, Inv, GateTypeOK, GateKnown
  <2>7. CASE Tick
    BY <2>7 DEF Inv, GateTypeOK, GateKnown, Tick
  <2>8. CASE UNCHANGED gateVars
    BY <2>8 DEF Inv, GateTypeOK, GateKnown, gateVars
  <2> QED BY <2>1, <2>2, <2>3, <2>4, <2>5, <2>6, <2>7, <2>8 DEF GateNext, Stopped
<1> QED BY <1>1, <1>2, PTL DEF GateSpec

(* What a reservation and a penalty do to the clocks of the gates. *)
LEMMA ReserveStep ==
    ASSUME Inv, NEW c \in Callers, ReserveSlot(c)
    PROVE  \E start \in Nat :
              /\ gate[c] \in Gates
              /\ slots' = slots \cup {[gate |-> gate[c], by |-> c, try |-> try[c],
                                       at |-> start, pushedTo |-> pushedTo[gate[c]]]}
              /\ nextAt[gate[c]] <= start
              /\ nextAt' = [nextAt EXCEPT ![gate[c]] = start + Interval]
              /\ pushedTo' = pushedTo /\ table' = table /\ gate' = gate
<1>1. gate[c] \in Gates
  BY DEF Inv, GateKnown, ReserveSlot
<1>2. now \in Nat /\ nextAt[gate[c]] \in Nat
  BY <1>1 DEF Inv, GateTypeOK
<1>3. Later(now, nextAt[gate[c]]) \in Nat
  BY <1>2, LaterIsNat
<1> WITNESS Later(now, nextAt[gate[c]]) \in Nat
<1> QED BY <1>1, <1>2, LaterIsNat DEF ReserveSlot, NextSlot

-----------------------------------------------------------------------------
(* Every gate's clock is behind what it promised, at every step. *)
LEMMA NextAtStaysBehind ==
    ASSUME Inv, NextAtIsBehind, [GateNext]_gateVars
    PROVE  NextAtIsBehind'
<1> USE CallersAssumption, TimesAssumption
<1>1. ASSUME NEW c \in Callers, ReserveSlot(c) PROVE NextAtIsBehind'
  <2>1. PICK start \in Nat :
              /\ gate[c] \in Gates
              /\ slots' = slots \cup {[gate |-> gate[c], by |-> c, try |-> try[c],
                                       at |-> start, pushedTo |-> pushedTo[gate[c]]]}
              /\ nextAt[gate[c]] <= start
              /\ nextAt' = [nextAt EXCEPT ![gate[c]] = start + Interval]
              /\ pushedTo' = pushedTo /\ table' = table /\ gate' = gate
    BY <1>1, ReserveStep
  <2>2. \A g \in Gates : nextAt[g] \in Nat /\ nextAt'[g] \in Nat /\ nextAt[g] <= nextAt'[g]
    BY <2>1 DEF Inv, GateTypeOK
  <2>3. \A s \in slots : s.gate \in Gates /\ s.at \in Nat
    BY DEF Inv, GateTypeOK, SlotRecords
  <2>4. \A s \in slots : s.at + Interval <= nextAt'[s.gate]
    BY <2>2, <2>3 DEF NextAtIsBehind
  <2>5. start + Interval <= nextAt'[gate[c]]
    BY <2>1 DEF Inv, GateTypeOK
  <2>6. \A s \in slots' : s.at + Interval <= nextAt'[s.gate]
    BY <2>1, <2>4, <2>5
  <2>7. \A g \in Gates : pushedTo[g] \in Nat
    BY DEF Inv, GateTypeOK
  <2>8. \A g \in Gates : pushedTo'[g] <= nextAt'[g]
    BY <2>1, <2>2, <2>7 DEF NextAtIsBehind
  <2> QED BY <2>6, <2>8 DEF NextAtIsBehind
<1>2. ASSUME NEW c \in Callers, PushedBack(c) PROVE NextAtIsBehind'
  <2>1. PICK seconds \in Backoffs : Penalise(table, seconds)
    BY <1>2 DEF PushedBack
  <2>2. table \in Gates /\ now + seconds \in Nat /\ slots' = slots
    BY <1>2 DEF PushedBack, Inv, GateKnown, GateTypeOK, Gates
  <2>3. \A g \in Gates : nextAt[g] \in Nat /\ pushedTo[g] \in Nat
    BY DEF Inv, GateTypeOK
  <2>4. \A g \in Gates : nextAt[g] <= nextAt'[g] /\ nextAt'[g] \in Nat
    <3>1. \A g \in Gates : nextAt'[g] = IF g = table THEN Later(nextAt[g], now + seconds)
                                                    ELSE nextAt[g]
      BY <2>1 DEF Penalise, Inv, GateTypeOK
    <3>2. ASSUME NEW g \in Gates
          PROVE  /\ nextAt[g] <= Later(nextAt[g], now + seconds)
                 /\ Later(nextAt[g], now + seconds) \in Nat
      BY <2>2, <2>3, LaterIsNat
    <3>3. \A g \in Gates : nextAt[g] <= nextAt[g]
      BY <2>3
    <3> QED BY <2>3, <3>1, <3>2, <3>3
  <2>5. \A g \in Gates : pushedTo'[g] <= nextAt'[g]
    BY <2>1, <2>2, <2>3 DEF Penalise, Inv, GateTypeOK, NextAtIsBehind, Later
  <2>6. \A s \in slots : s.gate \in Gates /\ s.at \in Nat
    BY DEF Inv, GateTypeOK, SlotRecords
  <2> QED BY <2>2, <2>3, <2>4, <2>5, <2>6 DEF NextAtIsBehind
<1>3. ASSUME UNCHANGED <<slots, nextAt, pushedTo>> PROVE NextAtIsBehind'
  BY <1>3 DEF NextAtIsBehind
<1> QED BY <1>1, <1>2, <1>3
     DEF GateNext, LookUp, Create, Send, Answered, Tick, Stopped, gateVars

(* The event loop never makes a second gate. *)
LEMMA OneGateIsKept ==
    ASSUME Inv, OneGate, [GateNext]_gateVars
    PROVE  OneGate'
<1> SUFFICES ASSUME LoopTasks = Callers
             PROVE  OneGate'
  BY DEF OneGate
<1> USE CallersAssumption
<1>1. ASSUME NEW c \in Callers, LookUp(c) PROVE OneGate'
  BY <1>1 DEF OneGate, LookUp, Inv, GateTypeOK
<1>2. ASSUME NEW c \in Callers, Create(c) PROVE OneGate'
  BY <1>2 DEF OneGate, Create, Inv, GateTypeOK
<1>3. ASSUME NEW c \in Callers, ReserveSlot(c) PROVE OneGate'
  <2>1. gate[c] = table /\ table # NoGate
    BY <1>3 DEF OneGate, ReserveSlot, Inv, GateKnown, Gates
  <2>2. \A s \in slots' : s.gate = table /\ table # NoGate
    BY <1>3, <2>1 DEF OneGate, ReserveSlot
  <2>3. \A d \in Callers : doing'[d] = "creating" => doing[d] = "creating"
    BY <1>3 DEF ReserveSlot, Inv, GateTypeOK
  <2> QED BY <1>3, <2>2, <2>3 DEF OneGate, ReserveSlot
<1>4. ASSUME NEW c \in Callers, Send(c) \/ Answered(c) PROVE OneGate'
  BY <1>4 DEF OneGate, Send, Answered, Inv, GateTypeOK
<1>5. ASSUME NEW c \in Callers, PushedBack(c) PROVE OneGate'
  <2>1. \A d \in Callers : doing'[d] = "creating" => doing[d] = "creating"
    BY <1>5 DEF PushedBack, TryAgain, GiveUp, Inv, GateTypeOK
  <2> QED BY <1>5, <2>1 DEF OneGate, PushedBack
<1>6. CASE Tick \/ Stopped \/ UNCHANGED gateVars
  BY <1>6 DEF OneGate, Tick, Stopped, gateVars
<1> QED BY <1>1, <1>2, <1>3, <1>4, <1>5, <1>6 DEF GateNext

(* A step keeps the slots of a set of gates apart, if each new slot's gate is behind. *)
LEMMA ApartIsKept ==
    ASSUME Inv, NextAtIsBehind, [GateNext]_gateVars,
           NEW s \in slots', NEW t \in slots', s # t,
           s.gate = t.gate, \A x, y \in slots : x # y /\ x.gate = y.gate => Apart(x, y)
    PROVE  Apart(s, t)
<1> USE CallersAssumption, TimesAssumption
<1>1. ASSUME NEW c \in Callers, ReserveSlot(c) PROVE Apart(s, t)
  <2>1. PICK start \in Nat :
              /\ gate[c] \in Gates
              /\ slots' = slots \cup {[gate |-> gate[c], by |-> c, try |-> try[c],
                                       at |-> start, pushedTo |-> pushedTo[gate[c]]]}
              /\ nextAt[gate[c]] <= start
              /\ nextAt' = [nextAt EXCEPT ![gate[c]] = start + Interval]
              /\ pushedTo' = pushedTo /\ table' = table /\ gate' = gate
    BY <1>1, ReserveStep
  <2> DEFINE new == [gate |-> gate[c], by |-> c, try |-> try[c],
                     at |-> start, pushedTo |-> pushedTo[gate[c]]]
  <2>2. \A x \in slots : x.gate = gate[c] => x.at + Interval <= start
    <3>1. \A x \in slots : x.at \in Nat /\ x.gate \in Gates
      BY DEF Inv, GateTypeOK, SlotRecords
    <3>2. nextAt[gate[c]] \in Nat
      BY <2>1 DEF Inv, GateTypeOK
    <3> QED BY <2>1, <3>1, <3>2 DEF NextAtIsBehind
  <2>3. new.at = start /\ new.gate = gate[c]
    OBVIOUS
  <2>4. \/ s \in slots /\ t \in slots
        \/ s \in slots /\ t = new
        \/ s = new /\ t \in slots
    BY <2>1
  <2> QED BY <2>2, <2>3, <2>4 DEF Apart
<1>2. CASE slots' = slots
  BY <1>2
<1> QED BY <1>1, <1>2
     DEF GateNext, LookUp, Create, Send, Answered, PushedBack, Tick, Stopped, gateVars

-----------------------------------------------------------------------------
(* Everything that has to be known about the gates holds always. *)
LEMMA GatesInOrder == GateSpec => [](Inv /\ NextAtIsBehind /\ OneGate)
<1>1. GateInit => NextAtIsBehind /\ OneGate
  BY DEF GateInit, NextAtIsBehind, OneGate, Gates
<1>2. /\ Inv /\ NextAtIsBehind /\ OneGate /\ [GateNext]_gateVars
      => NextAtIsBehind' /\ OneGate'
  BY NextAtStaysBehind, OneGateIsKept
<1> QED BY <1>1, <1>2, InvHolds, PTL DEF GateSpec

(* Types: every call that reserves or sends has a gate, and every slot is one of it. *)
THEOREM GateTypeCorrect == GateSpec => []GateTypeOK
<1>1. Inv => GateTypeOK
  BY DEF Inv
<1> QED BY <1>1, InvHolds, PTL

(* The slots of one gate are an interval apart, however tasks and threads, retries and
   penalties interleave. *)
THEOREM SlotsAlwaysSpaced == GateSpec => []SlotsSpaced
<1>1. GateInit => SlotsSpaced
  BY DEF GateInit, SlotsSpaced
<1>2. Inv /\ NextAtIsBehind /\ SlotsSpaced /\ [GateNext]_gateVars => SlotsSpaced'
  BY ApartIsKept DEF SlotsSpaced, Apart
<1> QED BY <1>1, <1>2, GatesInOrder, PTL DEF GateSpec

(* If every caller is a task of the event loop, the whole endpoint is spaced. *)
THEOREM OneLoopSpacesEndpoint == LoopTasks = Callers => (GateSpec => []EndpointSpaced)
<1> SUFFICES ASSUME LoopTasks = Callers
             PROVE  GateSpec => []EndpointSpaced
  OBVIOUS
<1>1. OneGate /\ SlotsSpaced => EndpointSpaced
  BY DEF OneGate, SlotsSpaced, EndpointSpaced
<1> QED BY <1>1, GatesInOrder, SlotsAlwaysSpaced, PTL

(* No slot is given before the end of a penalty that the gate had taken by then. *)
THEOREM PenaltyLasts == GateSpec => []PenaltyOutlastsQueue
<1>1. GateInit => PenaltyOutlastsQueue
  BY DEF GateInit, PenaltyOutlastsQueue
<1>2. ASSUME Inv, NextAtIsBehind, PenaltyOutlastsQueue, [GateNext]_gateVars
      PROVE  PenaltyOutlastsQueue'
  <2>1. ASSUME NEW c \in Callers, ReserveSlot(c) PROVE PenaltyOutlastsQueue'
    <3>1. PICK start \in Nat :
              /\ gate[c] \in Gates
              /\ slots' = slots \cup {[gate |-> gate[c], by |-> c, try |-> try[c],
                                       at |-> start, pushedTo |-> pushedTo[gate[c]]]}
              /\ nextAt[gate[c]] <= start
              /\ nextAt' = [nextAt EXCEPT ![gate[c]] = start + Interval]
              /\ pushedTo' = pushedTo /\ table' = table /\ gate' = gate
      BY <2>1, <1>2, ReserveStep
    <3>2. nextAt[gate[c]] \in Nat /\ pushedTo[gate[c]] \in Nat
      BY <1>2, <3>1 DEF Inv, GateTypeOK
    <3>3. pushedTo[gate[c]] <= start
      BY <1>2, <3>1, <3>2 DEF NextAtIsBehind
    <3> QED BY <1>2, <3>1, <3>3 DEF PenaltyOutlastsQueue
  <2>2. CASE slots' = slots
    BY <1>2, <2>2 DEF PenaltyOutlastsQueue
  <2> QED BY <1>2, <2>1, <2>2
       DEF GateNext, LookUp, Create, Send, Answered, PushedBack, Tick, Stopped, gateVars
<1> QED BY <1>1, <1>2, GatesInOrder, PTL DEF GateSpec

\* Slots are spaced, and lie after the penalties that precede them.
THEOREM SlotsRespected == GateSpec => []SlotsAreRespected
<1>1. GateTypeOK /\ SlotsSpaced /\ PenaltyOutlastsQueue => SlotsAreRespected
  BY DEF SlotsAreRespected
<1> QED BY <1>1, GateTypeCorrect, SlotsAlwaysSpaced, PenaltyLasts, PTL

(***************************************************************************)
(* CostLedger, for every set of calls and managers, every price and limit. *)
(*                                                                         *)
(* Rows only follow what their call went through, so that the sum of a     *)
(* ledger is the sum over the calls that are billed to it; what a check    *)
(* let through is at most one call's worth above the limit.                *)
(***************************************************************************)

(***************************************************************************)
(* Calls and rows.                                                         *)
(***************************************************************************)
Phases == {"new", "ready", "gated", "skipped", "checked", "refused",
           "open", "answered", "failed", "over"}
CallRecord == [phase : Phases, managers : SUBSET Managers, input : Nat]
RowRecord == [input : Nat, output : Nat, error : BOOLEAN, written : BOOLEAN]

LedgerTypes ==
  /\ last \in 0..LastAttempt /\ current \in 0..last
  /\ calls \in [Calls -> CallRecord]
  /\ rows \in [Managers -> [Calls -> RowRecord]]

\* A call belongs to the run and to the attempt that made it, from then on.
CallsFit ==
  \A c \in Calls :
    /\ calls[c].phase = "new" => calls[c].managers = {}
    /\ calls[c].phase # "new" => \E a \in 1..LastAttempt : calls[c].managers = {0, a}
    /\ calls[c].phase = "checked" => Kind[c] = "thread"
    /\ calls[c].phase = "gated" => Kind[c] = "gated"
    /\ Kind[c] = "gated" => calls[c].input <= Expected

\* A request that was not sent has left nothing in any manager.
NothingBefore == \A c \in Calls : \A m \in Managers : ~rows[m][c].written => rows[m][c] = NoRow

RowInv == LedgerTypes /\ CallsFit /\ NothingBefore /\ RowsFollowTheCall

\* The rows of a call that has not been sent are empty.
LEMMA NotSentYet ==
  ASSUME RowInv, NEW c \in Calls, calls[c].phase \notin {"open", "answered", "failed", "over"}
  PROVE  \A m \in Managers : rows[m][c] = NoRow
BY DEF RowInv, NothingBefore, RowsFollowTheCall

\* The invariant holds at the start.
LEMMA RowInvInit == LedgerInit => RowInv
<1> SUFFICES ASSUME LedgerInit PROVE RowInv OBVIOUS
<1> USE LedgerAssumption DEF LedgerInit, Managers, NoRow
<1>1. LedgerTypes BY DEF LedgerTypes, CallRecord, RowRecord, Phases
<1>2. CallsFit BY DEF CallsFit
<1>3. NothingBefore BY DEF NothingBefore
<1>4. RowsFollowTheCall BY DEF RowsFollowTheCall
<1> QED BY <1>1, <1>2, <1>3, <1>4 DEF RowInv

\* What a step that only moves a call on leaves behind.
LEMMA GoesFits ==
  ASSUME RowInv, NEW c \in Calls, NEW p \in Phases, Goes(c, p)
  PROVE  /\ calls' \in [Calls -> CallRecord]
         /\ calls'[c].phase = p /\ \A d \in Calls : d # c => calls'[d] = calls[d]
         /\ \A d \in Calls : calls'[d].managers = calls[d].managers /\ calls'[d].input = calls[d].input
BY DEF RowInv, LedgerTypes, Goes, CallRecord

\* A step that changes no phase but one, and no row, keeps the invariant when it
\* does not send.
LEMMA MoveRowInv ==
  ASSUME RowInv, NEW c \in Calls, NEW p \in {"skipped", "gated", "refused", "checked"},
         calls[c].phase \in {"ready", "gated"}, p = "gated" => Kind[c] = "gated",
         p = "checked" => Kind[c] = "thread",
         Goes(c, p), UNCHANGED <<current, last, rows>>
  PROVE  RowInv'
<1> USE DEF RowInv
<1>1. p \in Phases BY DEF Phases
<1>2. /\ calls' \in [Calls -> CallRecord]
      /\ calls'[c].phase = p /\ \A d \in Calls : d # c => calls'[d] = calls[d]
      /\ \A d \in Calls : calls'[d].managers = calls[d].managers /\ calls'[d].input = calls[d].input
  BY <1>1, GoesFits
<1>3. LedgerTypes' BY <1>2 DEF LedgerTypes
<1>4. CallsFit' BY <1>2 DEF CallsFit
<1>5. NothingBefore' BY DEF NothingBefore
<1>6. RowsFollowTheCall' BY <1>2 DEF RowsFollowTheCall
<1> QED BY <1>3, <1>4, <1>5, <1>6

\* Sending writes the row of the call into its managers.
LEMMA WriteRowInv ==
  ASSUME RowInv, NEW c \in Calls, calls[c].phase \in {"ready", "gated", "checked"},
         Goes(c, "open"), Write(c), UNCHANGED <<current, last>>
  PROVE  RowInv'
<1> USE DEF RowInv
<1>1. "open" \in Phases BY DEF Phases
<1>2. /\ calls' \in [Calls -> CallRecord]
      /\ calls'[c].phase = "open" /\ \A d \in Calls : d # c => calls'[d] = calls[d]
      /\ \A d \in Calls : calls'[d].managers = calls[d].managers /\ calls'[d].input = calls[d].input
  BY <1>1, GoesFits
<1>3. calls[c] \in CallRecord /\ calls[c].managers \subseteq Managers /\ calls[c].input \in Nat
  BY DEF LedgerTypes, CallRecord
<1>4. 0 \in calls[c].managers BY DEF CallsFit
<1>5. \A m \in Managers : rows[m][c] = NoRow BY NotSentYet
<1> DEFINE new == [input |-> calls[c].input, output |-> 0, error |-> FALSE, written |-> TRUE]
<1>6. \A m \in Managers : rows[m] \in [Calls -> RowRecord] BY DEF LedgerTypes
<1>7. rows' = [m \in Managers |-> IF m \notin calls[c].managers THEN rows[m]
                                  ELSE [rows[m] EXCEPT ![c] = new]]
  BY <1>5, <1>6 DEF Write, NoRow
<1>8. new \in RowRecord BY <1>3 DEF RowRecord
<1>9. rows' \in [Managers -> [Calls -> RowRecord]]
  <2> HIDE DEF new
  <2> QED BY <1>6, <1>7, <1>8
<1>10. /\ \A m \in Managers : rows'[m][c] = IF m \in calls[c].managers THEN new ELSE NoRow
       /\ \A m \in Managers : \A d \in Calls : d # c => rows'[m][d] = rows[m][d]
  <2> HIDE DEF new
  <2> QED BY <1>5, <1>6, <1>7
<1>11. LedgerTypes' BY <1>2, <1>9 DEF LedgerTypes
<1>12. CallsFit' BY <1>2 DEF CallsFit
<1>13. NothingBefore' BY <1>10 DEF NothingBefore
<1>14. RowsFollowTheCall'
  <2> SUFFICES ASSUME NEW d \in Calls, NEW m \in Managers
               PROVE  /\ rows'[m][d].written <=>
                           calls'[d].phase \in {"open", "answered", "failed", "over"} /\ m \in calls'[d].managers
                      /\ rows'[m][d].written => /\ rows'[m][d].input = calls'[d].input
                                                /\ rows'[m][d] = rows'[0][d]
    BY DEF RowsFollowTheCall
  <2>1. 0 \in Managers BY <1>3, <1>4
  <2>2. CASE d = c BY <1>2, <1>4, <1>10, <2>1, <2>2 DEF NoRow
  <2>3. CASE d # c BY <1>2, <1>10, <2>1, <2>3 DEF RowsFollowTheCall
  <2> QED BY <2>2, <2>3
<1> QED BY <1>11, <1>12, <1>13, <1>14

\* The end of a call updates what its managers hold of it, all of them alike.
LEMMA CloseRowInv ==
  ASSUME RowInv, NEW c \in Calls, NEW n \in Nat, NEW e \in BOOLEAN,
         NEW p \in {"answered", "failed"}, Close(c, n, e, p)
  PROVE  RowInv'
<1> USE DEF RowInv
<1>1. PICK q \in {"answered", "failed", "over"} : Goes(c, q) BY DEF Close
<1>2. q \in Phases /\ calls[c].phase = "open" BY DEF Phases, Close
<1>3. /\ calls' \in [Calls -> CallRecord]
      /\ calls'[c].phase = q /\ \A d \in Calls : d # c => calls'[d] = calls[d]
      /\ \A d \in Calls : calls'[d].managers = calls[d].managers /\ calls'[d].input = calls[d].input
  BY <1>1, <1>2, GoesFits
<1>4. \A m \in Managers : rows[m] \in [Calls -> RowRecord] BY DEF LedgerTypes
<1>5. rows' = [m \in Managers |-> IF m \notin calls[c].managers THEN rows[m]
                 ELSE [rows[m] EXCEPT ![c] = [rows[m][c] EXCEPT !.output = n, !.error = e]]]
  BY <1>4 DEF Close, Record, RowRecord
<1>6. \A m \in Managers : [rows[m][c] EXCEPT !.output = n, !.error = e] \in RowRecord
  BY <1>4 DEF RowRecord
<1>7. rows' \in [Managers -> [Calls -> RowRecord]] BY <1>4, <1>5, <1>6
<1>8. /\ \A m \in Managers : \A d \in Calls : d # c => rows'[m][d] = rows[m][d]
      /\ \A m \in Managers : m \notin calls[c].managers => rows'[m][c] = rows[m][c]
      /\ \A m \in Managers : m \in calls[c].managers =>
           rows'[m][c] = [rows[m][c] EXCEPT !.output = n, !.error = e]
  BY <1>4, <1>5
<1>9. calls[c].managers \subseteq Managers /\ 0 \in calls[c].managers
  BY <1>2 DEF LedgerTypes, CallRecord, CallsFit
<1>10. \A m \in Managers : m \in calls[c].managers => rows[m][c].written /\ rows[m][c] = rows[0][c]
  BY <1>2 DEF RowsFollowTheCall
<1>11. LedgerTypes' BY <1>3, <1>7 DEF LedgerTypes, Close
<1>12. CallsFit' BY <1>1, <1>2, <1>3 DEF CallsFit
<1>13. \A m \in Managers : \A d \in Calls :
         rows'[m][d].written = rows[m][d].written /\ rows'[m][d].input = rows[m][d].input
  <2> SUFFICES ASSUME NEW m \in Managers, NEW d \in Calls
               PROVE  rows'[m][d].written = rows[m][d].written /\ rows'[m][d].input = rows[m][d].input
    OBVIOUS
  <2>1. rows[m][c] \in RowRecord BY <1>4
  <2>2. [rows[m][c] EXCEPT !.output = n, !.error = e].written = rows[m][c].written BY <2>1 DEF RowRecord
  <2>3. [rows[m][c] EXCEPT !.output = n, !.error = e].input = rows[m][c].input BY <2>1 DEF RowRecord
  <2> QED BY <1>8, <2>2, <2>3
<1>14. NothingBefore'
  <2> SUFFICES ASSUME NEW d \in Calls, NEW m \in Managers, ~rows'[m][d].written
               PROVE  rows'[m][d] = NoRow
    BY DEF NothingBefore
  <2>1. rows[m][d] = NoRow BY <1>13 DEF NothingBefore
  <2>2. d # c \/ m \notin calls[c].managers BY <1>10, <2>1 DEF NoRow
  <2> QED BY <1>8, <2>1, <2>2
<1>15. RowsFollowTheCall'
  <2> SUFFICES ASSUME NEW d \in Calls, NEW m \in Managers
               PROVE  /\ rows'[m][d].written <=>
                           calls'[d].phase \in {"open", "answered", "failed", "over"} /\ m \in calls'[d].managers
                      /\ rows'[m][d].written => /\ rows'[m][d].input = calls'[d].input
                                                /\ rows'[m][d] = rows'[0][d]
    BY DEF RowsFollowTheCall
  <2>1. 0 \in Managers BY <1>9
  <2>2. /\ rows[m][d].written <=>
             calls[d].phase \in {"open", "answered", "failed", "over"} /\ m \in calls[d].managers
        /\ rows[m][d].written => rows[m][d].input = calls[d].input /\ rows[m][d] = rows[0][d]
    BY DEF RowsFollowTheCall
  <2>3. CASE d = c
    <3>1. /\ rows'[m][c].written <=> m \in calls[c].managers
          /\ m \in calls[c].managers => rows'[m][c].input = calls'[c].input
      BY <1>2, <1>3, <1>13, <2>2, <2>3
    <3>2. ASSUME m \in calls[c].managers PROVE rows'[m][c] = rows'[0][c]
      <4>1. rows'[m][c] = [rows[m][c] EXCEPT !.output = n, !.error = e] BY <1>8, <3>2
      <4>2. rows'[0][c] = [rows[0][c] EXCEPT !.output = n, !.error = e] BY <1>8, <1>9, <2>1
      <4>3. rows[m][c] = rows[0][c] BY <1>10, <3>2
      <4> QED BY <4>1, <4>2, <4>3
    <3> QED BY <1>1, <1>3, <2>3, <3>1, <3>2
  <2>4. CASE d # c BY <1>3, <1>8, <2>1, <2>2, <2>4
  <2> QED BY <2>3, <2>4
<1> QED BY <1>11, <1>12, <1>14, <1>15

\* A new call belongs to the run and to the attempt under way.
LEMMA SpawnRowInv == ASSUME RowInv, NEW c \in Calls, Spawn(c) PROVE RowInv'
<1> USE DEF RowInv
<1>1. PICK s \in Sizes :
        /\ Kind[c] = "gated" => s <= Expected
        /\ calls' = [calls EXCEPT ![c] = [phase |-> "ready", input |-> s, managers |-> {0, current}]]
  BY DEF Spawn
<1>2. /\ current # 0 /\ calls[c].phase = "new" /\ s \in Nat
      /\ current' = current /\ last' = last /\ rows' = rows
  BY LedgerAssumption DEF Spawn
<1>3. current \in 1..LastAttempt /\ {0, current} \subseteq Managers
  BY <1>2, LedgerAssumption DEF LedgerTypes, Managers
<1>4. [phase |-> "ready", input |-> s, managers |-> {0, current}] \in CallRecord
  BY <1>2, <1>3 DEF CallRecord, Phases
<1>5. LedgerTypes' BY <1>1, <1>2, <1>4 DEF LedgerTypes
<1>6. CallsFit' BY <1>1, <1>3 DEF CallsFit, LedgerTypes
<1>7. NothingBefore' BY <1>2 DEF NothingBefore
<1>8. \A m \in Managers : rows[m][c] = NoRow BY <1>2, NotSentYet
<1>9. RowsFollowTheCall'
  <2> SUFFICES ASSUME NEW d \in Calls, NEW m \in Managers
               PROVE  /\ rows[m][d].written <=>
                           calls'[d].phase \in {"open", "answered", "failed", "over"} /\ m \in calls'[d].managers
                      /\ rows[m][d].written => /\ rows[m][d].input = calls'[d].input
                                               /\ rows[m][d] = rows[0][d]
    BY <1>2 DEF RowsFollowTheCall
  <2>1. CASE d = c BY <1>1, <1>8, <2>1 DEF LedgerTypes, NoRow
  <2>2. CASE d # c BY <1>1, <2>2 DEF LedgerTypes, RowsFollowTheCall
  <2> QED BY <2>1, <2>2
<1> QED BY <1>5, <1>6, <1>7, <1>9

\* A failure nobody records ends the call and leaves its rows.
LEMMA UnrecordedRowInv == ASSUME RowInv, NEW c \in Calls, FailUnrecorded(c) PROVE RowInv'
<1> USE DEF RowInv
<1>1. Goes(c, "failed") /\ calls[c].phase = "open" /\ current' = current /\ last' = last /\ rows' = rows
  BY DEF FailUnrecorded
<1>2. "failed" \in Phases BY DEF Phases
<1>3. /\ calls' \in [Calls -> CallRecord]
      /\ calls'[c].phase = "failed" /\ \A d \in Calls : d # c => calls'[d] = calls[d]
      /\ \A d \in Calls : calls'[d].managers = calls[d].managers /\ calls'[d].input = calls[d].input
  BY <1>1, <1>2, GoesFits
<1>4. LedgerTypes' BY <1>1, <1>3 DEF LedgerTypes
<1>5. CallsFit' BY <1>1, <1>3 DEF CallsFit
<1>6. NothingBefore' BY <1>1 DEF NothingBefore
<1>7. RowsFollowTheCall' BY <1>1, <1>3 DEF RowsFollowTheCall
<1> QED BY <1>4, <1>5, <1>6, <1>7

\* Every step keeps the rows with their calls.
LEMMA RowInvNext == RowInv /\ [LedgerNext]_ledgerVars => RowInv'
<1> SUFFICES ASSUME RowInv, [LedgerNext]_ledgerVars PROVE RowInv' OBVIOUS
<1> USE DEF RowInv
<1>1. CASE Enter
  <2>1. UNCHANGED <<calls, rows>> /\ last' \in 0..LastAttempt /\ current' \in 0..last'
    BY <1>1, LedgerAssumption DEF Enter, LedgerTypes
  <2> QED BY <2>1 DEF LedgerTypes, CallsFit, NothingBefore, RowsFollowTheCall
<1>2. CASE Exit
  <2>1. UNCHANGED <<last, calls, rows>> /\ current' \in 0..last'
    BY <1>2, LedgerAssumption DEF Exit, LedgerTypes
  <2> QED BY <2>1 DEF LedgerTypes, CallsFit, NothingBefore, RowsFollowTheCall
<1>3. ASSUME NEW c \in Calls, Gate(c) PROVE RowInv' BY <1>3, MoveRowInv DEF Gate
<1>4. ASSUME NEW c \in Calls, Check(c) PROVE RowInv' BY <1>4, MoveRowInv DEF Check
<1>5. ASSUME NEW c \in Calls, Start(c) PROVE RowInv'
  <2>1. calls[c].phase \in {"ready", "gated"} BY <1>5 DEF Start
  <2>2. CASE NoRoom(c) BY <1>5, <2>1, <2>2, MoveRowInv DEF Start
  <2>3. CASE ~NoRoom(c) BY <1>5, <2>1, <2>3, WriteRowInv DEF Start
  <2> QED BY <2>2, <2>3
<1>6. ASSUME NEW c \in Calls, AppendRow(c) PROVE RowInv' BY <1>6, WriteRowInv DEF AppendRow
<1>7. ASSUME NEW c \in Calls, Answer(c) PROVE RowInv'
  BY <1>7, LedgerAssumption, CloseRowInv DEF Answer
<1>8. ASSUME NEW c \in Calls, Fail(c) PROVE RowInv' BY <1>8, CloseRowInv DEF Fail
<1>9. CASE UNCHANGED ledgerVars
  BY <1>9 DEF ledgerVars, LedgerTypes, CallsFit, NothingBefore, RowsFollowTheCall
<1> QED BY <1>1, <1>2, <1>3, <1>4, <1>5, <1>6, <1>7, <1>8, <1>9, SpawnRowInv, UnrecordedRowInv
     DEF LedgerNext

\* OpenRouterUsageRecord and its handle: what a request cost is in the ledger of the
\* run and of the attempt that made it, and in no other, however late it is written,
\* for any number of calls and attempts.
THEOREM RowsAlwaysFollowTheCall == LedgerSpec => []RowsFollowTheCall
<1>1. RowInv => RowsFollowTheCall BY DEF RowInv
<1> QED BY <1>1, RowInvInit, RowInvNext, PTL DEF LedgerSpec

-----------------------------------------------------------------------------
(***************************************************************************)
(* The limits.                                                             *)
(***************************************************************************)
\* One gated call of an attempt at a time is past its check and not yet sent.
OneGated ==
  \A c, d \in Calls :
    calls[c].phase = "gated" /\ calls[d].phase = "gated" /\ calls[c].managers = calls[d].managers
      => c = d

\* What the research that asks has sent, and what it may still send, leaves the reserve.
GatedIn(m) == \E c \in Calls : calls[c].phase = "gated" /\ m \in calls[c].managers
ReserveIsKept ==
  \A m \in Managers \ {0} :
    InputOf(m, OfKind({"gated"})) + (IF GatedIn(m) THEN Expected ELSE 0)
      <= InputLimit - ReservedTokens

LimitInv == RowInv /\ OneGated /\ ReserveIsKept /\ InputOverrunBounded /\ TailHasItsReserve

\* The inputs a manager holds, as a function that sums are taken of.
Inputs(m) == [c \in Calls |-> rows[m][c].input]

\* Sums of inputs are natural numbers; those of all calls are those of the gated ones
\* and of the others.
LEMMA InputsAdd ==
  ASSUME RowInv, NEW m \in Managers
  PROVE  /\ Inputs(m) \in [Calls -> Nat]
         /\ \A K : InputOf(m, OfKind(K)) \in Nat
         /\ InputOf(m, Calls) \in Nat
         /\ InputOf(m, Calls) = InputOf(m, OfKind({"gated"}))
                                + InputOf(m, OfKind({"tail", "research", "thread"}))
<1>1. Inputs(m) \in [Calls -> Nat]
  BY DEF RowInv, LedgerTypes, RowRecord, Inputs
<1>2. \A C : InputOf(m, C) = SumFunctionOnSet(Inputs(m), {c \in C : Paid[c]}) BY DEF InputOf, Inputs
<1>3. \A c \in Calls : Inputs(m)[c] \in Nat BY <1>1
<1>4. \A S : S \subseteq Calls => SumFunctionOnSet(Inputs(m), S) \in Nat
  BY <1>3, SumMonotone, LedgerAssumption
<1>5. (\A K : InputOf(m, OfKind(K)) \in Nat) /\ InputOf(m, Calls) \in Nat
  <2>1. \A K : {c \in OfKind(K) : Paid[c]} \subseteq Calls BY DEF OfKind
  <2>2. {c \in Calls : Paid[c]} \subseteq Calls OBVIOUS
  <2> QED BY <1>2, <1>4, <2>1, <2>2
<1> DEFINE S == {c \in OfKind({"gated"}) : Paid[c]}
           T == {c \in OfKind({"tail", "research", "thread"}) : Paid[c]}
<1>6. S \cup T = {c \in Calls : Paid[c]} /\ S \cap T = {} BY LedgerAssumption DEF OfKind
<1>7. IsFiniteSet(S) /\ IsFiniteSet(T) /\ S \subseteq Calls /\ T \subseteq Calls
  BY FS_Subset, LedgerAssumption DEF OfKind
<1>8. \A c \in S \cup T : Inputs(m)[c] \in Int BY <1>3, <1>7
<1>9. SumFunctionOnSet(Inputs(m), S \cup T)
        = SumFunctionOnSet(Inputs(m), S) + SumFunctionOnSet(Inputs(m), T)
  <2> HIDE DEF S, T
  <2> QED BY <1>6, <1>7, <1>8, SumUnion
<1> QED BY <1>1, <1>2, <1>5, <1>6, <1>9

\* A step that changes no input changes no sum.
LEMMA InputsStay ==
  ASSUME \A m \in Managers : \A c \in Calls : rows'[m][c].input = rows[m][c].input
  PROVE  \A m \in Managers : \A C : InputOf(m, C)' = InputOf(m, C)
<1> SUFFICES ASSUME NEW m \in Managers, NEW C PROVE InputOf(m, C)' = InputOf(m, C)
  OBVIOUS
<1>1. [c \in Calls |-> rows'[m][c].input] = [c \in Calls |-> rows[m][c].input] OBVIOUS
<1> QED BY <1>1 DEF InputOf

\* Sending adds the input of the call to the sums of its managers that count it.
LEMMA InputsGrow ==
  ASSUME RowInv, NEW c \in Calls, calls[c].phase \in {"ready", "gated", "checked"}, Write(c),
         NEW m \in Managers, NEW C, C \subseteq Calls
  PROVE  InputOf(m, C)' = InputOf(m, C) + (IF m \in calls[c].managers /\ c \in C /\ Paid[c]
                                           THEN calls[c].input ELSE 0)
<1> DEFINE S == {d \in C : Paid[d]}
<1>1. rows[m][c] = NoRow BY NotSentYet
<1>2. Inputs(m) \in [Calls -> Nat] /\ Inputs(m)[c] = 0 BY <1>1, InputsAdd DEF Inputs, NoRow
<1>3. calls[c].input \in Nat BY DEF RowInv, LedgerTypes, CallRecord
<1>4. rows[m] \in [Calls -> RowRecord] BY DEF RowInv, LedgerTypes
<1>5. CASE m \in calls[c].managers
  <2>1. rows'[m] = [rows[m] EXCEPT ![c].input = calls[c].input, ![c].written = TRUE]
    BY <1>5 DEF Write
  <2>2. \A d \in Calls : rows'[m][d].input = IF d = c THEN calls[c].input ELSE rows[m][d].input
    BY <1>4, <2>1 DEF RowRecord
  <2> DEFINE F == Inputs(m)
             G == [d \in Calls |-> rows'[m][d].input]
  <2>3. /\ F \in [Calls -> Nat] /\ F[c] = 0 /\ G \in [Calls -> Nat]
        /\ \A d \in Calls : d # c => G[d] = F[d]
    BY <1>2, <1>3, <1>4, <2>2 DEF Inputs, RowRecord
  <2>4. S \subseteq Calls /\ IsFiniteSet(Calls) BY LedgerAssumption
  <2>5. G[c] = calls[c].input BY <2>2
  <2>6. SumFunctionOnSet(G, S) = SumFunctionOnSet(F, S) + (IF c \in S THEN G[c] ELSE 0)
    <3> HIDE DEF F, G, S
    <3> QED BY <2>3, <2>4, SumOneMore
  <2>7. InputOf(m, C)' = SumFunctionOnSet(G, S) BY DEF InputOf
  <2>8. InputOf(m, C) = SumFunctionOnSet(F, S) BY DEF InputOf, Inputs
  <2>9. InputOf(m, C)' = InputOf(m, C) + (IF c \in S THEN calls[c].input ELSE 0)
    <3> HIDE DEF F, G, S
    <3> QED BY <2>5, <2>6, <2>7, <2>8
  <2> QED BY <1>5, <2>9
<1>6. CASE m \notin calls[c].managers
  <2>1. rows'[m] = rows[m] BY <1>6 DEF Write
  <2>2. InputOf(m, C)' = InputOf(m, C) BY <2>1 DEF InputOf
  <2>3. SumFunctionOnSet(Inputs(m), S) \in Nat
    <3>1. S \subseteq Calls OBVIOUS
    <3> HIDE DEF S
    <3> QED BY <3>1, <1>2, SumMonotone, LedgerAssumption
  <2>4. InputOf(m, C) \in Nat BY <2>3 DEF InputOf, Inputs
  <2> QED BY <1>6, <2>2, <2>4
<1> QED BY <1>5, <1>6

\* The limits hold at the start.
LEMMA LimitInvInit == LedgerInit => LimitInv
<1> SUFFICES ASSUME LedgerInit PROVE LimitInv OBVIOUS
<1>1. RowInv BY RowInvInit
<1>2. OneGated BY DEF LedgerInit, OneGated
<1>3. \A m \in Managers : \A c \in Calls : Inputs(m)[c] = 0 BY DEF LedgerInit, Inputs, NoRow
<1>4. ASSUME NEW m \in Managers, NEW C, C \subseteq Calls PROVE InputOf(m, C) = 0
  <2> DEFINE S == {c \in C : Paid[c]}
             zero == [c \in Calls |-> 0]
             P == {s \in SUBSET S : SumFunctionOnSet(zero, s) # 0}
  <2>1. IsFiniteSet(S) /\ S \subseteq Calls BY <1>4, FS_Subset, LedgerAssumption
  <2>2. SumFunctionOnSet(zero, S) = 0
    <3> SUFFICES ASSUME P # {} PROVE FALSE OBVIOUS
    <3>1. PICK U \in P : \A V \in P : V \subseteq U => V = U
      <4>1. P \subseteq SUBSET S OBVIOUS
      <4> HIDE DEF P, S
      <4> QED BY <2>1, <4>1, FiniteLeast
    <3>2. U # {} BY <3>1, SumEmpty
    <3>3. PICK x : x \in U BY <3>2
    <3>4. IsFiniteSet(U) /\ U \subseteq S BY <2>1, FS_Subset
    <3>5. SumFunctionOnSet(zero, U \ {x}) = 0 BY <3>1, <3>3, <3>4
    <3>6. \A c \in U : zero[c] = 0 BY <2>1, <3>4
    <3>7. SumFunctionOnSet(zero, U) = zero[x] + SumFunctionOnSet(zero, U \ {x})
      <4> HIDE DEF zero, P, S
      <4> QED BY <3>3, <3>4, <3>6, SumRemove
    <3> QED BY <3>1, <3>3, <3>5, <3>6, <3>7
  <2>3. [c \in Calls |-> rows[m][c].input] = zero BY <1>3 DEF Inputs
  <2> QED BY <2>2, <2>3 DEF InputOf
<1>5. \A K : OfKind(K) \subseteq Calls BY DEF OfKind
<1>6. ReserveIsKept BY <1>4, <1>5, LedgerAssumption DEF ReserveIsKept, GatedIn, LedgerInit
<1>7. InputOverrunBounded BY <1>4, <1>5, LedgerAssumption DEF InputOverrunBounded
<1>8. TailHasItsReserve BY DEF TailHasItsReserve, OfKind, LedgerInit
<1> QED BY <1>1, <1>2, <1>6, <1>7, <1>8 DEF LimitInv

\* A step that lets no call pass its check and changes no input keeps the limits, if
\* a call of the tail is only refused once the reserve is outgrown.
LEMMA QuietLimits ==
  ASSUME LimitInv, RowInv',
         \A m \in Managers : \A c \in Calls : rows'[m][c].input = rows[m][c].input,
         \A c \in Calls : calls'[c].phase = "gated" =>
           calls[c].phase = "gated" /\ calls'[c].managers = calls[c].managers,
         \A c \in OfKind({"tail"}) : calls'[c].phase = "refused" =>
           /\ calls'[c].managers = calls[c].managers /\ calls'[c].input = calls[c].input
           /\ \/ calls[c].phase = "refused"
              \/ \E m \in Limited(c) :
                   calls[c].input + InputOf(m, OfKind({"tail", "research", "thread"})) > ReservedTokens
  PROVE  LimitInv'
<1> USE DEF LimitInv
<1>1. \A m \in Managers : \A C : InputOf(m, C)' = InputOf(m, C) BY InputsStay
<1>2. OneGated' BY DEF OneGated
<1>3. \A m \in Managers : GatedIn(m)' => GatedIn(m) BY DEF GatedIn
<1>4. \A m \in Managers : InputOf(m, OfKind({"gated"})) \in Nat BY InputsAdd
<1>5. ReserveIsKept'
  <2> SUFFICES ASSUME NEW m \in Managers \ {0}
               PROVE  InputOf(m, OfKind({"gated"}))' + (IF GatedIn(m)' THEN Expected ELSE 0)
                        <= InputLimit - ReservedTokens
    BY DEF ReserveIsKept, OfKind
  <2>1. InputOf(m, OfKind({"gated"}))' = InputOf(m, OfKind({"gated"})) BY <1>1 DEF OfKind
  <2>2. InputOf(m, OfKind({"gated"})) + (IF GatedIn(m) THEN Expected ELSE 0)
          <= InputLimit - ReservedTokens
    BY DEF ReserveIsKept
  <2> QED BY <1>3, <1>4, <2>1, <2>2, LedgerAssumption
<1>6. InputOverrunBounded' BY <1>1 DEF InputOverrunBounded, OfKind
<1>7. TailHasItsReserve'
  <2> SUFFICES ASSUME NEW c \in OfKind({"tail"}), calls'[c].phase = "refused"
               PROVE  \E m \in calls'[c].managers \ {0} :
                        calls'[c].input + InputOf(m, OfKind({"tail", "research", "thread"}))' > ReservedTokens
    BY DEF TailHasItsReserve, OfKind, Limited
  <2>1. PICK m \in Limited(c) :
          calls[c].input + InputOf(m, OfKind({"tail", "research", "thread"})) > ReservedTokens
    BY DEF TailHasItsReserve
  <2>2. m \in Managers
    BY <2>1 DEF Limited, RowInv, LedgerTypes, CallRecord, OfKind
  <2>3. InputOf(m, OfKind({"tail", "research", "thread"}))' = InputOf(m, OfKind({"tail", "research", "thread"}))
    BY <1>1, <2>2 DEF OfKind
  <2> QED BY <2>1, <2>3 DEF Limited
<1> QED BY <1>2, <1>5, <1>6, <1>7

\* A call that passes its check is the only one of its attempt, and what is sent by
\* then leaves room for it.
LEMMA GateLimits ==
  ASSUME LimitInv, RowInv', NEW c \in Calls, Gate(c), Goes(c, "gated"), ~WouldBreachInputReserve(c)
  PROVE  LimitInv'
<1> USE DEF LimitInv
<1>1. Kind[c] = "gated" /\ calls[c].phase = "ready" /\ rows' = rows BY DEF Gate
<1>2. "gated" \in Phases BY DEF Phases
<1>3. /\ calls'[c].phase = "gated" /\ \A d \in Calls : d # c => calls'[d] = calls[d]
      /\ \A d \in Calls : calls'[d].managers = calls[d].managers /\ calls'[d].input = calls[d].input
  BY <1>2, GoesFits
<1>4. \A m \in Managers : \A C : InputOf(m, C)' = InputOf(m, C) BY <1>1, InputsStay
<1>5. OneGated'
  <2> SUFFICES ASSUME NEW d \in Calls, calls'[d].phase = "gated", d # c,
                      calls[d].managers = calls[c].managers
               PROVE  FALSE
    BY <1>3 DEF OneGated
  <2>1. calls[d].phase = "gated" /\ Kind[d] = "gated" BY <1>3 DEF RowInv, CallsFit
  <2> QED BY <2>1 DEF Gate, Siblings
<1>6. ReserveIsKept'
  <2> SUFFICES ASSUME NEW m \in Managers \ {0}
               PROVE  InputOf(m, OfKind({"gated"}))' + (IF GatedIn(m)' THEN Expected ELSE 0)
                        <= InputLimit - ReservedTokens
    BY DEF ReserveIsKept, OfKind
  <2>1. InputOf(m, OfKind({"gated"}))' = InputOf(m, OfKind({"gated"})) BY <1>4 DEF OfKind
  <2>2. InputOf(m, OfKind({"gated"})) + (IF GatedIn(m) THEN Expected ELSE 0)
          <= InputLimit - ReservedTokens
    BY DEF ReserveIsKept
  <2>3. InputOf(m, OfKind({"gated"})) \in Nat /\ InputOf(m, Calls) \in Nat
        /\ InputOf(m, OfKind({"gated"})) <= InputOf(m, Calls)
    <3>1. InputOf(m, OfKind({"tail", "research", "thread"})) \in Nat BY InputsAdd
    <3> QED BY <3>1, InputsAdd
  <2>4. CASE m \in calls[c].managers
    <3>1. ~(InputOf(m, Calls) + Expected > InputLimit - ReservedTokens)
      BY <2>4 DEF WouldBreachInputReserve, Limited
    <3> QED BY <2>1, <2>3, <3>1, LedgerAssumption
  <2>5. CASE m \notin calls[c].managers
    <3>1. GatedIn(m)' => GatedIn(m) BY <1>3, <2>5 DEF GatedIn
    <3> QED BY <2>1, <2>2, <2>3, <3>1, LedgerAssumption
  <2> QED BY <2>4, <2>5
<1>7. InputOverrunBounded' BY <1>4 DEF InputOverrunBounded, OfKind
<1>8. TailHasItsReserve'
  <2> SUFFICES ASSUME NEW d \in OfKind({"tail"}), calls'[d].phase = "refused"
               PROVE  \E m \in calls'[d].managers \ {0} :
                        calls'[d].input + InputOf(m, OfKind({"tail", "research", "thread"}))' > ReservedTokens
    BY DEF TailHasItsReserve, OfKind, Limited
  <2>1. calls[d].phase = "refused" /\ calls'[d] = calls[d] BY <1>1, <1>3 DEF OfKind
  <2>2. PICK m \in Limited(d) :
          calls[d].input + InputOf(m, OfKind({"tail", "research", "thread"})) > ReservedTokens
    BY <2>1 DEF TailHasItsReserve
  <2>3. m \in Managers BY <2>2 DEF Limited, RowInv, LedgerTypes, CallRecord, OfKind
  <2>4. InputOf(m, OfKind({"tail", "research", "thread"}))' = InputOf(m, OfKind({"tail", "research", "thread"}))
    BY <1>4, <2>3 DEF OfKind
  <2> QED BY <2>1, <2>2, <2>4 DEF Limited
<1> QED BY <1>5, <1>6, <1>7, <1>8

\* Sending keeps the limits: a gated call takes the room it was given, another one on
\* the event loop fits, and a thread's adds as much to both sides.
LEMMA SendLimits ==
  ASSUME LimitInv, RowInv', NEW c \in Calls, calls[c].phase \in {"ready", "gated", "checked"},
         Kind[c] = "gated" => calls[c].phase = "gated",
         Kind[c] # "thread" => ~NoRoom(c),
         Goes(c, "open"), Write(c)
  PROVE  LimitInv'
<1> USE DEF LimitInv
<1> DEFINE others == OfKind({"tail", "research", "thread"})
<1>1. "open" \in Phases BY DEF Phases
<1>2. /\ calls'[c].phase = "open" /\ \A d \in Calls : d # c => calls'[d] = calls[d]
      /\ \A d \in Calls : calls'[d].managers = calls[d].managers /\ calls'[d].input = calls[d].input
  BY <1>1, GoesFits
<1>3. calls[c].input \in Nat BY DEF RowInv, LedgerTypes, CallRecord
<1>4. ASSUME NEW m \in Managers, NEW C, C \subseteq Calls
      PROVE  InputOf(m, C)' = InputOf(m, C) + (IF m \in calls[c].managers /\ c \in C /\ Paid[c]
                                               THEN calls[c].input ELSE 0)
  BY <1>4, InputsGrow
<1>5. \A K : OfKind(K) \subseteq Calls BY DEF OfKind
<1>6. OneGated' BY <1>2 DEF OneGated
<1>7. ReserveIsKept'
  <2> SUFFICES ASSUME NEW m \in Managers \ {0}
               PROVE  InputOf(m, OfKind({"gated"}))' + (IF GatedIn(m)' THEN Expected ELSE 0)
                        <= InputLimit - ReservedTokens
    BY DEF ReserveIsKept, OfKind
  <2>1. InputOf(m, OfKind({"gated"})) + (IF GatedIn(m) THEN Expected ELSE 0)
          <= InputLimit - ReservedTokens
    BY DEF ReserveIsKept
  <2>2. InputOf(m, OfKind({"gated"})) \in Nat BY InputsAdd
  <2>3. InputOf(m, OfKind({"gated"}))' =
          InputOf(m, OfKind({"gated"})) + (IF m \in calls[c].managers /\ c \in OfKind({"gated"}) /\ Paid[c]
                                           THEN calls[c].input ELSE 0)
    BY <1>4, <1>5 DEF OfKind
  <2>4. GatedIn(m)' => GatedIn(m) BY <1>2 DEF GatedIn
  <2>5. CASE m \in calls[c].managers /\ Kind[c] = "gated"
    <3>1. calls[c].phase = "gated" /\ calls[c].input <= Expected BY <2>5 DEF RowInv, CallsFit
    <3>2. ASSUME NEW d \in Calls, calls'[d].phase = "gated", m \in calls'[d].managers PROVE FALSE
      <4>1. d # c /\ calls[d].phase = "gated" /\ m \in calls[d].managers BY <1>2, <3>2
      <4>2. (\E a \in 1..LastAttempt : calls[d].managers = {0, a})
            /\ (\E a \in 1..LastAttempt : calls[c].managers = {0, a})
        BY <3>1, <4>1 DEF RowInv, CallsFit
      <4>3. calls[d].managers = calls[c].managers BY <2>5, <4>1, <4>2
      <4> QED BY <3>1, <4>1, <4>3 DEF OneGated
    <3>3. ~GatedIn(m)' BY <3>2 DEF GatedIn
    <3>4. GatedIn(m) BY <2>5, <3>1 DEF GatedIn
    <3> QED BY <1>3, <2>1, <2>2, <2>3, <3>1, <3>3, <3>4, LedgerAssumption
  <2>6. CASE m \notin calls[c].managers \/ Kind[c] # "gated"
    <3>1. InputOf(m, OfKind({"gated"}))' = InputOf(m, OfKind({"gated"}))
      BY <2>2, <2>3, <2>6 DEF OfKind
    <3> QED BY <2>1, <2>2, <2>4, <3>1, LedgerAssumption
  <2> QED BY <2>5, <2>6
<1>8. InputOverrunBounded'
  <2> SUFFICES ASSUME NEW m \in Managers \ {0}
               PROVE  InputOf(m, Calls)' <= InputLimit + InputOf(m, OfKind({"thread"}))'
    BY DEF InputOverrunBounded, OfKind
  <2>1. InputOf(m, Calls) <= InputLimit + InputOf(m, OfKind({"thread"})) BY DEF InputOverrunBounded
  <2>2. InputOf(m, Calls) \in Nat /\ InputOf(m, OfKind({"thread"})) \in Nat BY InputsAdd
  <2>3. InputOf(m, Calls)' =
          InputOf(m, Calls) + (IF m \in calls[c].managers /\ Paid[c] THEN calls[c].input ELSE 0)
    BY <1>4
  <2>4. InputOf(m, OfKind({"thread"}))' =
          InputOf(m, OfKind({"thread"})) + (IF m \in calls[c].managers /\ c \in OfKind({"thread"}) /\ Paid[c]
                                            THEN calls[c].input ELSE 0)
    BY <1>4, <1>5 DEF OfKind
  <2>5. CASE m \in calls[c].managers /\ Paid[c] /\ Kind[c] = "thread"
    BY <1>3, <2>1, <2>2, <2>3, <2>4, <2>5, LedgerAssumption DEF OfKind
  <2>6. CASE m \in calls[c].managers /\ Paid[c] /\ Kind[c] # "thread"
    <3>1. ~(InputOf(m, Calls) + calls[c].input > InputLimit) BY <2>6 DEF NoRoom, Limited
    <3> QED BY <1>3, <2>2, <2>3, <2>4, <2>6, <3>1, LedgerAssumption DEF OfKind
  <2>7. CASE ~(m \in calls[c].managers /\ Paid[c])
    BY <2>1, <2>2, <2>3, <2>4, <2>7, LedgerAssumption
  <2> QED BY <2>5, <2>6, <2>7
<1>9. TailHasItsReserve'
  <2> SUFFICES ASSUME NEW d \in OfKind({"tail"}), calls'[d].phase = "refused"
               PROVE  \E m \in calls'[d].managers \ {0} : calls'[d].input + InputOf(m, others)' > ReservedTokens
    BY DEF TailHasItsReserve, OfKind, Limited
  <2>1. calls[d].phase = "refused" /\ calls'[d] = calls[d] /\ d \in Calls BY <1>2 DEF OfKind
  <2>2. PICK m \in Limited(d) : calls[d].input + InputOf(m, others) > ReservedTokens
    BY <2>1 DEF TailHasItsReserve
  <2>3. m \in Managers /\ calls[d].input \in Nat
    BY <2>1, <2>2 DEF Limited, RowInv, LedgerTypes, CallRecord
  <2>4. InputOf(m, others)' = InputOf(m, others) + (IF m \in calls[c].managers /\ c \in others /\ Paid[c]
                                                    THEN calls[c].input ELSE 0)
    BY <1>4, <1>5, <2>3 DEF OfKind
  <2>5. InputOf(m, others) \in Nat BY <2>3, InputsAdd
  <2>6. calls[d].input + InputOf(m, others)' > ReservedTokens
    <3> HIDE DEF others
    <3> QED BY <1>3, <2>2, <2>3, <2>4, <2>5, LedgerAssumption
  <2> QED BY <2>1, <2>2, <2>6 DEF Limited
<1> QED BY <1>6, <1>7, <1>8, <1>9

\* A call of the tail that is refused has outgrown the reserve with the tail and the
\* research that does not ask for it.
LEMMA RefusedBeyondReserve ==
  ASSUME LimitInv, NEW c \in Calls, Kind[c] = "tail", calls[c].phase = "ready", NoRoom(c)
  PROVE  \E m \in Limited(c) :
           calls[c].input + InputOf(m, OfKind({"tail", "research", "thread"})) > ReservedTokens
<1> USE DEF LimitInv
<1>1. PICK m \in Limited(c) : InputOf(m, Calls) + calls[c].input > InputLimit BY DEF NoRoom
<1>2. m \in Managers \ {0} /\ calls[c].input \in Nat
  BY <1>1 DEF Limited, RowInv, LedgerTypes, CallRecord
<1>3. InputOf(m, OfKind({"gated"})) + (IF GatedIn(m) THEN Expected ELSE 0)
        <= InputLimit - ReservedTokens
  BY <1>2 DEF ReserveIsKept
<1>4. /\ InputOf(m, OfKind({"gated"})) \in Nat
      /\ InputOf(m, OfKind({"tail", "research", "thread"})) \in Nat
      /\ InputOf(m, Calls) = InputOf(m, OfKind({"gated"}))
                             + InputOf(m, OfKind({"tail", "research", "thread"}))
  BY <1>2, InputsAdd
<1>5. InputOf(m, OfKind({"gated"})) <= InputLimit - ReservedTokens
  BY <1>3, <1>4, LedgerAssumption
<1>6. calls[c].input + InputOf(m, OfKind({"tail", "research", "thread"})) > ReservedTokens
  BY <1>1, <1>2, <1>4, <1>5, LedgerAssumption
<1> QED BY <1>1, <1>6

\* Every step keeps the limits.
LEMMA LimitInvNext == LimitInv /\ [LedgerNext]_ledgerVars => LimitInv'
<1> SUFFICES ASSUME LimitInv, [LedgerNext]_ledgerVars PROVE LimitInv' OBVIOUS
<1>1. RowInv' BY RowInvNext DEF LimitInv
<1>2. ASSUME NEW c \in Calls, NEW p \in Phases, Goes(c, p)
      PROVE  /\ calls'[c].phase = p /\ \A d \in Calls : d # c => calls'[d] = calls[d]
             /\ \A d \in Calls : calls'[d].managers = calls[d].managers /\ calls'[d].input = calls[d].input
  BY <1>2, GoesFits DEF LimitInv
<1>3. {"skipped", "gated", "refused", "checked", "open", "answered", "failed", "over"} \subseteq Phases
  BY DEF Phases
<1>4. CASE Enter BY <1>1, <1>4, QuietLimits DEF Enter
<1>5. CASE Exit BY <1>1, <1>5, QuietLimits DEF Exit
<1>6. ASSUME NEW c \in Calls, Spawn(c) PROVE LimitInv'
  <2>1. \A d \in Calls : d # c => calls'[d] = calls[d]
    BY <1>6 DEF Spawn, LimitInv, RowInv, LedgerTypes
  <2>2. calls'[c].phase = "ready" BY <1>6 DEF Spawn, LimitInv, RowInv, LedgerTypes
  <2>3. rows' = rows BY <1>6 DEF Spawn
  <2> QED BY <1>1, <2>1, <2>2, <2>3, QuietLimits DEF OfKind
<1>7. ASSUME NEW c \in Calls, Gate(c) PROVE LimitInv'
  <2>1. CASE WouldBreachInputReserve(c)
    <3>1. Goes(c, "skipped") /\ rows' = rows BY <1>7, <2>1 DEF Gate
    <3> QED BY <1>1, <1>2, <1>3, <3>1, QuietLimits DEF OfKind
  <2>2. CASE ~WouldBreachInputReserve(c)
    <3>1. Goes(c, "gated") BY <1>7, <2>2 DEF Gate
    <3> QED BY <1>1, <1>7, <2>2, <3>1, GateLimits
  <2> QED BY <2>1, <2>2
<1>8. ASSUME NEW c \in Calls, Start(c) PROVE LimitInv'
  <2>1. CASE NoRoom(c)
    <3>1. Goes(c, "refused") /\ rows' = rows BY <1>8, <2>1 DEF Start
    <3>2. Kind[c] = "tail" => calls[c].phase = "ready" BY <1>8 DEF Start
    <3>3. Kind[c] = "tail" => \E m \in Limited(c) :
            calls[c].input + InputOf(m, OfKind({"tail", "research", "thread"})) > ReservedTokens
      BY <2>1, <3>2, RefusedBeyondReserve
    <3> QED BY <1>1, <1>2, <1>3, <3>1, <3>3, QuietLimits DEF OfKind
  <2>2. CASE ~NoRoom(c)
    <3>1. /\ Goes(c, "open") /\ Write(c)
          /\ calls[c].phase \in {"ready", "gated", "checked"}
          /\ Kind[c] = "gated" => calls[c].phase = "gated"
      BY <1>8, <2>2 DEF Start
    <3> QED BY <1>1, <2>2, <3>1, SendLimits
  <2> QED BY <2>1, <2>2
<1>9. ASSUME NEW c \in Calls, Check(c) PROVE LimitInv'
  <2>1. PICK p \in {"refused", "checked"} : Goes(c, p) BY <1>9 DEF Check
  <2>2. rows' = rows /\ Kind[c] = "thread" BY <1>9 DEF Check
  <2> QED BY <1>1, <1>2, <1>3, <2>1, <2>2, QuietLimits DEF OfKind
<1>10. ASSUME NEW c \in Calls, AppendRow(c) PROVE LimitInv'
  <2>1. Kind[c] = "thread" /\ calls[c].phase = "checked" /\ Goes(c, "open") /\ Write(c)
    BY <1>10 DEF AppendRow, LimitInv, RowInv, CallsFit
  <2> QED BY <1>1, <2>1, SendLimits
<1>11. ASSUME NEW c \in Calls, NEW n, NEW e, NEW p \in {"answered", "failed"}, Close(c, n, e, p)
       PROVE  LimitInv'
  <2>1. PICK q \in {"answered", "failed", "over"} : Goes(c, q) BY <1>11 DEF Close
  <2>2. \A m \in Managers : rows[m] \in [Calls -> RowRecord] BY DEF LimitInv, RowInv, LedgerTypes
  <2>3. \A m \in Managers : \A d \in Calls : rows'[m][d].input = rows[m][d].input
    BY <1>11, <2>2 DEF Close, Record, RowRecord
  <2> QED BY <1>1, <1>2, <1>3, <2>1, <2>3, QuietLimits DEF OfKind
<1>12. ASSUME NEW c \in Calls, Answer(c) PROVE LimitInv' BY <1>11, <1>12 DEF Answer
<1>13. ASSUME NEW c \in Calls, Fail(c) PROVE LimitInv' BY <1>11, <1>13 DEF Fail
<1>14. ASSUME NEW c \in Calls, FailUnrecorded(c) PROVE LimitInv'
  <2>1. Goes(c, "failed") /\ rows' = rows BY <1>14 DEF FailUnrecorded
  <2> QED BY <1>1, <1>2, <1>3, <2>1, QuietLimits DEF OfKind
<1>15. CASE UNCHANGED ledgerVars BY <1>1, <1>15, QuietLimits DEF ledgerVars
<1> QED BY <1>4, <1>5, <1>6, <1>7, <1>8, <1>9, <1>10, <1>12, <1>13, <1>14, <1>15 DEF LedgerNext

\* MonetaryCostManager: an attempt's input budget is overrun by calls from threads only,
\* and a call of the compiler or the forecasters is refused only when the tail and the
\* research that does not ask for the reserve have outgrown it, for any calls, sizes,
\* limits and attempts.
THEOREM LimitsAlwaysHold == LedgerSpec => []LimitsHold
<1>1. LimitInv => LimitsHold BY DEF LimitInv, LimitsHold
<1> QED BY <1>1, LimitInvInit, LimitInvNext, PTL DEF LedgerSpec

(***************************************************************************)
(* FetchLadder, for every set of fetches and URLs, every                   *)
(* canonical form and every size of adequate text.                         *)
(*                                                                         *)
(* Of the fetches of one key only the one that claimed it climbs, so the   *)
(* key's place in the cache is written by that fetch alone; while it       *)
(* climbs, `best' is the longest text it saw, and thin.                    *)
(***************************************************************************)

\* The fetches that called a rung, or are about to.
Climber(f) == Climbing(f) \/ seen[f] # {} \/ Fetched(f)

ClaimsHold ==
    /\ \A f \in Fetches : Climber(f) => url[f] \in Urls /\ Key[url[f]] \in claimed
    /\ \A f, g \in Fetches : f # g /\ Climber(f) /\ Climber(g) => Key[url[f]] # Key[url[g]]

\* A fetch that climbs knows the longest text that its rungs returned.
KnowsBest(f) ==
    /\ place[f] = "idle" => seen[f] = {} /\ best[f] = 0
    /\ place[f] = "adapter" => seen[f] = {}
    /\ Climbing(f) => best[f] < Full /\ \A size \in seen[f] : size <= best[f]
    /\ result[f].from # "none" => place[f] = "done"
    /\ place[f] \in {"idle"} \cup Rungs => result[f] = NoResult

LadderInv ==
    /\ LadderTypeOK /\ ClaimsHold
    /\ \A f \in Fetches : KnowsBest(f)
    /\ FetchedPageIsCached /\ LongestTextIsReturned /\ ThinIsMarked

(* Nothing has been fetched at the start. *)
LEMMA InitLadder == LadderInit => LadderInv
<1> SUFFICES ASSUME LadderInit PROVE LadderInv
  OBVIOUS
<1>1. LadderTypeOK
  <2>1. 0 \in TextSizes
    BY FullAssumption DEF TextSizes
  <2>2. NoPage \in Pages
    BY <2>1 DEF NoPage, Pages
  <2>3. NoResult \in [page : Pages, banner : BOOLEAN,
                      from : {"none", "cache", "duplicate", "adapter", "ladder",
                              "failed", "stopped"}]
    BY <2>2 DEF NoResult
  <2> QED BY <2>1, <2>2, <2>3 DEF LadderInit, LadderTypeOK
<1>2. \A f \in Fetches : ~Climber(f)
  BY DEF LadderInit, Climber, Climbing, Rungs, Fetched, NoResult
<1>3. \A f \in Fetches : KnowsBest(f)
  BY DEF LadderInit, KnowsBest, Climbing, Rungs, NoResult
<1> QED BY <1>1, <1>2, <1>3
        DEF LadderInit, LadderInv, ClaimsHold, FetchedPageIsCached, LongestTextIsReturned,
            ThinIsMarked, Fetched, NoResult

\* What a step of f leaves alone.
StepOf(f) ==
    \A g \in Fetches \ {f} :
        /\ url'[g] = url[g] /\ place'[g] = place[g] /\ best'[g] = best[g]
        /\ seen'[g] = seen[g] /\ result'[g] = result[g]

(* A step of f that touches only f's own place in the cache keeps what holds of *)
(* the other fetches.                                                           *)
LEMMA OthersKeep ==
    ASSUME LadderInv, NEW f \in Fetches, StepOf(f), LadderTypeOK',
           claimed \subseteq claimed',
           Climber(f)' => /\ url'[f] \in Urls /\ Key[url'[f]] \in claimed'
                          /\ \/ Climber(f) /\ url'[f] = url[f]
                             \/ Key[url'[f]] \notin claimed,
           cache' = cache \/ (Climber(f) /\ \A k \in Keys \ {Key[url[f]]} : cache'[k] = cache[k]),
           KnowsBest(f)',
           Fetched(f)' => /\ cache'[Key[url'[f]]] = result'[f].page
                          /\ \A size \in seen'[f] : size <= result'[f].page.size,
           result'[f].from = "failed" => seen'[f] \subseteq {0},
           result'[f].from \in {"ladder", "cache"} =>
               result'[f].banner = Thin(result'[f].page.size)
    PROVE  LadderInv'
<1>1. \A g \in Fetches \ {f} : /\ Climber(g)' <=> Climber(g)
                               /\ Fetched(g)' <=> Fetched(g)
                               /\ KnowsBest(g)' <=> KnowsBest(g)
  BY DEF StepOf, Climber, Climbing, Fetched, KnowsBest
<1>2. ClaimsHold'
  BY <1>1 DEF LadderInv, ClaimsHold, StepOf
<1>3. ASSUME NEW g \in Fetches, Fetched(g)'
      PROVE  cache'[Key[url'[g]]] = result'[g].page
  <2>1. CASE g = f
    BY <1>3, <2>1
  <2>2. CASE g # f
    <3>1. /\ url'[g] = url[g] /\ result'[g] = result[g] /\ Climber(g) /\ url[g] \in Urls
          /\ cache[Key[url[g]]] = result[g].page
      BY <1>1, <1>3, <2>2
         DEF StepOf, Climber, LadderInv, ClaimsHold, FetchedPageIsCached
    <3>2. Climber(f) => Key[url[g]] # Key[url[f]]
      BY <2>2, <3>1 DEF LadderInv, ClaimsHold
    <3>3. Key[url[g]] \in Keys
      BY <3>1 DEF Keys
    <3> QED BY <3>1, <3>2, <3>3
  <2> QED BY <2>1, <2>2
<1>4. LongestTextIsReturned' /\ ThinIsMarked'
  BY <1>1 DEF LadderInv, LongestTextIsReturned, ThinIsMarked, StepOf
<1> QED BY <1>1, <1>2, <1>3, <1>4 DEF LadderInv, FetchedPageIsCached

-----------------------------------------------------------------------------
Froms == {"none", "cache", "duplicate", "adapter", "ladder", "failed", "stopped"}

(* Ending a fetch. *)
LEMMA ReturnType ==
    ASSUME LadderTypeOK, NEW f \in Fetches, NEW page \in Pages, NEW banner \in BOOLEAN,
           NEW from \in Froms, Return(f, page, banner, from)
    PROVE  /\ place' \in [Fetches -> Rungs \cup {"idle", "done"}]
           /\ result' \in [Fetches -> [page : Pages, banner : BOOLEAN, from : Froms]]
           /\ place'[f] = "done"
           /\ result'[f] = [page |-> page, banner |-> banner, from |-> from]
           /\ \A g \in Fetches \ {f} : place'[g] = place[g] /\ result'[g] = result[g]
  BY DEF LadderTypeOK, Return, Froms

(* Recording a text of f. *)
LEMMA RecordType ==
    ASSUME LadderTypeOK, NEW f \in Fetches, url[f] \in Urls, NEW size \in TextSizes,
           RecordText(f, size)
    PROVE  /\ Page(f, size) \in Pages /\ cache' \in [Keys -> Pages]
           /\ size > 0 => cache'[Key[url[f]]] = Page(f, size)
           /\ \A k \in Keys \ {Key[url[f]]} : cache'[k] = cache[k]
<1>1. Page(f, size) \in Pages
  BY DEF Page, Pages
<1>2. Key[url[f]] \in Keys /\ cache \in [Keys -> Pages]
  BY DEF Keys, LadderTypeOK
<1>3. \/ cache' = [cache EXCEPT ![Key[url[f]]] = Page(f, size)]
      \/ ~(size > 0) /\ cache' = cache
  BY DEF RecordText
<1> QED BY <1>1, <1>2, <1>3

(* A climber's URL is one. *)
LEMMA ClimberUrl ==
    ASSUME LadderInv, NEW f \in Fetches, Climbing(f)
    PROVE  /\ Climber(f) /\ url[f] \in Urls /\ Key[url[f]] \in claimed
           /\ best[f] < Full /\ \A size \in seen[f] : size <= best[f]
           /\ result[f] = NoResult
  BY DEF LadderInv, ClaimsHold, Climber, KnowsBest, Climbing

(* The first to fetch a URL. *)
LEMMA ClaimKeeps ==
    ASSUME LadderInv, NEW f \in Fetches, NEW u \in Urls, Claim(f, u)
    PROVE  LadderInv'
<1>1. LadderTypeOK /\ KnowsBest(f) /\ place[f] = "idle" /\ Key[u] \notin claimed
  BY DEF LadderInv, Claim
<1>2. /\ url' = [url EXCEPT ![f] = u] /\ url'[f] = u
      /\ place'[f] \in {"adapter", "firecrawl"}
      /\ place' \in [Fetches -> Rungs \cup {"idle", "done"}]
      /\ UNCHANGED <<cache, best, seen, result>> /\ claimed' = claimed \cup {Key[u]}
  BY <1>1 DEF Claim, LadderTypeOK, Rungs
<1>3. StepOf(f)
  BY <1>1, <1>2 DEF Claim, StepOf, LadderTypeOK
<1>4. LadderTypeOK'
  BY <1>1, <1>2 DEF LadderTypeOK, Keys
<1>5. seen[f] = {} /\ best[f] = 0 /\ result[f] = NoResult /\ NoResult.from = "none"
  BY <1>1 DEF KnowsBest, NoResult
<1>6. KnowsBest(f)'
  BY <1>2, <1>5, FullAssumption DEF KnowsBest, Rungs
<1>7. ~Fetched(f)'
  BY <1>2, <1>5 DEF Fetched
<1> QED BY <1>1, <1>2, <1>3, <1>4, <1>5, <1>6, <1>7, OthersKeep

(* A later one. *)
LEMMA DuplicateKeeps ==
    ASSUME LadderInv, NEW f \in Fetches, NEW u \in Urls, Duplicate(f, u)
    PROVE  LadderInv'
<1>1. LadderTypeOK /\ KnowsBest(f) /\ place[f] = "idle"
  BY DEF LadderInv, Duplicate
<1>2. seen[f] = {} /\ best[f] = 0
  BY <1>1 DEF KnowsBest
<1>3. /\ cache[Key[u]] \in Pages /\ NoPage \in Pages
      /\ Thin(cache[Key[u]].size) \in BOOLEAN
  <2>1. 0 \in TextSizes
    BY FullAssumption DEF TextSizes
  <2> QED BY <1>1, <2>1 DEF LadderTypeOK, Keys, NoPage, Pages, Thin
<1>4. PICK page \in Pages, banner \in BOOLEAN, from \in {"cache", "duplicate"} :
         /\ Return(f, page, banner, from)
         /\ from = "cache" => banner = Thin(page.size)
  BY <1>3 DEF Duplicate
<1>5. /\ place' \in [Fetches -> Rungs \cup {"idle", "done"}]
      /\ result' \in [Fetches -> [page : Pages, banner : BOOLEAN, from : Froms]]
      /\ place'[f] = "done"
      /\ result'[f] = [page |-> page, banner |-> banner, from |-> from]
      /\ \A g \in Fetches \ {f} : place'[g] = place[g] /\ result'[g] = result[g]
  BY <1>1, <1>4, ReturnType DEF Froms
<1>6. url' = [url EXCEPT ![f] = u] /\ UNCHANGED <<claimed, cache, best, seen>>
  BY DEF Duplicate
<1>7. StepOf(f)
  BY <1>1, <1>5, <1>6 DEF StepOf, LadderTypeOK
<1>8. LadderTypeOK'
  BY <1>1, <1>5, <1>6 DEF LadderTypeOK, Froms
<1>9. KnowsBest(f)' /\ ~Climber(f)' /\ ~Fetched(f)'
  BY <1>2, <1>4, <1>5, <1>6 DEF KnowsBest, Climber, Climbing, Fetched, Rungs
<1> QED BY <1>4, <1>5, <1>6, <1>7, <1>8, <1>9, OthersKeep

(* The steps of a climb that ends. *)
LEMMA EndKeeps ==
    ASSUME LadderInv, NEW f \in Fetches, Climbing(f), LadderTypeOK', StepOf(f),
           NEW page \in Pages, NEW banner \in BOOLEAN,
           NEW from \in {"adapter", "ladder", "failed", "stopped"},
           Return(f, page, banner, from), UNCHANGED <<claimed, url>>,
           \A k \in Keys \ {Key[url[f]]} : cache'[k] = cache[k],
           from \in {"adapter", "ladder"} =>
               /\ cache'[Key[url[f]]] = page
               /\ \A size \in seen'[f] : size <= page.size,
           from = "failed" => seen'[f] \subseteq {0},
           from = "ladder" => banner = Thin(page.size)
    PROVE  LadderInv'
<1>1. LadderTypeOK
  BY DEF LadderInv
<1>2. place'[f] = "done" /\ result'[f] = [page |-> page, banner |-> banner, from |-> from]
  <2>1. from \in Froms
    BY DEF Froms
  <2> QED BY <1>1, <2>1, ReturnType
<1>3. KnowsBest(f)'
  BY <1>2 DEF KnowsBest, Climbing, Rungs
<1>4. Climber(f) /\ url[f] \in Urls /\ Key[url[f]] \in claimed
  BY ClimberUrl
<1>5. Fetched(f)' => from \in {"adapter", "ladder"}
  BY <1>2 DEF Fetched
<1>6. result'[f].page = page /\ result'[f].banner = banner /\ result'[f].from = from
  BY <1>2
<1> QED BY <1>3, <1>4, <1>5, <1>6, OthersKeep

(* What a climber records, and what its fetch ends with, is typed. *)
LEMMA ClimbType ==
    ASSUME LadderInv, NEW f \in Fetches, Climbing(f), NEW size \in TextSizes,
           cache' = cache \/ RecordText(f, size), UNCHANGED <<claimed, url>>,
           place' \in [Fetches -> Rungs \cup {"idle", "done"}],
           result' \in [Fetches -> [page : Pages, banner : BOOLEAN, from : Froms]],
           best' \in [Fetches -> TextSizes], seen' \in [Fetches -> SUBSET TextSizes]
    PROVE  LadderTypeOK'
<1>1. LadderTypeOK /\ url[f] \in Urls
  BY ClimberUrl DEF LadderInv
<1>2. cache' \in [Keys -> Pages]
  BY <1>1, RecordType DEF LadderTypeOK
<1> QED BY <1>1, <1>2 DEF LadderTypeOK, Froms

(* A rung that ends the climb with its page. *)
LEMMA PageKeeps ==
    ASSUME LadderInv, NEW f \in Fetches, Climbing(f), NEW size \in TextSizes, size > 0,
           RecordText(f, size), NEW banner \in BOOLEAN, NEW from \in {"adapter", "ladder"},
           Return(f, Page(f, size), banner, from), UNCHANGED <<claimed, url, best>>,
           seen' \in {seen, [seen EXCEPT ![f] = @ \cup {size}]},
           \A s \in seen[f] : s <= size,
           from = "ladder" => banner = Thin(size)
    PROVE  LadderInv'
<1>1. LadderTypeOK /\ url[f] \in Urls
  BY ClimberUrl DEF LadderInv
<1>2. /\ Page(f, size) \in Pages
      /\ cache'[Key[url[f]]] = Page(f, size)
      /\ \A k \in Keys \ {Key[url[f]]} : cache'[k] = cache[k]
  BY <1>1, RecordType
<1>3. from \in Froms
  BY DEF Froms
<1>4. /\ place' \in [Fetches -> Rungs \cup {"idle", "done"}]
      /\ result' \in [Fetches -> [page : Pages, banner : BOOLEAN, from : Froms]]
      /\ \A g \in Fetches \ {f} : place'[g] = place[g] /\ result'[g] = result[g]
  BY <1>1, <1>2, <1>3 DEF Return, LadderTypeOK, Froms
<1>5. seen' \in [Fetches -> SUBSET TextSizes] /\ best' \in [Fetches -> TextSizes]
  BY <1>1 DEF LadderTypeOK
<1>6. LadderTypeOK'
  BY <1>4, <1>5, ClimbType
<1>7. StepOf(f)
  BY <1>1, <1>4 DEF StepOf, LadderTypeOK
<1>8. Page(f, size).size = size
  BY DEF Page
<1>9. \A s \in seen'[f] : s <= size
  BY <1>1, FullAssumption DEF LadderTypeOK, TextSizes
<1> QED BY <1>2, <1>6, <1>7, <1>8, <1>9, EndKeeps

(* A climb that ends with no page. *)
LEMMA NoPageKeeps ==
    ASSUME LadderInv, NEW f \in Fetches, Climbing(f), NEW from \in {"failed", "stopped"},
           Return(f, NoPage, FALSE, from), UNCHANGED <<claimed, url, cache, best, seen>>,
           from = "failed" => seen[f] \subseteq {0}
    PROVE  LadderInv'
<1>1. LadderTypeOK
  BY DEF LadderInv
<1>2. NoPage \in Pages
  <2>1. 0 \in TextSizes
    BY FullAssumption DEF TextSizes
  <2> QED BY <2>1 DEF NoPage, Pages
<1>3. PICK banner \in BOOLEAN : banner = FALSE /\ Return(f, NoPage, banner, from)
  OBVIOUS
<1>4. /\ place' \in [Fetches -> Rungs \cup {"idle", "done"}]
      /\ result' \in [Fetches -> [page : Pages, banner : BOOLEAN, from : Froms]]
      /\ \A g \in Fetches \ {f} : place'[g] = place[g] /\ result'[g] = result[g]
  <2>1. from \in Froms
    BY DEF Froms
  <2> QED BY <1>1, <1>2, <1>3, <2>1, ReturnType
<1>5. LadderTypeOK' /\ StepOf(f)
  BY <1>1, <1>4 DEF LadderTypeOK, StepOf, Froms
<1> QED BY <1>2, <1>3, <1>5, EndKeeps

(* A climb that goes on to the next rung. *)
LEMMA NextRungKeeps ==
    ASSUME LadderInv, NEW f \in Fetches, Climbing(f), NEW size \in TextSizes, size < Full,
           RecordText(f, size), NEW rung \in Rungs \ {"adapter"},
           place' = [place EXCEPT ![f] = rung],
           best' \in {best, [best EXCEPT ![f] = Longer(f, size)]},
           best' = best => size <= best[f],
           seen' = [seen EXCEPT ![f] = @ \cup {size}],
           UNCHANGED <<claimed, url, result>>
    PROVE  LadderInv'
<1>1. LadderTypeOK /\ Climber(f) /\ url[f] \in Urls /\ Key[url[f]] \in claimed
  BY ClimberUrl DEF LadderInv
<1>2. /\ best[f] < Full /\ best[f] \in Nat /\ size \in Nat
      /\ \A s \in seen[f] : s <= best[f] /\ s \in Nat
      /\ result[f] = NoResult
  BY <1>1, ClimberUrl, FullAssumption DEF LadderTypeOK, TextSizes
<1>3. Longer(f, size) \in TextSizes /\ Longer(f, size) < Full
  BY <1>1, <1>2 DEF Longer, LadderTypeOK
<1>4. \A s \in seen'[f] : s <= best'[f]
  <2>1. seen'[f] = seen[f] \cup {size}
    BY <1>1 DEF LadderTypeOK
  <2>2. CASE best' = best
    BY <1>2, <2>1, <2>2
  <2>3. CASE best' = [best EXCEPT ![f] = Longer(f, size)]
    BY <1>1, <1>2, <2>1, <2>3 DEF LadderTypeOK, Longer
  <2> QED BY <2>2, <2>3
<1>5. /\ best' \in [Fetches -> TextSizes] /\ best'[f] < Full
      /\ seen' \in [Fetches -> SUBSET TextSizes]
      /\ place' \in [Fetches -> Rungs \cup {"idle", "done"}] /\ place'[f] = rung
      /\ result' \in [Fetches -> [page : Pages, banner : BOOLEAN, from : Froms]]
  BY <1>1, <1>2, <1>3 DEF LadderTypeOK, Froms
<1>6. LadderTypeOK'
  BY <1>5, ClimbType
<1>7. StepOf(f)
  BY <1>1 DEF StepOf, LadderTypeOK
<1>8. KnowsBest(f)' /\ result'[f].from = "none"
  BY <1>2, <1>4, <1>5 DEF KnowsBest, Climbing, Rungs, NoResult
<1>9. \A k \in Keys \ {Key[url[f]]} : cache'[k] = cache[k]
  BY <1>1, RecordType
<1> QED BY <1>1, <1>6, <1>7, <1>8, <1>9, OthersKeep DEF Fetched

(* The site adapter. *)
LEMMA AdapterKeeps ==
    ASSUME LadderInv, NEW f \in Fetches, NEW size \in TextSizes, Adapter(f, size)
    PROVE  LadderInv'
<1>1. /\ Climbing(f) /\ LadderTypeOK /\ size \in Nat
      /\ RecordText(f, size) /\ UNCHANGED <<claimed, url, best>>
      /\ seen' = [seen EXCEPT ![f] = @ \cup {size}]
  BY FullAssumption DEF Adapter, Climbing, Rungs, LadderInv, TextSizes
<1>2. seen[f] = {}
  BY DEF Adapter, LadderInv, KnowsBest
<1>3. CASE size > 0
  <2>1. PICK banner \in BOOLEAN : banner = FALSE /\ Return(f, Page(f, size), banner, "adapter")
    BY <1>3 DEF Adapter
  <2> QED BY <1>1, <1>2, <1>3, <2>1, PageKeeps
<1>4. CASE ~(size > 0)
  <2>1. size = 0 /\ size < Full
    BY <1>1, <1>4, FullAssumption
  <2>2. /\ place' = [place EXCEPT ![f] = "firecrawl"] /\ result' = result
        /\ "firecrawl" \in Rungs \ {"adapter"}
    BY <1>4 DEF Adapter, Rungs
  <2>3. 0 <= best[f]
    BY <1>1 DEF LadderTypeOK, TextSizes
  <2> QED BY <1>1, <2>1, <2>2, <2>3, NextRungKeeps
<1> QED BY <1>3, <1>4

(* Any other rung. *)
LEMMA RungKeeps ==
    ASSUME LadderInv, NEW f \in Fetches, NEW size \in TextSizes,
           NEW rung \in Rungs, NEW next \in Rungs \ {"adapter"}, TryRung(f, rung, size, next)
    PROVE  LadderInv'
<1>1. /\ Climbing(f) /\ LadderTypeOK /\ size \in Nat /\ size <= Full /\ Full \in Nat \ {0}
      /\ RecordText(f, size) /\ UNCHANGED <<claimed, url>>
      /\ seen' = [seen EXCEPT ![f] = @ \cup {size}]
  BY FullAssumption DEF TryRung, Climbing, LadderInv, TextSizes
<1>2. CASE size = Full
  <2>1. PICK banner \in BOOLEAN :
          banner = FALSE /\ Return(f, Page(f, size), banner, "ladder")
    BY <1>2 DEF TryRung
  <2>2. best' = best /\ size > 0
    BY <1>1, <1>2 DEF TryRung
  <2>3. banner = Thin(size)
    BY <1>1, <1>2, <2>1 DEF Thin
  <2>4. \A s \in seen[f] : s <= size
    BY <1>1, <1>2 DEF LadderTypeOK, TextSizes
  <2> QED BY <1>1, <2>1, <2>2, <2>3, <2>4, PageKeeps
<1>3. CASE size # Full
  <2>1. /\ size < Full /\ place' = [place EXCEPT ![f] = next] /\ result' = result
        /\ best' = [best EXCEPT ![f] = Longer(f, size)]
    BY <1>1, <1>3 DEF TryRung
  <2>2. best' = best => size <= best[f]
    <3>1. best[f] \in Nat /\ best'[f] = Longer(f, size)
      BY <1>1, <2>1 DEF LadderTypeOK, TextSizes
    <3> QED BY <1>1, <3>1 DEF Longer
  <2> QED BY <1>1, <2>1, <2>2, NextRungKeeps
<1> QED BY <1>2, <1>3

(* The longest thin text, or a failure. *)
LEMMA BestKeeps ==
    ASSUME LadderInv, NEW f \in Fetches, BestAttempt(f)
    PROVE  LadderInv'
<1>1. /\ Climbing(f) /\ LadderTypeOK /\ best[f] \in TextSizes /\ best[f] \in Nat
      /\ RecordText(f, best[f]) /\ UNCHANGED <<claimed, url, best, seen>>
  BY FullAssumption DEF BestAttempt, Climbing, Rungs, LadderInv, LadderTypeOK, TextSizes
<1>2. best[f] < Full /\ \A s \in seen[f] : s <= best[f] /\ s \in Nat
  BY <1>1, ClimberUrl, FullAssumption DEF LadderTypeOK, TextSizes
<1>3. CASE best[f] > 0
  <2>1. PICK banner \in BOOLEAN :
          banner = TRUE /\ Return(f, Page(f, best[f]), banner, "ladder")
    BY <1>3 DEF BestAttempt
  <2>2. banner = Thin(best[f])
    BY <1>2, <1>3, <2>1 DEF Thin
  <2> QED BY <1>1, <1>2, <1>3, <2>1, <2>2, PageKeeps
<1>4. CASE ~(best[f] > 0)
  <2>1. seen[f] \subseteq {0} /\ cache' = cache
    BY <1>1, <1>2, <1>4 DEF RecordText
  <2>2. Return(f, NoPage, FALSE, "failed")
    BY <1>4 DEF BestAttempt
  <2> QED BY <1>1, <2>1, <2>2, NoPageKeeps
<1> QED BY <1>3, <1>4

(* Every step keeps the invariant. *)
LEMMA NextLadder ==
    ASSUME LadderInv, [LadderNext]_ladderVars
    PROVE  LadderInv'
<1>1. ASSUME NEW f \in Fetches, NEW u \in Urls, Claim(f, u) \/ Duplicate(f, u)
      PROVE  LadderInv'
  BY <1>1, ClaimKeeps, DuplicateKeeps
<1>2. ASSUME NEW f \in Fetches, NEW size \in TextSizes,
             \/ Firecrawl(f, size) \/ Crawl(f, size) \/ Render(f, size) \/ Wayback(f, size)
      PROVE  LadderInv'
  <2>1. {"firecrawl", "crawl", "render", "wayback", "thin"} \subseteq Rungs \ {"adapter"}
    BY DEF Rungs
  <2>2. \E rung \in Rungs, next \in Rungs \ {"adapter"} : TryRung(f, rung, size, next)
    BY <1>2, <2>1 DEF Firecrawl, Crawl, Render, Wayback
  <2> QED BY <2>2, RungKeeps
<1>3. ASSUME NEW f \in Fetches, Stop(f) PROVE LadderInv'
  BY <1>3, NoPageKeeps DEF Stop
<1>4. CASE UNCHANGED ladderVars
  BY <1>4 DEF ladderVars, LadderInv, LadderTypeOK, ClaimsHold, Climber, Climbing, Fetched,
              KnowsBest, FetchedPageIsCached, LongestTextIsReturned, ThinIsMarked
<1> QED BY <1>1, <1>2, <1>3, <1>4, AdapterKeeps, BestKeeps DEF LadderNext, LadderDone

\* Of all fetches of one canonical URL, however they interleave or stop, only one
\* calls a rung of the ladder.
THEOREM OneFetchEach == LadderSpec => []OneFetchPerKey
<1>1. LadderInv => OneFetchPerKey
  BY DEF LadderInv, ClaimsHold, Climber, OneFetchPerKey
<1> QED BY <1>1, InitLadder, NextLadder, PTL DEF LadderSpec

\* What a fetch returns is the longest text that its rungs returned; it stays in
\* the cache as it was returned, and is marked if it is thin.
THEOREM BestPageAlwaysServed == LadderSpec => []BestPageIsServed
<1>1. LadderInv => BestPageIsServed
  BY DEF LadderInv, BestPageIsServed
<1> QED BY <1>1, InitLadder, NextLadder, PTL DEF LadderSpec
=============================================================================
