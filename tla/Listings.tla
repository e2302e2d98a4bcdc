------------------------------ MODULE Listings ------------------------------
(***************************************************************************)
(* Lists that the code makes by going through indices from the first to    *)
(* the last and appending those that qualify.                              *)
(***************************************************************************)
EXTENDS Naturals, FiniteSets

\* The members of a set of numbers, the smallest first.
Ascending(s) == [n \in 1..Cardinality(s) |->
                   CHOOSE x \in s : Cardinality({y \in s : y <= x}) = n]

\* The members of a set in an order: the pairs of which the first comes first.
Ordered(s, before) ==
  [n \in 1..Cardinality(s) |->
     CHOOSE x \in s : Cardinality({y \in s : y = x \/ <<y, x>> \in before}) = n]

\* The places of a list of numbers as a stable sort goes through them: the smallest
\* number first, and equal ones in the order of the list.
Rising(numbers) ==
  LET before == {p \in (DOMAIN numbers) \X (DOMAIN numbers) :
                   \/ numbers[p[1]] < numbers[p[2]]
                   \/ numbers[p[1]] = numbers[p[2]] /\ p[1] < p[2]}
  IN Ordered(DOMAIN numbers, before)
=============================================================================
