--------------------------- MODULE OutcomeScoring ---------------------------
(***************************************************************************)
(* score_outcomes.py, once a day: the questions whose outcome is not known *)
(* are looked up, stalest first and so many a day, and then every forecast *)
(* of a resolved question that has no score is scored, page by page, while *)
(* other runs publish.                                                     *)
(***************************************************************************)
EXTENDS Naturals, SequencesExt

CONSTANTS
  LibraryQuestions,   \* a set of numbers, in the order of their first forecast
  QuestionOf,   \* forecast row -> question: a sequence in the view's order
  Abstained,    \* the rows without a forecast
  Gone,         \* the questions that can no longer be fetched
  MaxChecks,    \* --max-checks
  PageSize,
  MaxMisses     \* bound: lookups and requests that fail once

ASSUME OutcomeAssumption ==
  /\ Gone \subseteq LibraryQuestions /\ Cardinality(Gone) < MaxChecks
  /\ QuestionOf \in Seq(LibraryQuestions) /\ PageSize \in Nat

VARIABLES
  day,        \* rest, check, score
  todo,       \* questions_to_check, as read
  world,      \* question -> how Metaculus resolved it
  seen,       \* the outcomes table: question -> what was seen last, unseen if nothing
  checks,     \* the questions that have an outcome, the one looked up last at the end
  published, scored,   \* the rows of forecasts, and those with a score
  offset,     \* into forecasts_to_score
  due,        \* the rows that could be scored when the pass began
  misses

scoreVars == <<day, todo, world, seen, checks, published, scored, offset, due, misses>>

Rows == DOMAIN QuestionOf
Open == "open"
Unscorable == {"annulled"}

ScoringInit ==
  /\ day = "rest" /\ todo = <<>> /\ checks = <<>>
  /\ world = [q \in LibraryQuestions |-> Open] /\ seen = [q \in LibraryQuestions |-> "unseen"]
  /\ published = {} /\ scored = {} /\ due = {} /\ offset = 0 /\ misses = 0

Publish == /\ \E r \in Rows \ published : published' = published \cup {r}
           /\ UNCHANGED <<day, todo, world, seen, checks, scored, offset, due, misses>>

Resolve == /\ \E q \in LibraryQuestions, how \in {"yes", "annulled"} :
                 world[q] = Open /\ world' = [world EXCEPT ![q] = how]
           /\ UNCHANGED <<day, todo, seen, checks, published, scored, offset, due, misses>>

\* The views questions_to_check, in its order, and forecasts_to_score.
Unresolved == {q \in {QuestionOf[r] : r \in published} : seen[q] \in {"unseen", Open}}
InOrder(s) == SelectSeq(SetToSortSeq(LibraryQuestions, <), LAMBDA q : q \in s)
\* As if the oldest forecast went first, checked or not.
ToCheckByAge == InOrder(Unresolved)
ToCheck == InOrder(Unresolved \ ToSet(checks)) \o SelectSeq(checks, LAMBDA q : q \in Unresolved)
ToScore == {r \in published \ scored : seen[QuestionOf[r]] \notin {"unseen", Open}}

\* score_record: there is a score for a forecast and an outcome that says something.
Scorable(r) == r \notin Abstained /\ seen[QuestionOf[r]] \notin Unscorable

\* A request that fails ends the day; a post that cannot be fetched does not.
StartDay ==
  /\ day = "rest" /\ day' = "check"
  /\ todo' = SubSeq(ToCheck, 1, IF Len(ToCheck) < MaxChecks THEN Len(ToCheck) ELSE MaxChecks)
  /\ UNCHANGED <<world, seen, checks, published, scored, offset, due, misses>>

Check ==
  /\ day = "check" /\ todo # <<>> /\ todo' = Tail(todo)
  /\ LET q == Head(todo) IN
     IF q \in Gone THEN UNCHANGED <<seen, checks>>
     ELSE /\ seen' = [seen EXCEPT ![q] = world[q]]
          /\ checks' = Append(SelectSeq(checks, LAMBDA c : c # q), q)
  /\ UNCHANGED <<day, world, published, scored, offset, due, misses>>

StartScoring ==
  /\ day = "check" /\ todo = <<>> /\ day' = "score" /\ offset' = 0
  /\ due' = {r \in ToScore : Scorable(r)}
  /\ UNCHANGED <<todo, world, seen, checks, published, scored, misses>>

\* As if no row left the view.
MovedByPage(page, new) == offset + Cardinality(page)

\* Scored rows leave the view: only the others move the window.
Moved(page, new) == offset + Cardinality(page) - Cardinality(new)

\* The place of a row in the view.
Place(r) == Cardinality({x \in ToScore : x <= r})

ScorePage ==
  LET page == {r \in ToScore : Place(r) \in (offset + 1)..(offset + PageSize)}
      new == {r \in page : Scorable(r)}
  IN /\ day = "score"
     /\ scored' = scored \cup new
     /\ IF Cardinality(page) < PageSize THEN day' = "rest" /\ offset' = 0
        ELSE day' = day /\ offset' = Moved(page, new)
     /\ UNCHANGED <<todo, world, seen, checks, published, due, misses>>

\* A post that cannot be fetched today; a request that fails, and with it the day's run.
Miss ==
  /\ misses < MaxMisses /\ misses' = misses + 1
  /\ \/ day = "check" /\ todo # <<>> /\ todo' = Tail(todo) /\ UNCHANGED <<day, due>>
     \/ day # "rest" /\ day' = "rest" /\ todo' = <<>> /\ due' = {}
  /\ offset' = 0 /\ UNCHANGED <<world, seen, checks, published, scored>>

Daily == StartDay \/ Check \/ StartScoring \/ ScorePage
ScoringNext == Publish \/ Resolve \/ Daily \/ Miss
\* The workflow is started every day.
ScoringFairness == WF_scoreVars(Daily)
ScoringSpec == ScoringInit /\ [][ScoringNext]_scoreVars /\ ScoringFairness

(***************************************************************************)
(* Properties.                                                             *)
(***************************************************************************)
\* A pass that is not cut short scores every row that it could score when it began,
\* though unscorable rows stay in the view and new ones enter it (score_pending).
PassScoresAll == day = "rest" => due \subseteq scored

\* What is published is scored in the end, whatever else waits to be looked up and
\* however many posts are gone, as long as they are fewer than a day's lookups.
AllAreScoredInTheEnd ==
  <>[](\A r \in published \ Abstained :
         QuestionOf[r] \notin Gone /\ world[QuestionOf[r]] = "yes" => r \in scored)
=============================================================================
