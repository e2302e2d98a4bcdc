------------------------------ MODULE MCPublish ------------------------------
(***************************************************************************)
(* A question's attempts and its forecast on Metaculus; a run and what it  *)
(* publishes; the daily pass over what was published: a behaviour takes    *)
(* one of the three.  Three attempts at one question; two questions, the   *)
(* first attempted twice, with fewer calls in its second attempt; four     *)
(* forecasts of three questions, one of which can no longer be fetched.    *)
(***************************************************************************)
EXTENDS QuestionAttempt, Publisher, OutcomeScoring

VARIABLE part

MCAttempts == <<2, 1>>
MCCallsOf(a) == IF a = 1 THEN 2 ELSE 1
MCQuestionOf == <<1, 2, 2, 3>>

LibraryInit == /\ Init /\ PublisherInit /\ ScoringInit
               /\ part \in {"attempt", "publish", "score"}
               /\ part # "attempt" => \A q \in Questions : open[q]
LibraryNext ==
  /\ UNCHANGED part
  /\ \/ part = "attempt" /\ Next /\ UNCHANGED <<pubVars, scoreVars>>
     \/ part = "publish" /\ PublisherNext /\ UNCHANGED <<vars, scoreVars>>
     \/ part = "score" /\ ScoringNext /\ UNCHANGED <<vars, pubVars>>
     \* The attempts must not deadlock; publishing and scoring may stop.
     \/ part # "attempt" /\ UNCHANGED <<vars, pubVars, scoreVars>>
LibraryFairness == /\ WF_pubVars(part = "publish" /\ PublishStep /\ UNCHANGED botVars)
                   /\ WF_scoreVars(part = "score" /\ Daily)
LibrarySpec ==
  LibraryInit /\ [][LibraryNext]_<<vars, pubVars, scoreVars, part>> /\ LibraryFairness
=============================================================================
