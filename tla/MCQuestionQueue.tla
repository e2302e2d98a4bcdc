-------------------------- MODULE MCQuestionQueue --------------------------
(* Small instances of QuestionQueue: a main-tournament question, a minibench *)
(* question that closes sooner, and a main one that opens during the run.    *)
EXTENDS QuestionQueue, TLC

CONSTANTS a, b, c

MCQuestions == {a, b, c}
MCHome == a :> {0} @@ b :> {1} @@ c :> {0}
MCOpenAt == a :> 0 @@ b :> 0 @@ c :> 1
MCCloseAt == a :> 4 @@ b :> 2 @@ c :> 4
MCExplicitPos == a :> 0 @@ b :> 1

WorkerSymmetry == Permutations(WorkerIds)
=============================================================================
