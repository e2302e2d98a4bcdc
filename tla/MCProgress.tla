----------------------------- MODULE MCProgress -----------------------------
(***************************************************************************)
(* What must end: the run's queue of questions, or the LLM calls of one    *)
(* question; a behaviour takes one of the two.                             *)
(***************************************************************************)
EXTENDS MCLlmCalls

CONSTANTS q1, q2, NumTournaments, Concurrency, WorkerIds, Main, Nobody, RunTimeLimit,
          QuestionTimeout, DiscoveryInterval, ListingMayFail, Horizon
VARIABLES part, now, phase, cpu, queue, known, arrival, results, firstFailures, starts,
          worker, job, startedAt, discoveryLock, waiters, lastDiscovery, scan

\* Two questions of two tournaments; the second opens during the run and closes soon.
TwoQuestions == {q1, q2}
TwoHome == q1 :> {0} @@ q2 :> {1}
TwoOpenAt == q1 :> 0 @@ q2 :> 1
TwoCloseAt == q1 :> 3 @@ q2 :> 2
OneExplicit == q1 :> 0

Q == INSTANCE QuestionQueue WITH
  Questions <- TwoQuestions, Home <- TwoHome, OpenAt <- TwoOpenAt, CloseAt <- TwoCloseAt,
  ExplicitPos <- OneExplicit, pc <- worker

queueVars == <<now, phase, cpu, queue, known, arrival, results, firstFailures, starts,
               worker, job, startedAt, discoveryLock, waiters, lastDiscovery, scan>>
all == <<part, vars, queueVars>>

ProgressInit == Init /\ Q!Init /\ part \in {"queue", "calls"}
ProgressNext == /\ UNCHANGED part
                /\ \/ part = "queue" /\ Q!Next /\ UNCHANGED vars
                   \/ part = "calls" /\ Next /\ UNCHANGED queueVars
ProgressFairness ==
  /\ \A c \in Calls : WF_vars(part = "calls" /\ Advance(c))
  /\ WF_queueVars(part = "queue" /\ Q!RunListing)
  /\ WF_queueVars(part = "queue" /\ Q!RunMain)
  /\ WF_queueVars(part = "queue" /\ Q!Tick)
  /\ \A w \in WorkerIds : /\ WF_queueVars(part = "queue" /\ Q!RunWorker(w))
                         /\ WF_queueVars(part = "queue" /\ Q!AttemptTimesOut(w))
ProgressSpec == ProgressInit /\ [][ProgressNext]_all /\ ProgressFairness

\* Every call of the question comes to an end.
AllCallsEnd == part = "calls" => CallEnds

\* The run comes to its end, whatever questions and listings do: no worker set dies
\* out with work left, and no deadline is missed for ever.
RunEnds == part = "queue" => Q!RunEnds

=============================================================================
