--------------------------- MODULE QuestionQueue ---------------------------
(***************************************************************************)
(* The run's question queue: forecast_questions in bot/run/orchestrator.py.*)
(*                                                                         *)
(* One asyncio event loop runs a main coroutine and a changing set of      *)
(* worker tasks over a shared heap of questions.  A worker pops the most   *)
(* urgent question, forecasts it in a task of its own, queues a failed one *)
(* once more, re-lists the tournaments (in a thread, under a lock) and     *)
(* tops the worker set up before it looks at the queue again.              *)
(*                                                                         *)
(* Code between two awaits runs without interruption: `cpu' names the task *)
(* that is inside such a segment, and every step of another task waits for *)
(* it to be Nobody.  The listing thread and the clock are not bound by it. *)
(***************************************************************************)
EXTENDS Integers, FiniteSets, Sequences

CONSTANTS
    Questions,          \* question ids
    NumTournaments,     \* len(tournament_ids); a tournament is its CLI rank
    Home,               \* the tournaments that list a question
    OpenAt, CloseAt,    \* when a question opens, and its scheduled close
    ExplicitPos,        \* open_question_id_post_id: question -> position
    Concurrency,        \* QUESTION_CONCURRENCY, 0 for unbounded
    WorkerIds,          \* slots for worker tasks (a bound when Concurrency = 0)
    Main, Nobody,
    RunTimeLimit,       \* RUN_TIME_LIMIT_SECONDS
    QuestionTimeout,    \* QUESTION_TIMEOUT_SECONDS
    DiscoveryInterval,  \* QUESTION_DISCOVERY_INTERVAL_SECONDS
    ListingMayFail,     \* may Metaculus refuse a tournament listing?
    Horizon             \* bound: the last clock value

Tournaments == 0..(NumTournaments - 1)
Explicit == DOMAIN ExplicitPos

ASSUME CountsAssumption ==
    /\ NumTournaments \in Nat
    /\ Concurrency \in Nat
    /\ IsFiniteSet(Questions) /\ IsFiniteSet(WorkerIds)
    /\ Main # Nobody
    /\ {Main, Nobody} \cap (WorkerIds \cup Questions) = {}

ASSUME QuestionsAssumption ==
    /\ Home \in [Questions -> SUBSET Tournaments]
    /\ OpenAt \in [Questions -> Nat]
    /\ CloseAt \in [Questions -> 0..Horizon]
    /\ ExplicitPos \in [Explicit -> Nat]
    /\ Explicit \subseteq Questions

ASSUME TimesAssumption ==
    /\ {RunTimeLimit, QuestionTimeout, DiscoveryInterval, Horizon} \subseteq Nat
    /\ RunTimeLimit <= Horizon
    /\ ListingMayFail \in BOOLEAN

NoRank == NumTournaments    \* the rank of a question no tournament listed
NoClose == Horizon + 1      \* math.inf: _close_timestamp of a missing time
\* Mutant: the time a last question may take is not set aside.
StartDeadlineMutant == RunTimeLimit
StartDeadline == RunTimeLimit - QuestionTimeout

Items == [q : Questions, rank : 0..NoRank, close : 0..NoClose,
          seq : Nat, attempt : {1, 2}]

VARIABLES
    now,            \* time.monotonic(), 0 when the run starts
    phase,          \* where forecast_questions itself is
    cpu,            \* the task inside an uninterrupted segment
    queue,          \* the heap
    known,          \* every question id ever enqueued
    arrival,        \* itertools.count(): the next sequence number
    results,        \* [q, attempt, outcome] for every question settled
    firstFailures,  \* questions whose first attempt failed and was requeued
    starts,         \* history: how often a forecast of a question was started
    pc,             \* what each worker task is doing
    job,            \* the item a worker popped last
    startedAt,      \* when it started that item
    discoveryLock,  \* holder of asyncio.Lock(); it is listing
    waiters,        \* tasks waiting for the lock, first come first served
    lastDiscovery,  \* when the last listing started
    scan            \* progress of the listing thread

queueVars == <<queue, known, arrival>>
lockVars == <<discoveryLock, waiters, lastDiscovery, scan>>
outcomeVars == <<results, firstFailures, starts>>
vars == <<now, phase, cpu, queueVars, outcomeVars, pc, job, startedAt, lockVars>>

-----------------------------------------------------------------------------
Workers == {w \in WorkerIds : pc[w] # "none"}   \* the set `workers'
Exited == phase \in {"exit0", "exit1"}

IsOpen(q) == OpenAt[q] <= now /\ now < CloseAt[q]

\* Mutant: the heap orders by close time alone.
BeforeMutant(a, b) == a.close < b.close \/ (a.close = b.close /\ a.seq < b.seq)

\* dataclass(order=True): rank, then soonest close, then arrival.
Before(a, b) ==
    \/ a.rank < b.rank
    \/ a.rank = b.rank /\ a.close < b.close
    \/ a.rank = b.rank /\ a.close = b.close /\ a.seq < b.seq

\* The heads heappop may return.  Questions that one listing adds share a seq:
\* their order is that of Metaculus's answer, which the model leaves open.
MostUrgent == {it \in queue : \A other \in queue : ~Before(other, it)}

NewItem(q, rank, close, seq) ==
    [q |-> q, rank |-> rank, close |-> close, seq |-> seq, attempt |-> 1]

NoItem == [q |-> Nobody]

IdleScan == [next |-> 0, failed |-> FALSE, found |-> [q \in Questions |-> NoRank]]

Init ==
    /\ now = 0
    /\ phase = IF NumTournaments > 0 THEN "listing" ELSE "loading"
    /\ cpu = Nobody
    /\ queue = {} /\ known = {} /\ arrival = 0
    /\ results = {} /\ firstFailures = {}
    /\ starts = [q \in Questions |-> 0]
    /\ pc = [w \in WorkerIds |-> "none"]
    /\ job = [w \in WorkerIds |-> NoItem]
    /\ startedAt = [w \in WorkerIds |-> 0]
    \* refresh(force=True): the run starts inside its first listing
    /\ discoveryLock = IF NumTournaments > 0 THEN Main ELSE Nobody
    /\ waiters = <<>>
    /\ lastDiscovery = 0
    /\ scan = IdleScan

-----------------------------------------------------------------------------
(* The listing thread: discover(), inside asyncio.to_thread.               *)

\* One tournament answers; an earlier tournament's rank wins.
ListTournament ==
    /\ discoveryLock # Nobody
    /\ ~scan.failed /\ scan.next < NumTournaments
    /\ scan' = [scan EXCEPT !.next = @ + 1,
          !.found = [q \in Questions |->
              IF @[q] = NoRank /\ scan.next \in Home[q] /\ IsOpen(q)
              THEN scan.next ELSE @[q]]]
    /\ UNCHANGED <<now, phase, cpu, queueVars, outcomeVars, pc, job, startedAt,
                   discoveryLock, waiters, lastDiscovery>>

\* One tournament's listing raises: the whole discovery is lost.
ListingFails ==
    /\ ListingMayFail
    /\ discoveryLock # Nobody
    /\ ~scan.failed /\ scan.next < NumTournaments
    /\ scan' = [scan EXCEPT !.failed = TRUE]
    /\ UNCHANGED <<now, phase, cpu, queueVars, outcomeVars, pc, job, startedAt,
                   discoveryLock, waiters, lastDiscovery>>

ListingDone == discoveryLock # Nobody /\ (scan.failed \/ scan.next = NumTournaments)

\* Mutant: a listed question is compared with the queue, not with `known'.
DiscoveredMutant ==
    IF scan.failed THEN {}
    ELSE {q \in Questions : scan.found[q] # NoRank} \ {it.q : it \in queue}

Discovered ==
    IF scan.failed THEN {} ELSE {q \in Questions : scan.found[q] # NoRank} \ known

\* The event-loop half of refresh() once the thread has answered.
EnqueueDiscovered ==
    /\ cpu = Nobody /\ ListingDone
    /\ queue' = queue \cup
          {NewItem(q, scan.found[q], CloseAt[q], arrival) : q \in Discovered}
    /\ known' = known \cup Discovered
    /\ arrival' = arrival + (IF Discovered = {} THEN 0 ELSE 1)
    /\ discoveryLock' = Nobody
    /\ scan' = IdleScan
    /\ UNCHANGED <<waiters, lastDiscovery>>

-----------------------------------------------------------------------------
(* top_up(): spawn workers while the queue holds anything and the limit    *)
(* allows; a finished worker counts until its done callback has run.       *)

Limit(q) == IF Concurrency > 0 THEN Concurrency
                               ELSE Cardinality(Workers) + Cardinality(q)

\* Mutant: a worker takes one question and leaves the rest to top_up().
TopUpMutant(w, q) ==
    \E spawned \in SUBSET (WorkerIds \ Workers) :
        /\ IF q # {} /\ Cardinality(Workers) < Limit(q)
           THEN Cardinality(spawned) = Limit(q) - Cardinality(Workers)
           ELSE spawned = {}
        /\ pc' = [v \in WorkerIds |-> IF v = w THEN "finished"
                                      ELSE IF v \in spawned THEN "ready" ELSE pc[v]]

\* `w', the worker that tops up, goes on to its next turn of the loop.
TopUp(w, q) ==
    \E spawned \in SUBSET (WorkerIds \ Workers) :
        /\ IF q # {} /\ Cardinality(Workers) < Limit(q)
           THEN Cardinality(spawned) = Limit(q) - Cardinality(Workers)
           ELSE spawned = {}
        /\ pc' = [v \in WorkerIds |->
                     IF v = w \/ v \in spawned THEN "ready" ELSE pc[v]]

-----------------------------------------------------------------------------
(* forecast_questions itself.                                              *)

FirstListingDone ==
    /\ phase = "listing" /\ discoveryLock = Main
    /\ EnqueueDiscovered
    /\ phase' = "loading"
    /\ UNCHANGED <<now, cpu, outcomeVars, pc, job, startedAt>>

EnqueueExplicit ==
    LET new == Explicit \ known
        loaded == queue \cup
            {NewItem(q, NoRank, NoClose, arrival + ExplicitPos[q]) : q \in new}
    IN  /\ phase = "loading" /\ cpu = Nobody
        /\ queue' = loaded
        /\ known' = known \cup new
        /\ arrival' = arrival + Cardinality(Explicit)
        /\ TopUp(Main, loaded)
        /\ phase' = "serving"
        /\ UNCHANGED <<now, cpu, outcomeVars, job, startedAt, lockVars>>

\* `while workers' ends; the error report raises when a result is an error.
Report ==
    /\ phase = "serving" /\ cpu = Nobody
    /\ Workers = {}
    /\ phase' = IF \E r \in results : r.outcome # "ok" THEN "exit1" ELSE "exit0"
    /\ UNCHANGED <<now, cpu, queueVars, outcomeVars, pc, job, startedAt, lockVars>>

-----------------------------------------------------------------------------
(* worker(): the turn at the top of its loop.                              *)

MayRun(w) == pc[w] = "ready" /\ cpu \in {w, Nobody}

QueueIsEmpty(w) ==
    /\ MayRun(w) /\ queue = {}
    /\ pc' = [pc EXCEPT ![w] = "finished"]
    /\ cpu' = Nobody
    /\ UNCHANGED <<now, phase, queueVars, outcomeVars, job, startedAt, lockVars>>

StopStarting(w) ==
    /\ MayRun(w) /\ queue # {} /\ now > StartDeadline
    /\ queue' = {}
    /\ pc' = [pc EXCEPT ![w] = "finished"]
    /\ cpu' = Nobody
    /\ UNCHANGED <<now, phase, known, arrival, outcomeVars, job, startedAt, lockVars>>

StartQuestion(w) ==
    /\ MayRun(w) /\ now <= StartDeadline
    /\ \E it \in MostUrgent :
          /\ queue' = queue \ {it}
          /\ job' = [job EXCEPT ![w] = it]
          /\ starts' = [starts EXCEPT ![it.q] = @ + 1]
    /\ startedAt' = [startedAt EXCEPT ![w] = now]
    /\ pc' = [pc EXCEPT ![w] = "forecasting"]
    /\ cpu' = Nobody
    /\ UNCHANGED <<now, phase, known, arrival, results, firstFailures, lockVars>>

\* The task's done callback takes it out of `workers'.
Discard(w) ==
    /\ cpu = Nobody /\ pc[w] = "finished"
    /\ pc' = [pc EXCEPT ![w] = "none"]
    /\ UNCHANGED <<now, phase, cpu, queueVars, outcomeVars, job, startedAt, lockVars>>

-----------------------------------------------------------------------------
(* worker(): the forecast task has ended; its result is dealt with.        *)

\* Every way out of an attempt continues, uninterrupted, into refresh().
AttemptOver(w) ==
    /\ cpu = Nobody /\ pc[w] = "forecasting"
    /\ job' = [job EXCEPT ![w] = NoItem]
    /\ startedAt' = [startedAt EXCEPT ![w] = 0]
    /\ pc' = [pc EXCEPT ![w] = "refreshing"]
    /\ cpu' = w
    /\ UNCHANGED <<now, phase, known, starts, lockVars>>

Result(it, outcome) == [q |-> it.q, attempt |-> it.attempt, outcome |-> outcome]

\* Mutant: only summaries reach the results.
RecordedMutant(it, outcome) ==
    IF outcome = "ok" THEN results \cup {Result(it, outcome)} ELSE results

Recorded(it, outcome) == results \cup {Result(it, outcome)}

AttemptSucceeds(w) ==
    /\ AttemptOver(w)
    /\ results' = Recorded(job[w], "ok")
    /\ UNCHANGED <<queue, arrival, firstFailures>>

\* Mutant: the attempt number of a requeued item is left at 1.
AgainMutant(it) == [it EXCEPT !.seq = arrival]

\* The item as it is queued once more.
Again(it) == [it EXCEPT !.attempt = 2, !.seq = arrival]

\* Mutant: a failed retry is queued again as well.
MayRetryMutant(it, outcome) == outcome # "hardlimit" /\ it.close > now

\* A first attempt of a question that is still open, and no exhausted budget.
MayRetry(it, outcome) == it.attempt = 1 /\ outcome # "hardlimit" /\ it.close > now

\* An Exception, or HardLimitExceededError, which a retry would only repeat.
AttemptFails(w, outcome) ==
    /\ AttemptOver(w)
    /\ IF MayRetry(job[w], outcome)
       THEN /\ firstFailures' = firstFailures \cup {job[w].q}
            /\ queue' = queue \cup {Again(job[w])}
            /\ arrival' = arrival + 1
            /\ UNCHANGED results
       ELSE /\ results' = Recorded(job[w], outcome)
            /\ UNCHANGED <<queue, arrival, firstFailures>>

\* Mutant: the attempt is awaited without a timeout.
TimeIsUpMutant(w) == FALSE

\* asyncio.wait_for: the attempt cannot outlive its timeout.
TimeIsUp(w) == pc[w] = "forecasting" /\ now >= startedAt[w] + QuestionTimeout

AttemptTimesOut(w) == TimeIsUp(w) /\ AttemptFails(w, "error")

-----------------------------------------------------------------------------
(* refresh() in a worker, then top_up(), then the top of the loop.         *)

AskingForLock(w) == pc[w] = "refreshing" /\ cpu = w

\* The lock is free and nobody is ahead of w.
GetsLock(w) ==
    /\ discoveryLock = Nobody
    /\ \/ AskingForLock(w) /\ waiters = <<>>
       \/ /\ pc[w] = "waiting" /\ cpu = Nobody
          /\ waiters # <<>> /\ Head(waiters) = w

LeaveQueueForLock(w) == waiters' = IF pc[w] = "waiting" THEN Tail(waiters) ELSE waiters

ListingDue == now - lastDiscovery >= DiscoveryInterval

WaitForLock(w) ==
    /\ NumTournaments > 0
    /\ AskingForLock(w)
    /\ discoveryLock # Nobody \/ waiters # <<>>
    /\ waiters' = Append(waiters, w)
    /\ pc' = [pc EXCEPT ![w] = "waiting"]
    /\ cpu' = Nobody
    /\ UNCHANGED <<now, phase, queueVars, outcomeVars, job, startedAt,
                   discoveryLock, lastDiscovery, scan>>

\* Nothing to list, or the last listing is too recent.
SkipListing(w) ==
    /\ \/ NumTournaments = 0 /\ AskingForLock(w) /\ UNCHANGED waiters
       \/ NumTournaments > 0 /\ GetsLock(w) /\ ~ListingDue /\ LeaveQueueForLock(w)
    /\ TopUp(w, queue)
    /\ cpu' = w
    /\ UNCHANGED <<now, phase, queueVars, outcomeVars, job, startedAt,
                   discoveryLock, lastDiscovery, scan>>

StartListing(w) ==
    /\ NumTournaments > 0 /\ GetsLock(w) /\ ListingDue
    /\ LeaveQueueForLock(w)
    /\ discoveryLock' = w
    /\ lastDiscovery' = now
    /\ pc' = [pc EXCEPT ![w] = "listing"]
    /\ cpu' = Nobody
    /\ UNCHANGED <<now, phase, queueVars, outcomeVars, job, startedAt, scan>>

FinishListing(w) ==
    /\ discoveryLock = w
    /\ EnqueueDiscovered
    /\ TopUp(w, queue')
    /\ cpu' = w
    /\ UNCHANGED <<now, phase, outcomeVars, job, startedAt>>

-----------------------------------------------------------------------------
\* Timers fire on time: the clock waits for an attempt that must end now.
Tick ==
    /\ now < Horizon /\ cpu = Nobody
    /\ \A w \in WorkerIds : ~TimeIsUp(w)
    /\ now' = now + 1
    /\ UNCHANGED <<phase, cpu, queueVars, outcomeVars, pc, job, startedAt, lockVars>>

Terminated == Exited /\ UNCHANGED vars

RunWorker(w) ==
    \/ QueueIsEmpty(w) \/ StopStarting(w) \/ StartQuestion(w) \/ Discard(w)
    \/ WaitForLock(w) \/ SkipListing(w) \/ StartListing(w) \/ FinishListing(w)

EndAttempt(w) ==
    \/ AttemptSucceeds(w)
    \/ \E outcome \in {"error", "hardlimit"} : AttemptFails(w, outcome)

RunListing == ListTournament \/ ListingFails
RunMain == FirstListingDone \/ EnqueueExplicit \/ Report

Next ==
    \/ RunListing \/ RunMain \/ Tick \/ Terminated
    \/ \E w \in WorkerIds : RunWorker(w) \/ EndAttempt(w)

Spec == Init /\ [][Next]_vars

\* The event loop runs every ready task, HTTP calls have timeouts, time passes
\* and wait_for fires.  No attempt is assumed to end on its own.
Fairness ==
    /\ WF_vars(RunListing) /\ WF_vars(RunMain) /\ WF_vars(Tick)
    /\ \A w \in WorkerIds : WF_vars(RunWorker(w)) /\ WF_vars(AttemptTimesOut(w))

FairSpec == Spec /\ Fairness

-----------------------------------------------------------------------------
(* Properties.                                                             *)

TypeOK ==
    /\ now \in 0..Horizon
    /\ phase \in {"listing", "loading", "serving", "exit0", "exit1"}
    /\ cpu \in WorkerIds \cup {Nobody}
    /\ queue \subseteq Items
    /\ known \subseteq Questions
    /\ arrival \in Nat
    /\ results \subseteq [q : Questions, attempt : {1, 2},
                         outcome : {"ok", "error", "hardlimit"}]
    /\ firstFailures \subseteq Questions
    /\ starts \in [Questions -> Nat]
    /\ pc \in [WorkerIds -> {"none", "ready", "forecasting", "refreshing",
                             "waiting", "listing", "finished"}]
    /\ job \in [WorkerIds -> Items \cup {NoItem}]
    /\ startedAt \in [WorkerIds -> 0..Horizon]
    /\ discoveryLock \in WorkerIds \cup {Main, Nobody}
    /\ waiters \in Seq(WorkerIds)
    /\ lastDiscovery \in 0..Horizon
    /\ scan \in [next : 0..NumTournaments, failed : BOOLEAN,
                 found : [Questions -> 0..NoRank]]

\* A question is never forecast by two workers at once, never waits in the
\* queue while a worker has it, and once it has a result it is never queued or
\* started again: `known', the heap, a worker's item and the results list are
\* four separate records of it, changed by tasks that interleave.
EachQuestionInOnePlace ==
    /\ \A a, b \in queue : a.q = b.q => a = b
    /\ \A v, w \in WorkerIds : job[v] # NoItem /\ job[v].q = job[w].q => v = w
    /\ \A r, s \in results : r.q = s.q => r = s
    /\ \A it \in queue : \A w \in WorkerIds : job[w].q # it.q
    /\ \A r \in results :
          /\ \A it \in queue : it.q # r.q
          /\ \A w \in WorkerIds : job[w].q # r.q

\* A question that entered the run is queued, being forecast or settled, until
\* the start deadline; only then may the queue be cleared under it.
NothingLostBeforeDeadline ==
    \A q \in known :
        \/ now > StartDeadline
        \/ \E it \in queue : it.q = q
        \/ \E w \in WorkerIds : job[w].q = q
        \/ \E r \in results : r.q = q

\* No lost wakeup: while the queue holds a question, some worker task is still
\* going to look at it, so the run cannot end (or hang) over a full queue.
QueueIsServed ==
    queue # {} => \/ phase \in {"listing", "loading"}
                  \/ \E w \in WorkerIds : pc[w] \notin {"none", "finished"}

\* "no question is STARTED after RUN_TIME_LIMIT_SECONDS minus
\* QUESTION_TIMEOUT_SECONDS, so the run ends inside the job limit": a forecast
\* is never in flight after RUN_TIME_LIMIT_SECONDS.
NoForecastAfterTimeLimit ==
    \A w \in WorkerIds : pc[w] = "forecasting" => now <= RunTimeLimit

\* QUESTION_CONCURRENCY bounds the worker tasks, whoever tops them up.
ConcurrencyBound ==
    Concurrency > 0 => Cardinality(Workers) <= Concurrency

\* A forecast of a question is started at most twice, and a second time only
\* after the first attempt failed, whatever listings and retries race for it;
\* and the attempt a worker or a result names is the one that was started.
RetriedAtMostOnce ==
    /\ \A q \in Questions :
          starts[q] <= 2 /\ (starts[q] = 2 => q \in firstFailures)
    /\ \A w \in WorkerIds :
          job[w] # NoItem => starts[job[w].q] = job[w].attempt
    /\ \A r \in results : starts[r.q] = r.attempt

\* min() of the tournaments that list q.
Rank(q) == IF Home[q] = {} THEN NoRank
           ELSE CHOOSE r \in Home[q] : \A other \in Home[q] : r <= other

\* "the queue is ordered by tournament rank (main tournament first), then
\* soonest scheduled_close_time": no open question that a listing has ranked waits
\* while a less urgent one is started.
UrgentFirst ==
    [][\A w \in WorkerIds : job[w] = NoItem /\ job'[w] # NoItem
          => \A it \in queue' :
                IsOpen(it.q) /\ it.rank = Rank(it.q) /\ it.close = CloseAt[it.q]
                => \/ Rank(job'[w].q) < Rank(it.q)
                   \/ /\ Rank(job'[w].q) = Rank(it.q)
                      /\ CloseAt[job'[w].q] <= CloseAt[it.q]]_vars

\* "Any per-question failure is reported and then causes the process to exit
\* with a nonzero status": a run that exits zero has forecast (or skipped) every
\* question it saw fail.
FailureExitsNonzero ==
    phase = "exit0" =>
        \A q \in firstFailures : \E r \in results : r.q = q /\ r.outcome = "ok"

\* The run ends, however the listings and the forecasts go.
RunEnds == <>Exited


\* Whatever the listings, the retries and the workers do, a question is where it
\* belongs, once, and none is lost before the deadline.
QuestionsAreAccountedFor == TypeOK /\ EachQuestionInOnePlace /\ NothingLostBeforeDeadline
=============================================================================
