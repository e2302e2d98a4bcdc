------------------------ MODULE QuestionQueueProofs ------------------------
(* Proofs about QuestionQueue, for every set of questions and workers, every *)
(* tournament and every time limit.                                          *)
EXTENDS QuestionQueue, FiniteSetTheorems, WellFoundedInduction, TLAPS

-----------------------------------------------------------------------------
(* Type correctness.  A requeued item is one the worker really holds, so   *)
(* the types are inductive only together with JobHeld, and a lister holds the *)
(* lock.                                                                   *)

JobHeld == \A w \in WorkerIds : pc[w] = "forecasting" <=> job[w] # NoItem

LockHeld == \A w \in WorkerIds : pc[w] = "listing" <=> discoveryLock = w

TypeInv == TypeOK /\ JobHeld /\ LockHeld

PCs == {"none", "ready", "forecasting", "refreshing", "waiting", "listing", "finished"}

LEMMA NewItemType ==
    ASSUME NEW q \in Questions, NEW rank \in 0..NoRank, NEW close \in 0..NoClose,
           NEW seq \in Nat
    PROVE  NewItem(q, rank, close, seq) \in Items
BY DEF NewItem, Items

LEMMA TopUpType ==
    ASSUME NEW w, NEW q, TypeOK, TopUp(w, q)
    PROVE  /\ pc' \in [WorkerIds -> PCs]
           /\ w \in WorkerIds => pc'[w] = "ready"
           /\ \A v \in WorkerIds \ {w} :
                 pc'[v] = pc[v] \/ (pc[v] = "none" /\ pc'[v] = "ready")
<1>1. PICK spawned \in SUBSET (WorkerIds \ Workers) :
        pc' = [v \in WorkerIds |-> IF v = w \/ v \in spawned THEN "ready" ELSE pc[v]]
  BY DEF TopUp
<1>2. \A v \in spawned : pc[v] = "none"
  BY DEF Workers
<1> QED
  BY <1>1, <1>2 DEF TypeOK, PCs

LEMMA InitType == Init => TypeInv
<1> SUFFICES ASSUME Init PROVE TypeInv
  OBVIOUS
<1>1. NoRank \in Nat /\ NoRank = NumTournaments
  BY CountsAssumption DEF NoRank
<1>2. IdleScan \in [next : 0..NumTournaments, failed : BOOLEAN,
                    found : [Questions -> 0..NoRank]]
  BY <1>1 DEF IdleScan
<1>3. 0 \in 0..Horizon
  BY TimesAssumption
<1> QED
  BY <1>2, <1>3, CountsAssumption DEF Init, TypeOK, TypeInv, JobHeld, LockHeld

LEMMA EnqueueDiscoveredType ==
    ASSUME TypeOK, EnqueueDiscovered
    PROVE  /\ queue' \subseteq Items /\ known' \subseteq Questions /\ arrival' \in Nat
           /\ discoveryLock' = Nobody
           /\ scan' \in [next : 0..NumTournaments, failed : BOOLEAN,
                         found : [Questions -> 0..NoRank]]
<1>1. Discovered \subseteq Questions
  BY DEF Discovered
<1>2. ASSUME NEW q \in Discovered
      PROVE  NewItem(q, scan.found[q], CloseAt[q], arrival) \in Items
  <2>1. CloseAt[q] \in 0..NoClose
    BY <1>1, QuestionsAssumption, TimesAssumption DEF NoClose
  <2>2. scan.found[q] \in 0..NoRank /\ arrival \in Nat
    BY <1>1 DEF TypeOK
  <2> QED
    BY <1>1, <2>1, <2>2, NewItemType
<1>3. queue' \subseteq Items
  BY <1>2 DEF EnqueueDiscovered, TypeOK
<1>4. known' \subseteq Questions /\ arrival' \in Nat
  BY <1>1 DEF EnqueueDiscovered, TypeOK
<1>5. IdleScan \in [next : 0..NumTournaments, failed : BOOLEAN,
                    found : [Questions -> 0..NoRank]]
  BY CountsAssumption DEF IdleScan, NoRank
<1> QED
  BY <1>3, <1>4, <1>5 DEF EnqueueDiscovered

LEMMA ListingType == TypeInv /\ RunListing => TypeInv'
<1> SUFFICES ASSUME TypeInv, RunListing PROVE TypeOK' /\ JobHeld' /\ LockHeld'
  BY DEF TypeInv
<1> USE DEF TypeInv, JobHeld, LockHeld
<1>1. CASE ListTournament
  <2>1. scan.next \in 0..(NumTournaments - 1) /\ NumTournaments \in Nat
    BY <1>1, CountsAssumption DEF ListTournament, TypeOK
  <2> DEFINE found == [q \in Questions |->
              IF scan.found[q] = NoRank /\ scan.next \in Home[q] /\ IsOpen(q)
              THEN scan.next ELSE scan.found[q]]
  <2>2. found \in [Questions -> 0..NoRank]
    BY <2>1 DEF TypeOK, NoRank
  <2>3. scan' = [scan EXCEPT !.next = scan.next + 1, !.found = found]
    BY <1>1 DEF ListTournament, TypeOK
  <2>5. scan' = [next |-> scan.next + 1, failed |-> scan.failed, found |-> found]
    BY <2>3 DEF TypeOK
  <2>4. scan' \in [next : 0..NumTournaments, failed : BOOLEAN,
                   found : [Questions -> 0..NoRank]]
    BY <2>1, <2>2, <2>5 DEF TypeOK
  <2> QED
    BY <1>1, <2>4 DEF ListTournament, TypeOK, queueVars, outcomeVars
<1>2. CASE ListingFails
  BY <1>2 DEF ListingFails, TypeOK, queueVars, outcomeVars
<1> QED
  BY <1>1, <1>2 DEF RunListing

LEMMA MainType == TypeInv /\ RunMain => TypeInv'
<1> SUFFICES ASSUME TypeInv, RunMain PROVE TypeOK' /\ JobHeld' /\ LockHeld'
  BY DEF TypeInv
<1> USE DEF TypeInv, JobHeld, LockHeld
<1>1. CASE FirstListingDone
  <2>1. EnqueueDiscovered
    BY <1>1 DEF FirstListingDone
  <2> QED
    BY <1>1, <2>1, EnqueueDiscoveredType, CountsAssumption
    DEF FirstListingDone, EnqueueDiscovered, TypeOK, outcomeVars
<1>2. CASE EnqueueExplicit
  <2> DEFINE new == Explicit \ known
             loaded == queue \cup
                {NewItem(q, NoRank, NoClose, arrival + ExplicitPos[q]) : q \in new}
  <2>1. new \subseteq Questions /\ arrival \in Nat
    BY QuestionsAssumption DEF TypeOK
  <2>2. Cardinality(Explicit) \in Nat
    BY QuestionsAssumption, CountsAssumption, FS_Subset, FS_CardinalityType
  <2>3. ASSUME NEW q \in new
        PROVE  NewItem(q, NoRank, NoClose, arrival + ExplicitPos[q]) \in Items
    <3>1. ExplicitPos[q] \in Nat
      BY QuestionsAssumption
    <3>2. NoRank \in 0..NoRank /\ NoClose \in 0..NoClose
      BY CountsAssumption, TimesAssumption DEF NoRank, NoClose
    <3> QED
      BY <2>1, <3>1, <3>2, NewItemType
  <2>4. queue' \subseteq Items
    BY <1>2, <2>3 DEF EnqueueExplicit, TypeOK
  <2>5. TopUp(Main, loaded)
    BY <1>2 DEF EnqueueExplicit
  <2>6. known' \subseteq Questions /\ arrival' \in Nat
    BY <1>2, <2>1, <2>2 DEF EnqueueExplicit, TypeOK
  <2>7. /\ pc' \in [WorkerIds -> PCs]
        /\ \A v \in WorkerIds :
             pc'[v] = pc[v] \/ (pc[v] = "none" /\ pc'[v] = "ready")
    BY <2>5, TopUpType, CountsAssumption
  <2> QED
    BY <1>2, <2>4, <2>6, <2>7
    DEF EnqueueExplicit, TypeOK, outcomeVars, lockVars, PCs
<1>3. CASE Report
  BY <1>3 DEF Report, TypeOK, queueVars, outcomeVars, lockVars
<1> QED
  BY <1>1, <1>2, <1>3 DEF RunMain

LEMMA AttemptType ==
    ASSUME TypeInv, NEW w \in WorkerIds, EndAttempt(w) PROVE TypeInv'
<1> USE DEF TypeInv, JobHeld, LockHeld
<1>1. AttemptOver(w) /\ pc[w] = "forecasting" /\ job[w] \in Items
  BY DEF EndAttempt, AttemptSucceeds, AttemptFails, AttemptOver, TypeOK
<1>2. /\ job' \in [WorkerIds -> Items \cup {NoItem}]
      /\ startedAt' \in [WorkerIds -> 0..Horizon]
      /\ pc' \in [WorkerIds -> PCs]
      /\ cpu' \in WorkerIds \cup {Nobody}
      /\ JobHeld'
  BY <1>1, TimesAssumption DEF AttemptOver, TypeOK, PCs
<1>3. ASSUME NEW outcome \in {"ok", "error", "hardlimit"}
      PROVE  Result(job[w], outcome) \in
                [q : Questions, attempt : {1, 2}, outcome : {"ok", "error", "hardlimit"}]
  BY <1>1 DEF Result, Items
<1>4. Again(job[w]) \in Items
  BY <1>1 DEF Again, Items, TypeOK
<1>5. job[w].q \in Questions
  BY <1>1 DEF Items
<1>6. /\ queue' \subseteq Items /\ arrival' \in Nat
      /\ firstFailures' \subseteq Questions
      /\ results' \subseteq [q : Questions, attempt : {1, 2},
                             outcome : {"ok", "error", "hardlimit"}]
  <2>1. CASE AttemptSucceeds(w)
    BY <2>1, <1>3 DEF AttemptSucceeds, Recorded, TypeOK
  <2>2. ASSUME NEW outcome \in {"error", "hardlimit"}, AttemptFails(w, outcome)
        PROVE  /\ queue' \subseteq Items /\ arrival' \in Nat
               /\ firstFailures' \subseteq Questions
               /\ results' \subseteq [q : Questions, attempt : {1, 2},
                                      outcome : {"ok", "error", "hardlimit"}]
    <3>1. CASE MayRetry(job[w], outcome)
      BY <2>2, <3>1, <1>4, <1>5 DEF AttemptFails, TypeOK
    <3>2. CASE ~MayRetry(job[w], outcome)
      BY <2>2, <3>2, <1>3 DEF AttemptFails, Recorded, TypeOK
    <3> QED
      BY <3>1, <3>2
  <2> QED
    BY <2>1, <2>2 DEF EndAttempt
<1> QED
  BY <1>1, <1>2, <1>6 DEF AttemptOver, TypeOK, lockVars, PCs

LEMMA GetsLockType ==
    ASSUME TypeOK, NEW w \in WorkerIds, GetsLock(w), LeaveQueueForLock(w)
    PROVE  pc[w] \in {"refreshing", "waiting"} /\ waiters' \in Seq(WorkerIds)
<1>1. CASE AskingForLock(w) /\ waiters = <<>>
  BY <1>1 DEF AskingForLock, LeaveQueueForLock, TypeOK
<1>2. CASE pc[w] = "waiting" /\ waiters # <<>>
  BY <1>2 DEF LeaveQueueForLock, TypeOK
<1> QED
  BY <1>1, <1>2 DEF GetsLock

LEMMA WorkerType ==
    ASSUME TypeInv, NEW w \in WorkerIds, RunWorker(w) PROVE TypeInv'
<1> USE DEF TypeInv, JobHeld, LockHeld, PCs
<1>1. CASE QueueIsEmpty(w)
  BY <1>1 DEF QueueIsEmpty, MayRun, TypeOK, queueVars, outcomeVars, lockVars
<1>2. CASE StopStarting(w)
  BY <1>2 DEF StopStarting, MayRun, TypeOK, outcomeVars, lockVars
<1>3. CASE StartQuestion(w)
  <2>1. PICK it \in MostUrgent : /\ queue' = queue \ {it} /\ job' = [job EXCEPT ![w] = it]
                                 /\ starts' = [starts EXCEPT ![it.q] = @ + 1]
    BY <1>3 DEF StartQuestion
  <2>2. it \in Items /\ it # NoItem /\ it.q \in Questions
    BY CountsAssumption DEF MostUrgent, TypeOK, Items, NoItem
  <2>3. starts' \in [Questions -> Nat]
    BY <2>1, <2>2 DEF TypeOK
  <2> QED
    BY <1>3, <2>1, <2>2, <2>3 DEF StartQuestion, MayRun, TypeOK, lockVars
<1>4. CASE Discard(w)
  BY <1>4 DEF Discard, TypeOK, queueVars, outcomeVars, lockVars
<1>5. CASE WaitForLock(w)
  BY <1>5 DEF WaitForLock, AskingForLock, TypeOK, queueVars, outcomeVars
<1>6. CASE SkipListing(w)
  <2>1. pc[w] \in {"refreshing", "waiting"} /\ waiters' \in Seq(WorkerIds)
    <3>1. CASE AskingForLock(w) /\ waiters' = waiters
      BY <3>1 DEF AskingForLock, TypeOK
    <3>2. CASE GetsLock(w) /\ LeaveQueueForLock(w)
      BY <3>2, GetsLockType
    <3> QED
      BY <1>6, <3>1, <3>2 DEF SkipListing
  <2> QED
    BY <1>6, <2>1, TopUpType DEF SkipListing, TypeOK, queueVars, outcomeVars
<1>7. CASE StartListing(w)
  <2>1. pc[w] \in {"refreshing", "waiting"} /\ waiters' \in Seq(WorkerIds)
    BY <1>7, GetsLockType DEF StartListing
  <2>2. discoveryLock = Nobody /\ Nobody \notin WorkerIds
    BY <1>7, CountsAssumption DEF StartListing, GetsLock
  <2>3. JobHeld' /\ LockHeld'
    BY <1>7, <2>1, <2>2 DEF StartListing, TypeOK
  <2> QED
    BY <1>7, <2>1, <2>3 DEF StartListing, TypeOK, queueVars, outcomeVars
<1>8. CASE FinishListing(w)
  <2>1. /\ EnqueueDiscovered /\ TopUp(w, queue')
        /\ pc[w] = "listing" /\ discoveryLock = w
    BY <1>8 DEF FinishListing
  <2>2. /\ pc' \in [WorkerIds -> PCs] /\ pc'[w] = "ready"
        /\ \A v \in WorkerIds \ {w} :
              pc'[v] = pc[v] \/ (pc[v] = "none" /\ pc'[v] = "ready")
    BY <2>1, TopUpType
  <2>3. discoveryLock' = Nobody /\ Nobody \notin WorkerIds
    BY <2>1, EnqueueDiscoveredType, CountsAssumption
  <2>4. JobHeld' /\ LockHeld'
    BY <1>8, <2>1, <2>2, <2>3 DEF FinishListing
  <2> QED
    BY <1>8, <2>1, <2>2, <2>4, EnqueueDiscoveredType
    DEF FinishListing, EnqueueDiscovered, TypeOK, outcomeVars
<1> QED
  BY <1>1, <1>2, <1>3, <1>4, <1>5, <1>6, <1>7, <1>8 DEF RunWorker

LEMMA TickType == TypeInv /\ Tick => TypeInv'
BY TimesAssumption DEF TypeInv, JobHeld, LockHeld, Tick, TypeOK, queueVars, outcomeVars, lockVars

LEMMA NextType == TypeInv /\ [Next]_vars => TypeInv'
<1> SUFFICES ASSUME TypeInv, [Next]_vars PROVE TypeInv'
  OBVIOUS
<1>1. CASE UNCHANGED vars
  BY <1>1 DEF vars, queueVars, outcomeVars, lockVars, TypeInv, TypeOK, JobHeld, LockHeld
<1>2. CASE Next
  BY <1>1, <1>2, ListingType, MainType, TickType, WorkerType, AttemptType
  DEF Next, Terminated
<1> QED
  BY <1>1, <1>2

\* Every variable of the run keeps its type, and a worker holds an item exactly
\* while it is forecasting it.
THEOREM TypeCorrect == Spec => [](TypeOK /\ JobHeld)
<1>1. Spec => []TypeInv
  BY InitType, NextType, PTL DEF Spec
<1> QED
  BY <1>1, PTL DEF TypeInv

-----------------------------------------------------------------------------
(* How a step moves questions.  Every step is one of six kinds, and the    *)
(* invariants below are proved kind by kind.                               *)

Stay == UNCHANGED <<queue, known, job, outcomeVars>>

Arrive == \E added \in SUBSET Items :
    /\ \A it \in added : it.q \notin known /\ it.attempt = 1
    /\ \A it, other \in added : it.q = other.q => it = other
    /\ queue' = queue \cup added
    /\ known' = known \cup {it.q : it \in added}
    /\ UNCHANGED <<job, outcomeVars>>

Cleared ==
    /\ now > StartDeadline /\ now' = now
    /\ queue' = {}
    /\ UNCHANGED <<known, job, outcomeVars>>

Taken(w) == \E it \in queue :
    /\ job[w] = NoItem /\ now <= StartDeadline
    /\ queue' = queue \ {it} /\ job' = [job EXCEPT ![w] = it]
    /\ starts' = [starts EXCEPT ![it.q] = @ + 1]
    /\ UNCHANGED <<known, results, firstFailures>>

Settled(w) ==
    /\ job[w] \in Items /\ job' = [job EXCEPT ![w] = NoItem]
    /\ \E outcome \in {"ok", "error", "hardlimit"} :
          results' = results \cup {Result(job[w], outcome)}
    /\ UNCHANGED <<queue, known, firstFailures, starts>>

Requeued(w) ==
    /\ job[w] \in Items /\ job[w].attempt = 1
    /\ job' = [job EXCEPT ![w] = NoItem]
    /\ \E it \in Items :
          it.q = job[w].q /\ it.attempt = 2 /\ queue' = queue \cup {it}
    /\ firstFailures' = firstFailures \cup {job[w].q}
    /\ UNCHANGED <<known, results, starts>>

Moves == \/ Stay \/ Arrive \/ Cleared
         \/ \E w \in WorkerIds : Taken(w) \/ Settled(w) \/ Requeued(w)

LEMMA NoItemFact == NoItem \notin Items /\ NoItem.q \notin Questions
BY CountsAssumption DEF NoItem, Items

LEMMA DiscoveredArrive ==
    ASSUME TypeOK, EnqueueDiscovered, UNCHANGED <<job, outcomeVars>>
    PROVE  Arrive
<1> DEFINE added == {NewItem(q, scan.found[q], CloseAt[q], arrival) : q \in Discovered}
<1>1. \A q \in Discovered : q \in Questions /\ q \notin known
  BY DEF Discovered
<1>2. ASSUME NEW q \in Discovered
      PROVE  /\ NewItem(q, scan.found[q], CloseAt[q], arrival) \in Items
             /\ NewItem(q, scan.found[q], CloseAt[q], arrival).q = q
             /\ NewItem(q, scan.found[q], CloseAt[q], arrival).attempt = 1
  <2>1. CloseAt[q] \in 0..NoClose
    BY <1>1, QuestionsAssumption, TimesAssumption DEF NoClose
  <2>2. scan.found[q] \in 0..NoRank /\ arrival \in Nat
    BY <1>1 DEF TypeOK
  <2>3. NewItem(q, scan.found[q], CloseAt[q], arrival) \in Items
    BY <1>1, <2>1, <2>2, NewItemType
  <2> QED
    BY <2>3 DEF NewItem
<1>3. added \in SUBSET Items
  BY <1>2
<1>4. known' = known \cup {it.q : it \in added}
  BY <1>2 DEF EnqueueDiscovered
<1>5. /\ \A it \in added : it.q \notin known /\ it.attempt = 1
      /\ \A it, other \in added : it.q = other.q => it = other
  BY <1>1, <1>2
<1>6. queue' = queue \cup added
  BY DEF EnqueueDiscovered
<1> HIDE DEF added
<1> QED
  BY <1>3, <1>4, <1>5, <1>6 DEF Arrive

LEMMA ExplicitArrive == ASSUME TypeOK, EnqueueExplicit PROVE Arrive
<1> DEFINE new == Explicit \ known
           item(q) == NewItem(q, NoRank, NoClose, arrival + ExplicitPos[q])
           added == {item(q) : q \in new}
<1>1. \A q \in new : q \in Questions /\ q \notin known
  BY QuestionsAssumption
<1>2. ASSUME NEW q \in new PROVE item(q) \in Items /\ item(q).q = q /\ item(q).attempt = 1
  <2>1. ExplicitPos[q] \in Nat /\ arrival \in Nat
    BY QuestionsAssumption DEF TypeOK
  <2>2. NoRank \in 0..NoRank /\ NoClose \in 0..NoClose
    BY CountsAssumption, TimesAssumption DEF NoRank, NoClose
  <2>3. NewItem(q, NoRank, NoClose, arrival + ExplicitPos[q]) \in Items
    BY <1>1, <2>1, <2>2, NewItemType
  <2> QED
    BY <2>3 DEF NewItem
<1>3. queue' = queue \cup added /\ known' = known \cup new
      /\ UNCHANGED <<job, outcomeVars>>
  BY DEF EnqueueExplicit
<1> HIDE DEF item
<1>4. added \in SUBSET Items
  BY <1>2
<1>5. known' = known \cup {it.q : it \in added}
  BY <1>2, <1>3
<1>6. /\ \A it \in added : it.q \notin known /\ it.attempt = 1
      /\ \A it, other \in added : it.q = other.q => it = other
  BY <1>1, <1>2
<1> HIDE DEF added
<1> QED
  BY <1>3, <1>4, <1>5, <1>6 DEF Arrive

LEMMA AttemptMoves ==
    ASSUME TypeInv, NEW w \in WorkerIds, EndAttempt(w)
    PROVE  Settled(w) \/ Requeued(w)
<1>1. /\ job[w] \in Items /\ job' = [job EXCEPT ![w] = NoItem]
      /\ UNCHANGED known /\ arrival \in Nat
  BY DEF EndAttempt, AttemptSucceeds, AttemptFails, AttemptOver, TypeInv, TypeOK, JobHeld
<1>2. CASE AttemptSucceeds(w)
  BY <1>1, <1>2 DEF AttemptSucceeds, AttemptOver, Recorded, Settled
<1>3. ASSUME NEW outcome \in {"error", "hardlimit"}, AttemptFails(w, outcome)
      PROVE  Settled(w) \/ Requeued(w)
  <2>1. CASE MayRetry(job[w], outcome)
    <3>1. LET it == Again(job[w])
          IN  it \in Items /\ it.q = job[w].q /\ it.attempt = 2
      BY <1>1 DEF Again, Items
    <3> QED
      BY <1>1, <1>3, <2>1, <3>1 DEF AttemptFails, AttemptOver, MayRetry, Requeued
  <2>2. CASE ~MayRetry(job[w], outcome)
    BY <1>1, <1>3, <2>2 DEF AttemptFails, AttemptOver, Recorded, Settled
  <2> QED
    BY <2>1, <2>2
<1> QED
  BY <1>2, <1>3 DEF EndAttempt

LEMMA WorkerMoves ==
    ASSUME TypeInv, NEW w \in WorkerIds, RunWorker(w)
    PROVE  Moves
<1>1. CASE QueueIsEmpty(w)
  BY <1>1 DEF QueueIsEmpty, Moves, Stay, queueVars, outcomeVars
<1>2. CASE StopStarting(w)
  BY <1>2 DEF StopStarting, Moves, Cleared, outcomeVars
<1>3. CASE StartQuestion(w)
  <2>1. job[w] = NoItem
    BY <1>3 DEF StartQuestion, MayRun, TypeInv, JobHeld
  <2> QED
    BY <1>3, <2>1 DEF StartQuestion, MostUrgent, Moves, Taken, outcomeVars
<1>4. CASE Discard(w) \/ WaitForLock(w) \/ SkipListing(w) \/ StartListing(w)
  BY <1>4 DEF Discard, WaitForLock, SkipListing, StartListing, Moves, Stay,
              queueVars, outcomeVars
<1>5. CASE FinishListing(w)
  BY <1>5, DiscoveredArrive DEF FinishListing, Moves, TypeInv, outcomeVars
<1> QED
  BY <1>1, <1>2, <1>3, <1>4, <1>5 DEF RunWorker

LEMMA NextMoves == TypeInv /\ [Next]_vars => Moves
<1> SUFFICES ASSUME TypeInv, [Next]_vars PROVE Moves
  OBVIOUS
<1>1. CASE RunListing \/ Tick \/ Terminated \/ UNCHANGED vars
  BY <1>1 DEF RunListing, ListTournament, ListingFails, Tick, Terminated, vars,
              queueVars, outcomeVars, Moves, Stay
<1>2. CASE FirstListingDone
  BY <1>2, DiscoveredArrive DEF FirstListingDone, Moves, TypeInv, outcomeVars
<1>3. CASE EnqueueExplicit
  BY <1>3, ExplicitArrive DEF Moves, TypeInv
<1>4. CASE Report
  BY <1>4 DEF Report, Moves, Stay, queueVars, outcomeVars
<1>5. ASSUME NEW w \in WorkerIds, RunWorker(w) \/ EndAttempt(w) PROVE Moves
  BY <1>5, WorkerMoves, AttemptMoves DEF Moves
<1> QED
  BY <1>1, <1>2, <1>3, <1>4, <1>5 DEF Next, RunMain
-----------------------------------------------------------------------------
(* A question is in one place.  Inductive once every place is inside       *)
(* `known': a new question is unknown, hence in no place yet.              *)

KnownCovers ==
    /\ \A it \in queue : it.q \in known
    /\ \A w \in WorkerIds : job[w] # NoItem => job[w].q \in known
    /\ \A r \in results : r.q \in known

PlaceInv == EachQuestionInOnePlace /\ KnownCovers

LEMMA PlaceStep == TypeInv /\ PlaceInv /\ Moves => PlaceInv'
<1> SUFFICES ASSUME TypeInv, PlaceInv, Moves PROVE PlaceInv'
  OBVIOUS
<1> USE NoItemFact DEF PlaceInv, KnownCovers, EachQuestionInOnePlace
<1>1. /\ job \in [WorkerIds -> Items \cup {NoItem}] /\ queue \subseteq Items
      /\ known \subseteq Questions
      /\ \A it \in Items : it.q \in Questions
      /\ \A r \in results : r.q \in Questions
  BY DEF TypeInv, TypeOK, Items
<1>2. CASE Stay
  BY <1>2 DEF Stay, outcomeVars
<1>3. CASE Arrive
  <2>1. PICK added \in SUBSET Items :
          /\ \A it \in added : it.q \notin known
          /\ \A it, other \in added : it.q = other.q => it = other
          /\ queue' = queue \cup added
          /\ known' = known \cup {it.q : it \in added}
          /\ UNCHANGED <<job, results>>
    BY <1>3 DEF Arrive, outcomeVars
  <2>2. KnownCovers'
    BY <2>1
  <2>3. EachQuestionInOnePlace'
    <3>1. ASSUME NEW a \in queue', NEW b \in queue', a.q = b.q PROVE a = b
      BY <2>1, <3>1
    <3>2. ASSUME NEW it \in queue', NEW w \in WorkerIds PROVE job'[w].q # it.q
      BY <1>1, <2>1
    <3>3. ASSUME NEW r \in results', NEW it \in queue' PROVE it.q # r.q
      BY <2>1
    <3> QED
      BY <2>1, <3>1, <3>2, <3>3
  <2> QED
    BY <2>2, <2>3
<1>4. CASE Cleared
  BY <1>4 DEF Cleared, outcomeVars
<1>5. ASSUME NEW w \in WorkerIds, Taken(w) PROVE PlaceInv'
  <2>1. PICK it \in queue : /\ queue' = queue \ {it} /\ job' = [job EXCEPT ![w] = it]
                            /\ UNCHANGED <<known, results>>
    BY <1>5 DEF Taken
  <2>2. /\ it \in Items /\ job'[w] = it
        /\ \A v \in WorkerIds \ {w} : job'[v] = job[v]
    BY <1>1, <2>1
  <2>3. EachQuestionInOnePlace'
    BY <1>1, <2>1, <2>2
  <2>4. KnownCovers'
    BY <2>1, <2>2
  <2> QED
    BY <2>3, <2>4
<1>6. ASSUME NEW w \in WorkerIds, Settled(w) PROVE PlaceInv'
  <2>1. PICK outcome \in {"ok", "error", "hardlimit"} :
          results' = results \cup {Result(job[w], outcome)}
    BY <1>6 DEF Settled
  <2>2. /\ job[w] \in Items /\ job'[w] = NoItem /\ UNCHANGED <<queue, known>>
        /\ \A v \in WorkerIds \ {w} : job'[v] = job[v]
    BY <1>1, <1>6 DEF Settled
  <2>3. Result(job[w], outcome).q = job[w].q
    BY DEF Result
  <2>5. \A r \in results : r.q # job[w].q
    BY <2>2
  <2>4. EachQuestionInOnePlace'
    BY <1>1, <2>1, <2>2, <2>3, <2>5
  <2>6. KnownCovers'
    BY <2>1, <2>2, <2>3
  <2> QED
    BY <2>4, <2>6
<1>7. ASSUME NEW w \in WorkerIds, Requeued(w) PROVE PlaceInv'
  <2>1. PICK it \in Items : it.q = job[w].q /\ queue' = queue \cup {it}
    BY <1>7 DEF Requeued
  <2>2. /\ job[w] \in Items /\ job'[w] = NoItem /\ UNCHANGED <<results, known>>
        /\ \A v \in WorkerIds \ {w} : job'[v] = job[v]
    BY <1>1, <1>7 DEF Requeued
  <2>3. EachQuestionInOnePlace'
    BY <1>1, <2>1, <2>2
  <2>4. KnownCovers'
    BY <2>1, <2>2
  <2> QED
    BY <2>3, <2>4
<1> QED
  BY <1>2, <1>3, <1>4, <1>5, <1>6, <1>7 DEF Moves

\* No interleaving of workers, listings and retries ever puts a question in two
\* places at once: two workers, a worker and the queue, or a result and either.
THEOREM OnePlace == Spec => []EachQuestionInOnePlace
<1>1. Init => PlaceInv
  BY NoItemFact DEF Init, PlaceInv, KnownCovers, EachQuestionInOnePlace
<1>2. TypeInv /\ PlaceInv /\ [Next]_vars => PlaceInv'
  BY NextMoves, PlaceStep
<1>3. Spec => [](TypeInv /\ PlaceInv)
  BY <1>1, <1>2, InitType, NextType, PTL DEF Spec
<1> QED
  BY <1>3, PTL DEF PlaceInv

-----------------------------------------------------------------------------
(* Nothing is lost before the start deadline.                              *)

LEMMA ClockNeverGoesBack == TypeInv /\ [Next]_vars => now' \in Int /\ now' >= now
<1> SUFFICES ASSUME TypeInv, [Next]_vars PROVE now' \in Int /\ now' >= now
  OBVIOUS
<1>1. now \in Int
  BY TimesAssumption DEF TypeInv, TypeOK
<1>2. now' = now \/ now' = now + 1
  <2>1. CASE RunListing \/ RunMain \/ Tick \/ Terminated \/ UNCHANGED vars
    BY <2>1 DEF RunListing, ListTournament, ListingFails, RunMain, FirstListingDone,
                EnqueueExplicit, Report, Tick, Terminated, vars
  <2>2. ASSUME NEW w \in WorkerIds, RunWorker(w) \/ EndAttempt(w) PROVE now' = now
    BY <2>2 DEF RunWorker, QueueIsEmpty, StopStarting, StartQuestion, Discard,
                WaitForLock, SkipListing, StartListing, FinishListing,
                EndAttempt, AttemptSucceeds, AttemptFails, AttemptOver
  <2> QED
    BY <2>1, <2>2 DEF Next
<1> QED
  BY <1>1, <1>2

LEMMA NothingLostStep ==
    TypeInv /\ NothingLostBeforeDeadline /\ Moves /\ now' \in Int /\ now' >= now
        => NothingLostBeforeDeadline'
<1> SUFFICES ASSUME TypeInv, NothingLostBeforeDeadline, Moves, now' \in Int, now' >= now,
                    NEW q \in known', now' <= StartDeadline
             PROVE  \/ \E it \in queue' : it.q = q
                    \/ \E w \in WorkerIds : job'[w].q = q
                    \/ \E r \in results' : r.q = q
  <2>1. StartDeadline \in Int
    BY TimesAssumption DEF StartDeadline
  <2>2. UNCHANGED StartDeadline
    BY DEF StartDeadline
  <2> QED
    BY <2>1, <2>2 DEF NothingLostBeforeDeadline
<1> USE NoItemFact DEF NothingLostBeforeDeadline
<1>1. /\ now <= StartDeadline /\ now \in Int /\ StartDeadline \in Int
      /\ job \in [WorkerIds -> Items \cup {NoItem}] /\ known \subseteq Questions
  BY TimesAssumption DEF TypeInv, TypeOK, StartDeadline
<1>2. q \in known =>
        \/ \E it \in queue : it.q = q
        \/ \E w \in WorkerIds : job[w].q = q
        \/ \E r \in results : r.q = q
  BY <1>1
<1>3. CASE Stay
  BY <1>2, <1>3 DEF Stay, outcomeVars
<1>4. CASE Arrive
  BY <1>2, <1>4 DEF Arrive, outcomeVars
<1>5. CASE Cleared
  BY <1>1, <1>5 DEF Cleared
<1>6. ASSUME NEW w \in WorkerIds, Taken(w) \/ Settled(w) \/ Requeued(w)
      PROVE  \/ \E it \in queue' : it.q = q
             \/ \E v \in WorkerIds : job'[v].q = q
             \/ \E r \in results' : r.q = q
  <2>1. q \in known /\ q # NoItem.q
    BY <1>1, <1>6 DEF Taken, Settled, Requeued
  <2>2. CASE Taken(w)
    BY <1>1, <1>2, <2>1, <2>2 DEF Taken
  <2>3. CASE Settled(w)
    BY <1>1, <1>2, <2>1, <2>3 DEF Settled, Result
  <2>4. CASE Requeued(w)
    BY <1>1, <1>2, <2>1, <2>4 DEF Requeued
  <2> QED
    BY <1>6, <2>2, <2>3, <2>4
<1> QED
  BY <1>3, <1>4, <1>5, <1>6 DEF Moves

\* Until the start deadline every question that entered the run is queued, in a
\* worker's hands or settled, whatever fails and however often tasks interleave.
THEOREM NothingLost == Spec => []NothingLostBeforeDeadline
<1>1. Init => NothingLostBeforeDeadline
  BY DEF Init, NothingLostBeforeDeadline
<1>2. TypeInv /\ NothingLostBeforeDeadline /\ [Next]_vars => NothingLostBeforeDeadline'
  BY NextMoves, NothingLostStep, ClockNeverGoesBack
<1> QED
  BY <1>1, <1>2, InitType, NextType, PTL DEF Spec
-----------------------------------------------------------------------------
(* The run ends in time.                                                   *)

\* A forecast in flight started before the start deadline and has not outlived
\* its timeout: the clock cannot pass a timer that is due.
InTime ==
    \A w \in WorkerIds : pc[w] = "forecasting" =>
        startedAt[w] <= StartDeadline /\ now <= startedAt[w] + QuestionTimeout

LEMMA InTimeStep == TypeInv /\ InTime /\ [Next]_vars => InTime'
<1> SUFFICES ASSUME TypeInv, InTime, [Next]_vars,
                    NEW v \in WorkerIds, pc'[v] = "forecasting"
             PROVE  startedAt'[v] <= StartDeadline /\ now' <= startedAt'[v] + QuestionTimeout
  BY DEF InTime, StartDeadline
<1>1. /\ now \in Int /\ StartDeadline \in Int /\ QuestionTimeout \in Nat
      /\ \A w \in WorkerIds : startedAt[w] \in Int
      /\ pc \in [WorkerIds -> PCs] /\ startedAt \in [WorkerIds -> 0..Horizon]
  BY TimesAssumption DEF TypeInv, TypeOK, StartDeadline, PCs
<1>2. pc[v] = "forecasting" =>
        startedAt[v] <= StartDeadline /\ now <= startedAt[v] + QuestionTimeout
  BY DEF InTime
<1>3. CASE UNCHANGED <<pc, startedAt, now>>
  BY <1>2, <1>3
<1>4. CASE Tick
  <2>1. pc[v] = "forecasting" /\ now < startedAt[v] + QuestionTimeout
    BY <1>1, <1>4 DEF Tick, TimeIsUp
  <2> QED
    BY <1>1, <1>2, <1>4, <2>1 DEF Tick
<1>5. CASE EnqueueExplicit
  <2>1. \A w \in WorkerIds : pc'[w] = pc[w] \/ pc'[w] = "ready"
    BY <1>5 DEF EnqueueExplicit, TopUp
  <2> QED
    BY <1>2, <1>5, <2>1 DEF EnqueueExplicit
<1>6. ASSUME NEW w \in WorkerIds, RunWorker(w)
      PROVE  startedAt'[v] <= StartDeadline /\ now' <= startedAt'[v] + QuestionTimeout
  <2>1. CASE StartQuestion(w)
    BY <1>1, <1>2, <2>1 DEF StartQuestion
  <2>2. CASE QueueIsEmpty(w) \/ StopStarting(w) \/ Discard(w)
    BY <1>1, <1>2, <2>2 DEF QueueIsEmpty, StopStarting, Discard
  <2>3. CASE WaitForLock(w) \/ StartListing(w)
    BY <1>1, <1>2, <2>3 DEF WaitForLock, StartListing
  <2>4. CASE SkipListing(w) \/ FinishListing(w)
    <3>1. /\ \A u \in WorkerIds : pc'[u] = pc[u] \/ pc'[u] = "ready"
          /\ UNCHANGED <<now, startedAt>>
      BY <2>4 DEF SkipListing, FinishListing, TopUp
    <3> QED
      BY <1>2, <3>1
  <2> QED
    BY <1>6, <2>1, <2>2, <2>3, <2>4 DEF RunWorker
<1>7. ASSUME NEW w \in WorkerIds, EndAttempt(w)
      PROVE  startedAt'[v] <= StartDeadline /\ now' <= startedAt'[v] + QuestionTimeout
  <2>1. AttemptOver(w)
    BY <1>7 DEF EndAttempt, AttemptSucceeds, AttemptFails
  <2> QED
    BY <1>1, <1>2, <2>1 DEF AttemptOver
<1>8. CASE RunListing \/ FirstListingDone \/ Report \/ Terminated \/ UNCHANGED vars
  BY <1>3, <1>8 DEF RunListing, ListTournament, ListingFails, FirstListingDone, Report,
                    Terminated, vars
<1> QED
  BY <1>4, <1>5, <1>6, <1>7, <1>8 DEF Next, RunMain

\* "the run ends inside the job limit": for every time limit, timeout and set of
\* questions, no forecast is in flight after RUN_TIME_LIMIT_SECONDS.
THEOREM RunFitsTimeLimit == Spec => []NoForecastAfterTimeLimit
<1>1. Init => InTime
  BY DEF Init, InTime
<1>2. TypeInv /\ InTime => NoForecastAfterTimeLimit
  <2> SUFFICES ASSUME TypeInv, InTime, NEW w \in WorkerIds, pc[w] = "forecasting"
               PROVE  now <= RunTimeLimit
    BY DEF NoForecastAfterTimeLimit
  <2>1. startedAt[w] \in Int /\ now \in Int
    BY TimesAssumption DEF TypeInv, TypeOK
  <2> QED
    BY <2>1, TimesAssumption DEF InTime, StartDeadline
<1> QED
  BY <1>1, <1>2, InTimeStep, InitType, NextType, PTL DEF Spec

-----------------------------------------------------------------------------
(* Retries.                                                                *)

\* Where a question is, its attempt number says how often it was started and
\* whether it has failed before.
AttemptsCounted ==
    /\ \A it \in queue :
          /\ it.attempt = 2 <=> it.q \in firstFailures
          /\ starts[it.q] = it.attempt - 1
    /\ \A w \in WorkerIds : job[w] # NoItem =>
          /\ job[w].attempt = 2 <=> job[w].q \in firstFailures
          /\ starts[job[w].q] = job[w].attempt
    /\ \A r \in results : starts[r.q] = r.attempt
    /\ \A q \in Questions : q \notin known => starts[q] = 0
    /\ firstFailures \subseteq known

AtMostTwice == \A q \in Questions :
    starts[q] <= 2 /\ (starts[q] = 2 => q \in firstFailures)

LEMMA AttemptsStep == TypeInv /\ PlaceInv /\ AttemptsCounted /\ Moves => AttemptsCounted'
<1> SUFFICES ASSUME TypeInv, PlaceInv, AttemptsCounted, Moves PROVE AttemptsCounted'
  OBVIOUS
<1> USE NoItemFact DEF AttemptsCounted
<1>1. /\ job \in [WorkerIds -> Items \cup {NoItem}] /\ queue \subseteq Items
      /\ starts \in [Questions -> Nat]
      /\ \A it \in Items : it.q \in Questions /\ it.attempt \in {1, 2}
      /\ \A r \in results : r.q \in Questions
  BY DEF TypeInv, TypeOK, Items
<1>2. CASE Stay \/ Cleared
  BY <1>2 DEF Stay, Cleared, outcomeVars
<1>3. CASE Arrive
  <2>1. PICK added \in SUBSET Items :
          /\ \A it \in added : it.q \notin known /\ it.attempt = 1
          /\ queue' = queue \cup added
          /\ known' = known \cup {it.q : it \in added}
          /\ UNCHANGED <<job, outcomeVars>>
    BY <1>3 DEF Arrive
  <2>2. \A it \in added : starts[it.q] = it.attempt - 1 /\ it.q \notin firstFailures
    BY <1>1, <2>1
  <2> QED
    BY <1>1, <2>1, <2>2 DEF outcomeVars
<1>4. ASSUME NEW w \in WorkerIds, Taken(w) PROVE AttemptsCounted'
  <2>1. PICK it \in queue :
          /\ queue' = queue \ {it} /\ job' = [job EXCEPT ![w] = it]
          /\ starts' = [starts EXCEPT ![it.q] = @ + 1]
          /\ UNCHANGED <<known, results, firstFailures>>
    BY <1>4 DEF Taken
  <2>2. /\ it \in Items /\ it.q \in known /\ starts'[it.q] = it.attempt
        /\ \A q \in Questions \ {it.q} : starts'[q] = starts[q]
        /\ job'[w] = it /\ \A v \in WorkerIds \ {w} : job'[v] = job[v]
    BY <1>1, <2>1 DEF PlaceInv, KnownCovers
  <2>3. /\ \A other \in queue' : other.q # it.q
        /\ \A v \in WorkerIds : job[v].q # it.q
        /\ \A r \in results : r.q # it.q
    BY <2>1 DEF PlaceInv, EachQuestionInOnePlace
  <2>4. \A other \in queue' : starts'[other.q] = other.attempt - 1
    BY <1>1, <2>1, <2>2, <2>3
  <2>5. \A v \in WorkerIds : job'[v] # NoItem =>
          /\ job'[v].attempt = 2 <=> job'[v].q \in firstFailures
          /\ starts'[job'[v].q] = job'[v].attempt
    <3> SUFFICES ASSUME NEW v \in WorkerIds, job'[v] # NoItem
                 PROVE  /\ job'[v].attempt = 2 <=> job'[v].q \in firstFailures
                        /\ starts'[job'[v].q] = job'[v].attempt
      OBVIOUS
    <3>1. CASE v = w BY <2>1, <2>2, <3>1
    <3>2. CASE v # w
      <4>1. job'[v] = job[v] /\ job[v] \in Items BY <1>1, <2>2, <3>2
      <4> QED BY <1>1, <2>2, <2>3, <4>1
    <3> QED BY <3>1, <3>2
  <2>6. \A r \in results' : starts'[r.q] = r.attempt
    BY <1>1, <2>1, <2>2, <2>3
  <2>7. \A q \in Questions : q \notin known' => starts'[q] = 0
    BY <2>1, <2>2
  <2> QED
    BY <2>1, <2>4, <2>5, <2>6, <2>7
<1>5. ASSUME NEW w \in WorkerIds, Settled(w) PROVE AttemptsCounted'
  <2>1. PICK outcome \in {"ok", "error", "hardlimit"} :
          results' = results \cup {Result(job[w], outcome)}
    BY <1>5 DEF Settled
  <2>2. /\ job[w] \in Items /\ job[w] # NoItem /\ job'[w] = NoItem
        /\ \A v \in WorkerIds \ {w} : job'[v] = job[v]
        /\ UNCHANGED <<queue, known, firstFailures, starts>>
    BY <1>1, <1>5 DEF Settled
  <2>3. \A r \in results' : starts[r.q] = r.attempt
    BY <2>1, <2>2 DEF Result
  <2> QED
    BY <2>2, <2>3
<1>6. ASSUME NEW w \in WorkerIds, Requeued(w) PROVE AttemptsCounted'
  <2>1. PICK it \in Items : it.q = job[w].q /\ it.attempt = 2 /\ queue' = queue \cup {it}
    BY <1>6 DEF Requeued
  <2>2. /\ job[w] \in Items /\ job[w].attempt = 1 /\ job'[w] = NoItem
        /\ \A v \in WorkerIds \ {w} : job'[v] = job[v]
        /\ firstFailures' = firstFailures \cup {job[w].q}
        /\ UNCHANGED <<known, results, starts>>
    BY <1>1, <1>6 DEF Requeued
  <2>3. /\ job[w].q \in known /\ starts[it.q] = it.attempt - 1
        /\ \A other \in queue : other.q # job[w].q
        /\ \A v \in WorkerIds \ {w} : job[v] # NoItem => job[v].q # job[w].q
    BY <1>1, <2>1, <2>2 DEF PlaceInv, KnownCovers, EachQuestionInOnePlace
  <2> QED
    BY <2>1, <2>2, <2>3
<1> QED
  BY <1>2, <1>3, <1>4, <1>5, <1>6 DEF Moves

\* Counting starts, a step adds one only to a question that had none, or had failed.
LEMMA TwiceStep ==
    TypeInv /\ AttemptsCounted /\ AtMostTwice /\ Moves => AtMostTwice'
<1> SUFFICES ASSUME TypeInv, AttemptsCounted, AtMostTwice, Moves PROVE AtMostTwice'
  OBVIOUS
<1>1. /\ starts \in [Questions -> Nat] /\ queue \subseteq Items
      /\ \A it \in Items : it.q \in Questions /\ it.attempt \in {1, 2}
  BY DEF TypeInv, TypeOK, Items
<1>2. ASSUME NEW w \in WorkerIds, Taken(w) PROVE AtMostTwice'
  <2>1. PICK it \in queue : /\ starts' = [starts EXCEPT ![it.q] = @ + 1]
                            /\ UNCHANGED firstFailures
    BY <1>2 DEF Taken
  <2>2. /\ starts[it.q] = it.attempt - 1 /\ it.attempt \in {1, 2} /\ it.q \in Questions
        /\ it.attempt = 2 => it.q \in firstFailures
    BY <1>1 DEF AttemptsCounted
  <2> QED
    BY <1>1, <2>1, <2>2 DEF AtMostTwice
<1>3. CASE UNCHANGED starts /\ firstFailures \subseteq firstFailures'
  BY <1>3 DEF AtMostTwice
<1> QED
  BY <1>2, <1>3 DEF Moves, Stay, Arrive, Cleared, Settled, Requeued, outcomeVars

\* No question is started a third time, and none a second time before its first
\* attempt has failed.
THEOREM OneRetry == Spec => []RetriedAtMostOnce
<1> DEFINE Inv == TypeInv /\ PlaceInv /\ AttemptsCounted /\ AtMostTwice
<1>1. Init => PlaceInv /\ AttemptsCounted /\ AtMostTwice
  BY NoItemFact DEF Init, PlaceInv, KnownCovers, EachQuestionInOnePlace,
                    AttemptsCounted, AtMostTwice
<1>2. Inv /\ [Next]_vars => Inv'
  BY NextType, NextMoves, PlaceStep, AttemptsStep, TwiceStep
<1>3. Inv => RetriedAtMostOnce
  BY DEF AttemptsCounted, AtMostTwice, RetriedAtMostOnce
<1> QED
  BY <1>1, <1>2, <1>3, InitType, PTL DEF Spec
-----------------------------------------------------------------------------
(* The order questions are started in.                                     *)

\* The least rank of a question's tournaments is one of theirs, and none of them is
\* as high as that of a question no tournament lists.
LEMMA LeastRank ==
    ASSUME NEW q \in Questions
    PROVE  /\ Rank(q) \in 0..NoRank
           /\ \A r \in Home[q] : Rank(q) <= r
<1>1. Home[q] \subseteq 0..(NumTournaments - 1) /\ NumTournaments \in Nat
  BY CountsAssumption, QuestionsAssumption DEF Tournaments
<1>2. CASE Home[q] = {}
  BY <1>1, <1>2 DEF Rank, NoRank
<1>3. CASE Home[q] # {}
  <2>1. Home[q] \subseteq Nat
    BY <1>1
  <2>2. IsWellFoundedOn(OpToRel(<, Nat), Nat)
    BY NatLessThanWellFounded
  <2>3. PICK m \in Home[q] : \A r \in Home[q] : ~ (<<r, m>> \in OpToRel(<, Nat))
    BY <1>3, <2>1, <2>2, WFMin
  <2>4. \A r \in Home[q] : ~ (r < m)
    BY <2>1, <2>3 DEF OpToRel
  <2>5. \A r \in Home[q] : m <= r
    BY <2>1, <2>4
  <2>6. Rank(q) \in Home[q] /\ \A r \in Home[q] : Rank(q) <= r
    BY <1>3, <2>5 DEF Rank
  <2> QED
    BY <1>1, <2>6 DEF NoRank
<1> QED
  BY <1>2, <1>3

\* An item claims no more urgency than its question has.
Claimed(it) == Rank(it.q) <= it.rank /\ CloseAt[it.q] <= it.close

\* Nor does what the listing has found so far.
RankInv ==
    /\ \A q \in Questions : scan.found[q] = NoRank \/ scan.found[q] \in Home[q]
    /\ \A it \in queue : Claimed(it)
    /\ \A w \in WorkerIds : job[w] # NoItem => Claimed(job[w])

LEMMA NewlyClaimed ==
    ASSUME NEW q \in Questions, NEW rank \in 0..NoRank, NEW close \in 0..NoClose, NEW seq \in Nat,
           \/ rank \in Home[q] /\ close = CloseAt[q]
           \/ rank = NoRank /\ close = CloseAt[q]
           \/ rank = NoRank /\ close = NoClose
    PROVE  Claimed(NewItem(q, rank, close, seq))
<1>1. CloseAt[q] \in 0..Horizon /\ Horizon \in Nat /\ NumTournaments \in Nat
  BY QuestionsAssumption, TimesAssumption, CountsAssumption
<1>2. NewItem(q, rank, close, seq).q = q /\ NewItem(q, rank, close, seq).rank = rank
      /\ NewItem(q, rank, close, seq).close = close
  BY DEF NewItem
<1>3. CloseAt[q] <= close
  BY <1>1 DEF NoClose
<1>4. Rank(q) <= rank
  BY <1>1, LeastRank DEF NoRank
<1> QED
  BY <1>2, <1>3, <1>4 DEF Claimed

\* What a listing enqueues claims the rank it was found at.
LEMMA DiscoveredClaim ==
    ASSUME TypeOK, RankInv, EnqueueDiscovered, job' = job
    PROVE  RankInv'
<1>1. ASSUME NEW q \in Discovered
      PROVE  Claimed(NewItem(q, scan.found[q], CloseAt[q], arrival))
  <2>1. q \in Questions /\ scan.found[q] \in Home[q]
    BY <1>1 DEF Discovered, RankInv
  <2>2. CloseAt[q] \in 0..NoClose
    BY <2>1, QuestionsAssumption, TimesAssumption DEF NoClose
  <2>3. scan.found[q] \in 0..NoRank /\ arrival \in Nat
    BY <2>1 DEF TypeOK
  <2> QED
    BY <2>1, <2>2, <2>3, NewlyClaimed
<1>2. \A it \in queue' : Claimed(it)
  BY <1>1 DEF EnqueueDiscovered, RankInv
<1>3. \A q \in Questions : scan'.found[q] = NoRank
  BY DEF EnqueueDiscovered, IdleScan
<1> QED
  BY <1>2, <1>3 DEF RankInv, Claimed

LEMMA ExplicitClaim == ASSUME TypeOK, RankInv, EnqueueExplicit PROVE RankInv'
<1> DEFINE new == Explicit \ known
<1>1. ASSUME NEW q \in new
      PROVE  Claimed(NewItem(q, NoRank, NoClose, arrival + ExplicitPos[q]))
  <2>1. q \in Questions /\ ExplicitPos[q] \in Nat /\ arrival \in Nat
    BY QuestionsAssumption DEF TypeOK
  <2>2. NoRank \in 0..NoRank /\ NoClose \in 0..NoClose
    BY CountsAssumption, TimesAssumption DEF NoRank, NoClose
  <2> QED
    BY <2>1, <2>2, NewlyClaimed
<1>2. queue' = queue \cup {NewItem(q, NoRank, NoClose, arrival + ExplicitPos[q]) : q \in new}
  BY DEF EnqueueExplicit
<1>3. \A it \in queue' : Claimed(it)
  BY <1>1, <1>2 DEF RankInv
<1> QED
  BY <1>3 DEF RankInv, EnqueueExplicit, lockVars, Claimed

\* A question that failed is queued again with the rank and the close time it had.
LEMMA AttemptClaims ==
    ASSUME TypeInv, RankInv, NEW w \in WorkerIds, EndAttempt(w) PROVE RankInv'
<1>1. AttemptOver(w) /\ job[w] # NoItem /\ job[w] \in Items /\ Claimed(job[w])
  BY DEF EndAttempt, AttemptSucceeds, AttemptFails, AttemptOver, TypeInv, TypeOK, JobHeld, RankInv
<1>2. Claimed(Again(job[w]))
  BY <1>1 DEF Again, Items, Claimed
<1>3. queue' = queue \/ queue' = queue \cup {Again(job[w])}
  BY DEF EndAttempt, AttemptSucceeds, AttemptFails
<1>4. \A v \in WorkerIds : job'[v] = NoItem \/ job'[v] = job[v]
  BY <1>1 DEF AttemptOver, TypeInv, TypeOK
<1>5. scan' = scan
  BY <1>1 DEF AttemptOver, lockVars
<1> QED
  BY <1>2, <1>3, <1>4, <1>5 DEF RankInv, Claimed

LEMMA WorkerClaims ==
    ASSUME TypeInv, RankInv, NEW w \in WorkerIds, RunWorker(w) PROVE RankInv'
<1> USE DEF RankInv, Claimed
<1>1. CASE QueueIsEmpty(w) \/ StopStarting(w) \/ Discard(w)
  BY <1>1 DEF QueueIsEmpty, StopStarting, Discard, queueVars, lockVars
<1>2. CASE StartQuestion(w)
  <2>1. PICK it \in queue : queue' = queue \ {it} /\ job' = [job EXCEPT ![w] = it]
    BY <1>2 DEF StartQuestion, MostUrgent
  <2> QED
    BY <1>2, <2>1 DEF StartQuestion, lockVars, TypeInv, TypeOK
<1>3. CASE WaitForLock(w) \/ SkipListing(w) \/ StartListing(w)
  BY <1>3 DEF WaitForLock, SkipListing, StartListing, queueVars
<1>4. CASE FinishListing(w)
  BY <1>4, DiscoveredClaim DEF FinishListing, TypeInv
<1> QED
  BY <1>1, <1>2, <1>3, <1>4 DEF RunWorker

LEMMA RankStep == TypeInv /\ RankInv /\ [Next]_vars => RankInv'
<1> SUFFICES ASSUME TypeInv, RankInv, [Next]_vars PROVE RankInv'
  OBVIOUS
<1>1. CASE ListTournament
  <2>1. \A q \in Questions : scan'.found[q] = NoRank \/ scan'.found[q] \in Home[q]
    BY <1>1 DEF ListTournament, TypeInv, TypeOK, RankInv
  <2> QED
    BY <1>1, <2>1 DEF ListTournament, queueVars, RankInv, Claimed
<1>2. CASE ListingFails
  BY <1>2 DEF ListingFails, TypeInv, TypeOK, queueVars, RankInv, Claimed
<1>3. CASE RunMain
  <2>1. CASE FirstListingDone
    BY <2>1, DiscoveredClaim DEF FirstListingDone, TypeInv
  <2>2. CASE EnqueueExplicit
    BY <2>2, ExplicitClaim DEF TypeInv
  <2>3. CASE Report
    BY <2>3 DEF Report, queueVars, lockVars, RankInv, Claimed
  <2> QED
    BY <1>3, <2>1, <2>2, <2>3 DEF RunMain
<1>4. CASE Tick \/ UNCHANGED vars
  BY <1>4 DEF Tick, vars, queueVars, lockVars, RankInv, Claimed
<1> QED
  BY <1>1, <1>2, <1>3, <1>4, WorkerClaims, AttemptClaims DEF Next, RunListing, Terminated

\* What is started claims to be at least as urgent as what stays, and is at least as
\* urgent as it claims.
LEMMA StartsUrgent ==
    ASSUME TypeInv, RankInv, [Next]_vars,
           NEW w \in WorkerIds, job[w] = NoItem, job'[w] # NoItem,
           NEW it \in queue', it.rank = Rank(it.q), it.close = CloseAt[it.q]
    PROVE  \/ Rank(job'[w].q) < Rank(it.q)
           \/ /\ Rank(job'[w].q) = Rank(it.q)
              /\ CloseAt[job'[w].q] <= CloseAt[it.q]
<1>1. StartQuestion(w)
  BY DEF Next, vars, RunListing, ListTournament, ListingFails, RunMain, FirstListingDone,
     EnqueueExplicit, Report, Tick, Terminated, RunWorker, QueueIsEmpty, StopStarting,
     StartQuestion, Discard, WaitForLock, SkipListing, StartListing, FinishListing,
     EndAttempt, AttemptSucceeds, AttemptFails, AttemptOver, TypeInv, TypeOK
<1>2. PICK mine \in MostUrgent : queue' = queue \ {mine} /\ job' = [job EXCEPT ![w] = mine]
  BY <1>1 DEF StartQuestion
<1>3. mine \in queue /\ it \in queue /\ mine \in Items /\ it \in Items /\ job'[w] = mine
  BY <1>2 DEF MostUrgent, TypeInv, TypeOK
<1>4. ~Before(it, mine)
  BY <1>2, <1>3 DEF MostUrgent
<1>5. Rank(mine.q) <= mine.rank /\ CloseAt[mine.q] <= mine.close
  BY <1>3 DEF RankInv, Claimed
<1>6. /\ {mine.rank, it.rank, mine.close, it.close} \subseteq Int
      /\ {Rank(mine.q), Rank(it.q), CloseAt[mine.q], CloseAt[it.q]} \subseteq Int
  BY <1>3, LeastRank, QuestionsAssumption, CountsAssumption, TimesAssumption
  DEF Items, NoRank, NoClose
<1>7. mine.rank < it.rank \/ (mine.rank = it.rank /\ mine.close <= it.close)
  BY <1>4, <1>6 DEF Before
<1> QED
  BY <1>3, <1>5, <1>6, <1>7

\* No open question that a listing has ranked waits while a less urgent one is started.
THEOREM UrgentAlwaysFirst == Spec => UrgentFirst
<1>1. Init => RankInv
  BY DEF Init, IdleScan, RankInv
<1>2. TypeInv /\ RankInv /\ [Next]_vars =>
        [\A w \in WorkerIds : job[w] = NoItem /\ job'[w] # NoItem
          => \A it \in queue' :
                IsOpen(it.q) /\ it.rank = Rank(it.q) /\ it.close = CloseAt[it.q]
                => \/ Rank(job'[w].q) < Rank(it.q)
                   \/ /\ Rank(job'[w].q) = Rank(it.q)
                      /\ CloseAt[job'[w].q] <= CloseAt[it.q]]_vars
  BY StartsUrgent
<1> QED
  BY <1>1, <1>2, RankStep, InitType, NextType, PTL DEF Spec, UrgentFirst

-----------------------------------------------------------------------------
(* The bound on the workers, and no lost wakeup.                           *)

\* Workers are spawned only by top_up(), never before the queue is loaded.
NoWorkersYet == phase \in {"listing", "loading"} => Workers = {}

\* How a step changes the set of worker tasks.
Keeps == Workers' \subseteq Workers
Spawns(q) == \E spawned \in SUBSET (WorkerIds \ Workers) :
    /\ Workers' = Workers \cup spawned
    /\ IF q # {} /\ Cardinality(Workers) < Limit(q)
       THEN Cardinality(spawned) = Limit(q) - Cardinality(Workers)
       ELSE spawned = {}

LEMMA TopUpSpawns ==
    ASSUME TypeOK, NEW w, NEW q, TopUp(w, q),
           w \in WorkerIds => w \in Workers
    PROVE  Spawns(q)
<1>1. PICK spawned \in SUBSET (WorkerIds \ Workers) :
        /\ IF q # {} /\ Cardinality(Workers) < Limit(q)
           THEN Cardinality(spawned) = Limit(q) - Cardinality(Workers)
           ELSE spawned = {}
        /\ pc' = [v \in WorkerIds |->
                     IF v = w \/ v \in spawned THEN "ready" ELSE pc[v]]
  BY DEF TopUp
<1>2. Workers' = Workers \cup spawned
  BY <1>1 DEF Workers
<1> QED
  BY <1>1, <1>2 DEF Spawns

LEMMA WorkersStep ==
    ASSUME TypeInv, [Next]_vars
    PROVE  Keeps \/ Spawns(queue')
<1>1. CASE UNCHANGED pc
  BY <1>1 DEF Keeps, Workers
<1>2. CASE RunListing \/ FirstListingDone \/ Report \/ Tick \/ Terminated \/ UNCHANGED vars
  BY <1>1, <1>2 DEF RunListing, ListTournament, ListingFails, FirstListingDone, Report,
                    Tick, Terminated, vars
<1>3. CASE EnqueueExplicit
  BY <1>3, TopUpSpawns, CountsAssumption DEF EnqueueExplicit, TypeInv
<1>4. ASSUME NEW w \in WorkerIds, RunWorker(w) PROVE Keeps \/ Spawns(queue')
  <2>0. pc \in [WorkerIds -> PCs]
    BY DEF TypeInv, TypeOK, PCs
  <2>1. CASE QueueIsEmpty(w) \/ StopStarting(w) \/ StartQuestion(w) \/ Discard(w)
    BY <2>0, <2>1 DEF QueueIsEmpty, StopStarting, StartQuestion, MayRun, Discard, Keeps, Workers
  <2>2. CASE WaitForLock(w)
    BY <2>0, <2>2 DEF WaitForLock, AskingForLock, Keeps, Workers
  <2>3. CASE StartListing(w)
    BY <2>0, <2>3 DEF StartListing, GetsLock, AskingForLock, Keeps, Workers
  <2>4. CASE SkipListing(w)
    <3>1. pc[w] # "none" /\ TopUp(w, queue) /\ queue' = queue
      BY <2>4 DEF SkipListing, GetsLock, AskingForLock, queueVars
    <3>2. w \in Workers
      BY <3>1 DEF Workers
    <3> QED
      BY <3>1, <3>2, TopUpSpawns DEF TypeInv
  <2>5. CASE FinishListing(w)
    <3>1. pc[w] = "listing" /\ TopUp(w, queue')
      BY <2>5 DEF FinishListing, TypeInv, LockHeld
    <3>2. w \in Workers
      BY <3>1 DEF Workers
    <3> QED
      BY <3>1, <3>2, TopUpSpawns DEF TypeInv
  <2> QED
    BY <1>4, <2>1, <2>2, <2>3, <2>4, <2>5 DEF RunWorker
<1>5. ASSUME NEW w \in WorkerIds, EndAttempt(w) PROVE Keeps
  <2>1. AttemptOver(w)
    BY <1>5 DEF EndAttempt, AttemptSucceeds, AttemptFails
  <2> QED
    BY <2>1 DEF AttemptOver, Keeps, Workers, TypeInv, TypeOK
<1> QED
  BY <1>2, <1>3, <1>4, <1>5 DEF Next, RunMain

\* No worker asks for more than QUESTION_CONCURRENCY tasks, whichever of them
\* tops up and however many finish at once.
THEOREM WorkersBounded == Spec => []ConcurrencyBound
<1>1. Init => ConcurrencyBound
  <2> SUFFICES ASSUME Init PROVE Cardinality(Workers) = 0
    BY CountsAssumption DEF ConcurrencyBound
  <2>1. Workers = {}
    BY DEF Init, Workers
  <2> QED
    BY <2>1, FS_EmptySet
<1>2. TypeInv /\ ConcurrencyBound /\ [Next]_vars => ConcurrencyBound'
  <2> SUFFICES ASSUME TypeInv, ConcurrencyBound, [Next]_vars, Concurrency > 0
               PROVE  Cardinality(Workers') <= Concurrency
    BY DEF ConcurrencyBound
  <2>1. /\ IsFiniteSet(Workers) /\ IsFiniteSet(Workers') /\ Cardinality(Workers) \in Nat
        /\ Cardinality(Workers) <= Concurrency /\ Concurrency \in Nat
    <3>1. Workers \subseteq WorkerIds /\ Workers' \subseteq WorkerIds
      BY DEF Workers
    <3> QED
      BY <3>1, CountsAssumption, FS_Subset, FS_CardinalityType DEF ConcurrencyBound
  <2>2. CASE Keeps
    <3>1. Cardinality(Workers') <= Cardinality(Workers) /\ Cardinality(Workers') \in Nat
      BY <2>1, <2>2, FS_Subset, FS_CardinalityType DEF Keeps
    <3> QED
      BY <2>1, <3>1
  <2>3. CASE Spawns(queue')
    <3>1. PICK spawned \in SUBSET (WorkerIds \ Workers) :
            /\ Workers' = Workers \cup spawned
            /\ \/ Cardinality(spawned) = Concurrency - Cardinality(Workers)
               \/ spawned = {}
      BY <2>3 DEF Spawns, Limit
    <3>2. IsFiniteSet(spawned) /\ Cardinality(spawned) \in Nat
      BY CountsAssumption, FS_Subset, FS_CardinalityType
    <3>3. CASE spawned = {}
      BY <2>1, <3>1, <3>3
    <3>4. CASE Cardinality(spawned) = Concurrency - Cardinality(Workers)
      <4>1. Workers \cap spawned = {}
        OBVIOUS
      <4>2. Cardinality(Workers') =
              Cardinality(Workers) + Cardinality(spawned) - Cardinality({})
        BY <2>1, <3>1, <3>2, <4>1, FS_Union
      <4> QED
        BY <2>1, <3>2, <3>4, <4>2, FS_EmptySet
    <3> QED
      BY <3>1, <3>3, <3>4
  <2> QED
    BY <2>2, <2>3, WorkersStep
<1> QED
  BY <1>1, <1>2, InitType, NextType, PTL DEF Spec
-----------------------------------------------------------------------------
(* The queue is served.                                                    *)

QueueFinite == IsFiniteSet(queue)

LEMMA ImageFinite ==
    ASSUME NEW S, IsFiniteSet(S), NEW f, DOMAIN f = S
    PROVE  IsFiniteSet({f[x] : x \in S})
<1> DEFINE T == {f[x] : x \in S}
<1>1. [x \in S |-> f[x]] \in Surjection(S, T)
  BY DEF Surjection
<1> QED
  BY <1>1, FS_Surjection

LEMMA FiniteStep == TypeInv /\ QueueFinite /\ [Next]_vars => QueueFinite'
<1> SUFFICES ASSUME TypeInv, QueueFinite, [Next]_vars PROVE IsFiniteSet(queue')
  BY DEF QueueFinite
<1> USE DEF QueueFinite
<1>1. ASSUME EnqueueDiscovered PROVE IsFiniteSet(queue')
  <2> DEFINE f == [q \in Discovered |-> NewItem(q, scan.found[q], CloseAt[q], arrival)]
  <2>1. IsFiniteSet(Discovered)
    BY CountsAssumption, FS_Subset DEF Discovered
  <2>2. IsFiniteSet({f[q] : q \in Discovered})
    BY <2>1, ImageFinite
  <2>3. queue' = queue \cup {f[q] : q \in Discovered}
    BY <1>1 DEF EnqueueDiscovered
  <2> QED
    BY <2>2, <2>3, FS_Union
<1>2. CASE EnqueueExplicit
  <2> DEFINE new == Explicit \ known
             f == [q \in new |-> NewItem(q, NoRank, NoClose, arrival + ExplicitPos[q])]
  <2>1. IsFiniteSet(new)
    BY CountsAssumption, QuestionsAssumption, FS_Subset
  <2>2. IsFiniteSet({f[q] : q \in new})
    BY <2>1, ImageFinite
  <2>3. queue' = queue \cup {f[q] : q \in new}
    BY <1>2 DEF EnqueueExplicit
  <2> QED
    BY <2>2, <2>3, FS_Union
<1>3. ASSUME NEW w \in WorkerIds, EndAttempt(w) PROVE IsFiniteSet(queue')
  <2>1. queue' = queue \/ \E it : queue' = queue \cup {it}
    BY <1>3 DEF EndAttempt, AttemptSucceeds, AttemptFails
  <2> QED
    BY <2>1, FS_AddElement
<1>4. ASSUME NEW w \in WorkerIds, RunWorker(w) PROVE IsFiniteSet(queue')
  <2>1. CASE FinishListing(w)
    BY <1>1, <2>1 DEF FinishListing
  <2>2. CASE StopStarting(w)
    BY <2>2, FS_EmptySet DEF StopStarting
  <2>3. CASE StartQuestion(w)
    BY <2>3, FS_Subset DEF StartQuestion
  <2>4. CASE QueueIsEmpty(w) \/ Discard(w) \/ WaitForLock(w) \/ SkipListing(w) \/ StartListing(w)
    BY <2>4 DEF QueueIsEmpty, Discard, WaitForLock, SkipListing, StartListing, queueVars
  <2> QED
    BY <1>4, <2>1, <2>2, <2>3, <2>4 DEF RunWorker
<1>5. CASE FirstListingDone
  BY <1>1, <1>5 DEF FirstListingDone
<1>6. CASE RunListing \/ Report \/ Tick \/ Terminated \/ UNCHANGED vars
  BY <1>6 DEF RunListing, ListTournament, ListingFails, Report, Tick, Terminated, vars, queueVars
<1> QED
  BY <1>2, <1>3, <1>4, <1>5, <1>6 DEF Next, RunMain

ServedInv == QueueFinite /\ NoWorkersYet /\ QueueIsServed

LEMMA ServedStep == TypeInv /\ ServedInv /\ [Next]_vars => ServedInv'
<1> SUFFICES ASSUME TypeInv, ServedInv, [Next]_vars PROVE NoWorkersYet' /\ QueueIsServed'
  BY FiniteStep DEF ServedInv
<1> USE DEF ServedInv, NoWorkersYet, QueueIsServed
<1>1. pc \in [WorkerIds -> PCs]
  BY DEF TypeInv, TypeOK, PCs
<1>2. CASE RunListing \/ Tick \/ Terminated \/ UNCHANGED vars
  BY <1>2 DEF RunListing, ListTournament, ListingFails, Tick, Terminated, vars, queueVars, Workers
<1>3. CASE FirstListingDone
  BY <1>3 DEF FirstListingDone, Workers
<1>4. CASE EnqueueExplicit
  <2>1. Workers = {} /\ Cardinality(Workers) = 0 /\ IsFiniteSet(queue')
    BY <1>4, FS_EmptySet, FiniteStep DEF EnqueueExplicit, QueueFinite
  <2>2. TopUp(Main, queue') /\ phase' = "serving"
    BY <1>4 DEF EnqueueExplicit
  <2>3. ASSUME queue' # {} PROVE \E w \in WorkerIds : pc'[w] = "ready"
    <3>1. Cardinality(queue') \in Nat /\ Cardinality(queue') # 0
      BY <2>1, <2>3, FS_CardinalityType, FS_EmptySet
    <3>2. Limit(queue') \in Nat /\ Limit(queue') > 0
      BY <2>1, <3>1, CountsAssumption DEF Limit
    <3>3. PICK spawned \in SUBSET (WorkerIds \ Workers) :
            /\ Cardinality(spawned) = Limit(queue')
            /\ pc' = [v \in WorkerIds |->
                        IF v = Main \/ v \in spawned THEN "ready" ELSE pc[v]]
      BY <2>1, <2>2, <2>3, <3>2 DEF TopUp
    <3>4. spawned # {}
      BY <3>2, <3>3, FS_EmptySet
    <3> QED
      BY <3>3, <3>4
  <2> QED
    BY <2>2, <2>3
<1>5. CASE Report
  BY <1>5 DEF Report, queueVars, Workers
<1>6. ASSUME NEW w \in WorkerIds, RunWorker(w) PROVE NoWorkersYet' /\ QueueIsServed'
  <2>1. w \in Workers /\ phase \notin {"listing", "loading"} /\ phase' = phase
    BY <1>6 DEF RunWorker, QueueIsEmpty, StopStarting, StartQuestion, MayRun, Discard,
                WaitForLock, SkipListing, StartListing, FinishListing, GetsLock,
                AskingForLock, Workers, TypeInv, LockHeld
  <2>2. CASE QueueIsEmpty(w) \/ StopStarting(w)
    BY <2>1, <2>2 DEF QueueIsEmpty, StopStarting, queueVars
  <2>3. CASE StartQuestion(w)
    BY <1>1, <2>1, <2>3 DEF StartQuestion
  <2>4. CASE Discard(w)
    BY <1>1, <2>1, <2>4 DEF Discard, queueVars
  <2>5. CASE WaitForLock(w) \/ StartListing(w)
    BY <1>1, <2>1, <2>5 DEF WaitForLock, StartListing
  <2>6. CASE SkipListing(w) \/ FinishListing(w)
    BY <1>1, <2>1, <2>6 DEF SkipListing, FinishListing, TopUp
  <2> QED
    BY <1>6, <2>2, <2>3, <2>4, <2>5, <2>6 DEF RunWorker
<1>7. ASSUME NEW w \in WorkerIds, EndAttempt(w) PROVE NoWorkersYet' /\ QueueIsServed'
  <2>1. AttemptOver(w)
    BY <1>7 DEF EndAttempt, AttemptSucceeds, AttemptFails
  <2>2. phase \notin {"listing", "loading"} /\ phase' = phase /\ pc'[w] = "refreshing"
    BY <1>1, <2>1 DEF AttemptOver, Workers
  <2> QED
    BY <2>2
<1> QED
  BY <1>2, <1>3, <1>4, <1>5, <1>6, <1>7 DEF Next, RunMain

\* No lost wakeup: a question that is put back, or discovered, after the last
\* other worker left is still looked at by the worker that put it there.
THEOREM QueueServed == Spec => []QueueIsServed
<1>1. Init => ServedInv
  BY FS_EmptySet DEF Init, ServedInv, QueueFinite, NoWorkersYet, QueueIsServed, Workers
<1> QED
  BY <1>1, ServedStep, InitType, NextType, PTL DEF Spec, ServedInv

\* Every question is in one place, and none is lost before the deadline: what the
\* queue promises of a question, together.
THEOREM QuestionsAccountedFor == Spec => []QuestionsAreAccountedFor
<1>1. TypeOK /\ JobHeld /\ EachQuestionInOnePlace /\ NothingLostBeforeDeadline
        => QuestionsAreAccountedFor
  BY DEF QuestionsAreAccountedFor
<1> QED BY <1>1, TypeCorrect, OnePlace, NothingLost, PTL
=============================================================================
