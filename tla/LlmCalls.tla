------------------------------ MODULE LlmCalls ------------------------------
(***************************************************************************)
(* The LLM calls in flight: the retrying client (bot/llm/client.py), the   *)
(* SoCLaaS ladder with its chain of models (bot/llm/qwen_ladder.py), the   *)
(* per-question outage tally, and the precompression's own requests        *)
(* (bot/brief/qwen_precompression.py).                                     *)
(*                                                                         *)
(* All calls share the permits of llm_rate_limiter; SoCLaaS requests also  *)
(* share its stream slots.  A chat takes a permit, keeps it through the    *)
(* whole ladder, and takes a stream slot for each request.  A compression  *)
(* takes a stream slot, then a permit, for each request.  A thread runs    *)
(* the ladder without a permit; a call to another endpoint needs a permit  *)
(* only.  RateGate models the rate slot that every request waits for first;*)
(* here it comes at some time.                                             *)
(***************************************************************************)
EXTENDS Integers, FiniteSets, Sequences

CONSTANTS
    Questions, Calls,
    Question,           \* [Calls -> Questions]
    Kind,               \* [Calls -> Kinds]
    Permits,            \* LLM_CONCURRENT_REQUESTS
    Streams,            \* max_in_flight of SoCLaaS
    Models,             \* length of SOCLAAS_MODEL_CHAIN
    Rungs,              \* efforts of each model
    Tries               \* OPENROUTER_MAX_ATTEMPTS

Kinds == {"chat", "thread", "compress", "other"}

ASSUME CallsAssumption ==
    /\ IsFiniteSet(Calls)
    /\ Question \in [Calls -> Questions]
    /\ Kind \in [Calls -> Kinds]
ASSUME CountsAssumption == {Permits, Streams, Models, Rungs, Tries} \subseteq Nat \ {0}

Ladder(c) == Kind[c] \in {"chat", "thread"}
Of(kind) == {c \in Calls : Kind[c] = kind}

VARIABLES
    permits,    \* free permits of llm_rate_limiter
    line,       \* who waits for one, first come first served
    streams,    \* free stream slots; who waits for one polls
    marks,      \* OutageTally.unavailable_ladders of each question
    pc,
    model, rung,\* where each call is in the chain
    backoff,    \* may the ladder still wait an outage out on this model?
    try,        \* `attempt' of the client's retry loop
    sent,       \* requests of this try
    outcome

shared == <<permits, line, streams>>
place == <<model, rung, backoff>>
vars == <<shared, marks, pc, place, try, sent, outcome>>

Down(q) == marks[q] > 0

HoldsPermit(c) ==
    \/ Kind[c] = "chat" /\ pc[c] \in {"stream", "open", "pause"}
    \/ Kind[c] \in {"compress", "other"} /\ pc[c] = "open"

HoldsStream(c) ==
    \/ Ladder(c) /\ pc[c] = "open"
    \/ Kind[c] = "compress" /\ pc[c] \in {"permit", "open"}

-----------------------------------------------------------------------------
Init ==
    /\ permits = Permits /\ line = <<>> /\ streams = Streams
    /\ marks = [q \in Questions |-> 0]
    /\ pc = [c \in Calls |-> "idle"]
    /\ model = [c \in Calls |-> 1] /\ rung = [c \in Calls |-> 1]
    /\ backoff = [c \in Calls |-> TRUE]
    /\ try = [c \in Calls |-> 1]
    /\ sent = [c \in Calls |-> 0]
    /\ outcome = [c \in Calls |-> "none"]

Go(c, to) == pc' = [pc EXCEPT ![c] = to] /\ UNCHANGED outcome
End(c, how) == pc' = [pc EXCEPT ![c] = "done"] /\ outcome' = [outcome EXCEPT ![c] = how]
Queue(c) == Go(c, "permit") /\ line' = Append(line, c)
Open(c) == Go(c, "open") /\ sent' = [sent EXCEPT ![c] = @ + 1]

\* A compression looks at the tally once, before its first request.
Begin(c) ==
    /\ pc[c] = "idle"
    /\ IF Kind[c] = "compress" /\ Down(Question[c]) THEN End(c, "skipped") ELSE Go(c, "gate")
    /\ UNCHANGED <<shared, marks, place, try, sent>>

\* Mutant: nobody asks whether SoCLaaS is down.
EnterMutant(c) == Go(c, "stream")

\* run_async, run_sync: _raise_if_down
Enter(c) == IF Down(Question[c]) THEN End(c, "skipped") ELSE Go(c, "stream")

\* gate.wait_async() of the call's first request is over.
RateSlot(c) ==
    /\ pc[c] = "gate"
    /\ \/ Kind[c] \in {"chat", "other"} /\ Queue(c)
       \/ Kind[c] = "thread" /\ Enter(c) /\ UNCHANGED line
       \/ Kind[c] = "compress" /\ Go(c, "stream") /\ UNCHANGED line
    /\ model' = [model EXCEPT ![c] = IF Ladder(c) THEN 1 ELSE @]
    /\ rung' = [rung EXCEPT ![c] = IF Ladder(c) THEN 1 ELSE @]
    /\ backoff' = [backoff EXCEPT ![c] = TRUE]
    /\ UNCHANGED <<permits, streams, marks, try, sent>>

MyTurn(c) == pc[c] = "permit" /\ permits > 0 /\ Head(line) = c

GetPermit(c) ==
    /\ MyTurn(c) /\ line' = Tail(line)
    /\ IF Kind[c] = "chat"
       THEN Enter(c) /\ UNCHANGED sent
       ELSE Open(c)
    /\ permits' = IF pc'[c] = "done" THEN permits ELSE permits - 1
    /\ UNCHANGED <<streams, marks, place, try>>

\* start_openrouter_call raises HardLimitExceededError.
OverBudget(c) ==
    /\ \/ MyTurn(c) /\ line' = Tail(line)
       \/ pc[c] = "idle" /\ Kind[c] = "thread" /\ UNCHANGED line
    /\ streams' = IF HoldsStream(c) THEN streams + 1 ELSE streams
    /\ End(c, "failed")
    /\ UNCHANGED <<permits, marks, place, try, sent>>

GetStream(c) ==
    /\ pc[c] = "stream" /\ streams > 0
    /\ streams' = streams - 1
    /\ IF Ladder(c)
       THEN Open(c) /\ UNCHANGED line
       ELSE Queue(c) /\ UNCHANGED sent
    /\ UNCHANGED <<permits, marks, place, try>>

\* The ladder's wait_async or _wait_unavailable is over: the next request.
Resume(c) ==
    /\ pc[c] = "pause"
    /\ Go(c, "stream")
    /\ UNCHANGED <<shared, marks, place, try, sent>>

-----------------------------------------------------------------------------
(* What a request of the ladder comes to.  Its stream slot is free again.  *)

LeaveLadder(c) == permits' = IF Kind[c] = "chat" THEN permits + 1 ELSE permits

LadderEnds(c) == End(c, "failed") /\ LeaveLadder(c) /\ UNCHANGED place

NextModel(c) ==
    /\ model' = [model EXCEPT ![c] = @ + 1]
    /\ rung' = [rung EXCEPT ![c] = 1]
    /\ backoff' = [backoff EXCEPT ![c] = TRUE]
    /\ Go(c, "pause") /\ UNCHANGED permits

\* Mutant: one model too many.
ModelFailsMutant(c) == IF model[c] <= Models THEN NextModel(c) ELSE LadderEnds(c)

ModelFails(c) == IF model[c] < Models THEN NextModel(c) ELSE LadderEnds(c)

\* Mutant: a lower rung may wait an outage out again.
LowerRungMutant(c) ==
    /\ rung' = [rung EXCEPT ![c] = @ + 1]
    /\ backoff' = [backoff EXCEPT ![c] = TRUE]
    /\ Go(c, "pause") /\ UNCHANGED <<model, permits>>

LowerRung(c) ==
    /\ rung' = [rung EXCEPT ![c] = @ + 1]
    /\ Go(c, "pause") /\ UNCHANGED <<model, backoff, permits>>

\* A deadline, a broken stream, an empty or unusable answer.
RungFails(c) ==
    /\ IF rung[c] < Rungs THEN LowerRung(c) ELSE ModelFails(c)
    /\ UNCHANGED marks

\* 408, 5xx, an overload 429, no connection: the same rung once more.
Unavailable(c) ==
    IF backoff[c]
    THEN /\ backoff' = [backoff EXCEPT ![c] = FALSE]
         /\ Go(c, "pause") /\ UNCHANGED <<model, rung, permits, marks>>
    ELSE /\ ModelFails(c)
         /\ marks' = [marks EXCEPT ![Question[c]] = IF model[c] = Models THEN @ + 1 ELSE @]

\* 400, 404, 422, or another model's answer.
Rejected(c) == ModelFails(c) /\ UNCHANGED marks

\* Access or quota.
Refused(c) == LadderEnds(c) /\ UNCHANGED marks

\* Mutant: the ladder keeps its stream slot to its end.
LadderReplyMutant(c) ==
    /\ pc[c] = "open" /\ Ladder(c)
    /\ RungFails(c) \/ Unavailable(c) \/ Rejected(c) \/ Refused(c)
    /\ streams' = IF pc'[c] = "done" THEN streams + 1 ELSE streams
    /\ UNCHANGED <<line, try, sent>>

LadderReply(c) ==
    /\ pc[c] = "open" /\ Ladder(c)
    /\ streams' = streams + 1
    /\ RungFails(c) \/ Unavailable(c) \/ Rejected(c) \/ Refused(c)
    /\ UNCHANGED <<line, try, sent>>

-----------------------------------------------------------------------------
(* The client's answer, and its retries.                                   *)

\* Mutant: the permit is given back when the call ends.
GiveBackMutant(c) ==
    /\ permits' = IF pc'[c] = "done" /\ Kind[c] # "thread" THEN permits + 1 ELSE permits
    /\ streams' = IF Ladder(c) THEN streams + 1 ELSE streams

GiveBack(c) ==
    /\ permits' = IF Kind[c] = "thread" THEN permits ELSE permits + 1
    /\ streams' = IF Ladder(c) THEN streams + 1 ELSE streams

Answered(c) ==
    /\ pc[c] = "open" /\ Kind[c] # "compress"
    /\ End(c, "ok") /\ GiveBack(c)
    /\ UNCHANGED <<line, marks, place, try, sent>>

\* An unusable answer, or from another endpoint an error that may pass.
TryAgain(c) ==
    /\ pc[c] = "open" /\ Kind[c] \in {"chat", "other"} /\ try[c] < Tries
    /\ Go(c, "gate") /\ GiveBack(c)
    /\ try' = [try EXCEPT ![c] = @ + 1] /\ sent' = [sent EXCEPT ![c] = 0]
    /\ UNCHANGED <<line, marks, place>>

\* The last try, a fatal problem, or a caller that does not retry.
GiveUp(c) ==
    /\ pc[c] = "open" /\ Kind[c] \in {"chat", "other"}
    /\ End(c, "failed") /\ GiveBack(c)
    /\ UNCHANGED <<line, marks, place, try, sent>>

-----------------------------------------------------------------------------
(* What a compression's request comes to: both are free again.             *)

Compressed(c) == End(c, "ok") /\ UNCHANGED place

CompressNextModel(c) ==
    IF model[c] < Models
    THEN /\ model' = [model EXCEPT ![c] = @ + 1] /\ rung' = [rung EXCEPT ![c] = 1]
         /\ Go(c, "gate") /\ UNCHANGED backoff
    ELSE End(c, "failed") /\ UNCHANGED place

CompressNextEffort(c) ==
    IF rung[c] < Rungs
    THEN rung' = [rung EXCEPT ![c] = @ + 1] /\ Go(c, "gate") /\ UNCHANGED <<model, backoff>>
    ELSE CompressNextModel(c)

Paused(c) == End(c, "failed") /\ UNCHANGED place

CompressReply(c) ==
    /\ pc[c] = "open" /\ Kind[c] = "compress"
    /\ permits' = permits + 1 /\ streams' = streams + 1
    /\ Compressed(c) \/ CompressNextEffort(c) \/ CompressNextModel(c) \/ Paused(c)
    /\ UNCHANGED <<line, marks, try, sent>>

-----------------------------------------------------------------------------
\* Mutant: who is cancelled while it waits for its permit keeps its stream slot.
StreamsLeftMutant(c) == IF HoldsStream(c) /\ pc[c] = "open" THEN streams + 1 ELSE streams

StreamsLeft(c) == IF HoldsStream(c) THEN streams + 1 ELSE streams

\* The question's timeout cancels its calls; a thread's request just runs on.
Cancel(c) ==
    /\ pc[c] \notin {"idle", "done"} /\ Kind[c] # "thread"
    /\ permits' = IF HoldsPermit(c) THEN permits + 1 ELSE permits
    /\ streams' = StreamsLeft(c)
    /\ line' = SelectSeq(line, LAMBDA d : d # c)
    /\ End(c, "cancelled")
    /\ UNCHANGED <<marks, place, try, sent>>

Reply(c) == LadderReply(c) \/ CompressReply(c) \/ Answered(c) \/ TryAgain(c) \/ GiveUp(c)

Advance(c) == \/ Begin(c) \/ RateSlot(c) \/ GetPermit(c) \/ OverBudget(c)
              \/ GetStream(c) \/ Resume(c) \/ Reply(c)

Done == (\A c \in Calls : pc[c] = "done") /\ UNCHANGED vars

Next == Done \/ \E c \in Calls : Advance(c) \/ Cancel(c)

Spec == Init /\ [][Next]_vars

\* Tasks and threads run, sleeps end, and every request has a deadline.  Nobody is
\* assumed to cancel a call.
FairSpec == Spec /\ \A c \in Calls : WF_vars(Advance(c))

-----------------------------------------------------------------------------
(* Properties.                                                             *)

TypeOK ==
    /\ permits \in 0..Permits /\ streams \in 0..Streams
    /\ line \in Seq(Calls)
    /\ marks \in [Questions -> Nat]
    /\ pc \in [Calls -> {"idle", "gate", "permit", "stream", "open", "pause", "done"}]
    /\ model \in [Calls -> 1..Models] /\ rung \in [Calls -> 1..Rungs]
    /\ backoff \in [Calls -> BOOLEAN]
    /\ try \in [Calls -> 1..Tries]
    /\ sent \in [Calls -> Nat]
    /\ outcome \in [Calls -> {"none", "ok", "failed", "skipped", "cancelled"}]

\* However calls end, retry or are cancelled, in whichever order they take the two:
\* what is not held is free.
NothingLeaks ==
    /\ permits + Cardinality({c \in Calls : HoldsPermit(c)}) = Permits
    /\ streams + Cardinality({c \in Calls : HoldsStream(c)}) = Streams

\* "resending it from here would triple that": whatever SoCLaaS answers, one try of
\* a call sends each model's rungs once, and one more request per model after an
\* outage; a compression never waits an outage out on the same effort.
RequestsBounded ==
    \A c \in Calls :
        /\ Ladder(c) => sent[c] <= Models * (Rungs + 1)
        /\ Kind[c] = "compress" => sent[c] <= Models * Rungs

\* "The first ladder whose retry also fails marks SoCLaaS down; every later Qwen call
\* in that question then fails at once": only ladders that were in flight at the
\* first mark can run into the outage too, and these hold permits or are threads.
OutageIsMetOnce ==
    \A q \in Questions : marks[q] <= Permits + Cardinality(Of("thread"))

\* "Queueing behind our own streams": calls never all wait for one another, the
\* stream slots held by who waits for permits, the permits by who waits for slots.
NoCircularWait ==
    ~ /\ permits = 0 /\ \A c \in Calls : HoldsPermit(c) => pc[c] = "stream"
      /\ streams = 0 /\ \A c \in Calls : HoldsStream(c) => pc[c] = "permit"

\* Every call comes to an end.
CallEnds == <>(\A c \in Calls : pc[c] = "done")
=============================================================================
