-------------------------- MODULE QuestionAttempt --------------------------
(***************************************************************************)
(* One question's attempts: forecast_individual_question, its timeout, and *)
(* the Metaculus calls it makes.                                           *)
(*                                                                         *)
(* An attempt fetches the post, skips or forecasts, writes forecast.json,  *)
(* posts the forecast and then the comment.  Each call takes a permit of   *)
(* METACULUS_API_RATE_LIMITER and keeps it through every try and every     *)
(* sleep between tries.  The network may lose a request or its answer; a   *)
(* request that its sender gave up on may still reach Metaculus, late.     *)
(* Attempts of one question follow one another (QuestionQueue shows that   *)
(* they never overlap): a retry in the same run, or the next run.          *)
(***************************************************************************)
EXTENDS Integers, FiniteSets, Sequences

CONSTANTS
    Questions,
    Permits,            \* METACULUS_MAX_CONCURRENT_REQUESTS
    MaxTries,           \* MAX_API_GET_RETRIES
    MaxAttempts,        \* bound: attempts per question, over all runs
    SkipPrevious,       \* SKIP_PREVIOUSLY_FORECASTED_QUESTIONS
    SubmitPrediction    \* not --no-submit

ASSUME CountsAssumption ==
    /\ IsFiniteSet(Questions)
    /\ {Permits, MaxTries, MaxAttempts} \subseteq Nat \ {0}
    /\ {SkipPrevious, SubmitPrediction} \subseteq BOOLEAN

Attempts == 1..MaxAttempts
Kinds == {"fetch", "forecast", "comment"}   \* the stages that are a call
Requests == [q : Questions, attempt : Attempts, kind : Kinds, try : 1..MaxTries]

VARIABLES
    open,       \* Metaculus: is the question open?
    stored,     \* Metaculus: [attempt, late] for every forecast it took; late:
                \* a newer attempt had begun when it came
    comments,   \* Metaculus: [attempt, try] for every comment it took
    wire,       \* requests on their way
    answers,    \* answers on their way back
    attempt,    \* the attempt that is running, or ran last
    stage,      \* what it is doing
    call,       \* where its Metaculus call is
    try,        \* `attempt' of the call's retry loop
    permits,    \* free permits of the semaphore
    line,       \* who waits for one, first come first served
    record,     \* the last forecast.json: whose, and does it say submitted
    outcome     \* how the last attempt ended

metaculus == <<open, stored, comments>>
network == <<wire, answers>>
permitVars == <<permits, line>>
vars == <<metaculus, network, attempt, stage, call, try, permitVars, record, outcome>>

-----------------------------------------------------------------------------
Request(q) == [q |-> q, attempt |-> attempt[q], kind |-> stage[q], try |-> try[q]]

Init ==
    /\ open \in [Questions -> BOOLEAN]
    /\ stored = [q \in Questions |-> {}]
    /\ comments = [q \in Questions |-> {}]
    /\ wire = {} /\ answers = {}
    /\ attempt = [q \in Questions |-> 0]
    /\ stage = [q \in Questions |-> "idle"]
    /\ call = [q \in Questions |-> "none"]
    /\ try = [q \in Questions |-> 1]
    /\ permits = Permits /\ line = <<>>
    /\ record = [q \in Questions |-> [attempt |-> 0, submitted |-> FALSE]]
    /\ outcome = [q \in Questions |-> "none"]

-----------------------------------------------------------------------------
(* Metaculus and the network.                                              *)

Close(q) ==
    /\ open[q]
    /\ open' = [open EXCEPT ![q] = FALSE]
    /\ UNCHANGED <<stored, comments, network, attempt, stage, call, try, permitVars,
                   record, outcome>>

\* Is the sender of r still waiting for its answer?
Awaited(r) == call[r.q] = "sent" /\ r = Request(r.q)

Answer(r, status) ==
    [r |-> r, status |-> status, open |-> open[r.q], made |-> stored[r.q] # {}]

\* Metaculus does what r asks and answers.
Accept(r) ==
    /\ r \in wire
    /\ r.kind = "forecast" => open[r.q]
    /\ stored' = IF r.kind = "forecast"
                 THEN [stored EXCEPT ![r.q] =
                          @ \cup {[attempt |-> r.attempt, late |-> attempt[r.q] # r.attempt]}]
                 ELSE stored
    /\ comments' = IF r.kind = "comment"
                   THEN [comments EXCEPT ![r.q] = @ \cup {<<r.attempt, r.try>>}]
                   ELSE comments
    /\ wire' = wire \ {r}
    /\ answers' = answers \cup (IF Awaited(r) THEN {Answer(r, "ok")} ELSE {})
    /\ UNCHANGED <<open, attempt, stage, call, try, permitVars, record, outcome>>

\* Metaculus refuses r: too many requests, or an error that is final.
Refuse(r, status) ==
    /\ r \in wire
    /\ wire' = wire \ {r}
    /\ answers' = answers \cup (IF Awaited(r) THEN {Answer(r, status)} ELSE {})
    /\ UNCHANGED <<metaculus, attempt, stage, call, try, permitVars, record, outcome>>

Lose(r) ==
    /\ r \in wire
    /\ wire' = wire \ {r}
    /\ UNCHANGED <<metaculus, answers, attempt, stage, call, try, permitVars, record, outcome>>

-----------------------------------------------------------------------------
(* A call: _metaculus_async_{get_json,post}_with_retries.                  *)

Calling(q) == call[q] \in {"pacing", "sent"}    \* q holds a permit

\* The line without q, which waits in it once or not at all.
WithoutQ(q) ==
    IF \E i \in DOMAIN line : line[i] = q
    THEN LET i == CHOOSE i \in DOMAIN line : line[i] = q
         IN  SubSeq(line, 1, i - 1) \o SubSeq(line, i + 1, Len(line))
    ELSE line

GetPermit(q) ==
    /\ call[q] = "queued" /\ permits > 0 /\ line # <<>> /\ Head(line) = q
    /\ permits' = permits - 1 /\ line' = Tail(line)
    /\ call' = [call EXCEPT ![q] = "pacing"]
    /\ try' = [try EXCEPT ![q] = 1]
    /\ UNCHANGED <<metaculus, network, attempt, stage, record, outcome>>

\* The sleep before a try is over.
Send(q) ==
    /\ call[q] = "pacing"
    /\ call' = [call EXCEPT ![q] = "sent"]
    /\ wire' = wire \cup {Request(q)}
    /\ UNCHANGED <<metaculus, answers, attempt, stage, try, permitVars, record, outcome>>

\* Leaving the call, or waiting for it: `async with' gives the permit back.
ReleasePermit(q) ==
    /\ permits' = IF Calling(q) THEN permits + 1 ELSE permits
    /\ line' = WithoutQ(q)
    /\ answers' = {a \in answers : a.r.q # q}

Finish(q, how) ==
    /\ stage' = [stage EXCEPT ![q] = "idle"]
    /\ call' = [call EXCEPT ![q] = "none"]
    /\ outcome' = [outcome EXCEPT ![q] = how]

\* Mutant: one try too many.
TryAgainMutant(q) ==
    /\ try[q] <= MaxTries
    /\ try' = [try EXCEPT ![q] = @ + 1]
    /\ call' = [call EXCEPT ![q] = "pacing"]
    /\ answers' = {a \in answers : a.r.q # q}
    /\ UNCHANGED <<metaculus, wire, attempt, stage, permitVars, record, outcome>>

\* A try that may be repeated failed.  Its request may still be on the wire.
TryAgain(q) ==
    /\ try[q] < MaxTries
    /\ try' = [try EXCEPT ![q] = @ + 1]
    /\ call' = [call EXCEPT ![q] = "pacing"]
    /\ answers' = {a \in answers : a.r.q # q}
    /\ UNCHANGED <<metaculus, wire, attempt, stage, permitVars, record, outcome>>

\* The call raises, and the attempt with it.
GiveUp(q) ==
    /\ ReleasePermit(q)
    /\ Finish(q, "failed")
    /\ UNCHANGED <<metaculus, wire, attempt, try, record>>

StartCall(q, kind) ==
    /\ stage' = [stage EXCEPT ![q] = kind]
    /\ call' = [call EXCEPT ![q] = "queued"]

\* The forecast's permit is free again; the comment's call queues for one.
StartComment(q) ==
    /\ StartCall(q, "comment")
    /\ permits' = permits + 1 /\ line' = Append(line, q)
    /\ answers' = {a \in answers : a.r.q # q}
    /\ UNCHANGED <<metaculus, wire, attempt, try, record, outcome>>

\* Mutant: a forecast that could not be posted is logged, and the comment follows.
NetworkErrorMutant(q) ==
    /\ call[q] = "sent"
    /\ \/ TryAgain(q)
       \/ /\ try[q] = MaxTries
          /\ IF stage[q] = "forecast" THEN StartComment(q) ELSE GiveUp(q)

\* httpx.RequestError: no connection, or no answer within 30 s.
NetworkError(q) ==
    /\ call[q] = "sent"
    /\ TryAgain(q) \/ (try[q] = MaxTries /\ GiveUp(q))

AnswerTo(q) == {a \in answers : a.r = Request(q)}

Refused(q) ==
    /\ call[q] = "sent"
    /\ \E a \in AnswerTo(q) :
          \/ a.status = "ratelimited" /\ TryAgain(q)
          \/ a.status = "ratelimited" /\ try[q] = MaxTries /\ GiveUp(q)
          \/ a.status = "error" /\ GiveUp(q)

-----------------------------------------------------------------------------
(* The attempt.                                                            *)

Begin(q) ==
    /\ stage[q] = "idle" /\ attempt[q] < MaxAttempts
    /\ attempt' = [attempt EXCEPT ![q] = @ + 1]
    /\ StartCall(q, "fetch")
    /\ line' = Append(line, q)
    /\ outcome' = [outcome EXCEPT ![q] = "none"]
    /\ UNCHANGED <<metaculus, network, try, permits, record>>

\* Mutant: a prior forecast does not stop the attempt.
FetchedMutant(q) ==
    /\ stage[q] = "fetch" /\ call[q] = "sent"
    /\ \E a \in AnswerTo(q) :
          /\ a.status = "ok"
          /\ IF ~a.open
             THEN Finish(q, "skipped")
             ELSE /\ stage' = [stage EXCEPT ![q] = "working"]
                  /\ call' = [call EXCEPT ![q] = "none"]
                  /\ UNCHANGED outcome
    /\ ReleasePermit(q)
    /\ UNCHANGED <<metaculus, wire, attempt, try, record>>

\* The post has been fetched: skip it, or go on to research and forecast.
Fetched(q) ==
    /\ stage[q] = "fetch" /\ call[q] = "sent"
    /\ \E a \in AnswerTo(q) :
          /\ a.status = "ok"
          /\ IF ~a.open \/ (a.made /\ SkipPrevious)
             THEN Finish(q, "skipped")
             ELSE /\ stage' = [stage EXCEPT ![q] = "working"]
                  /\ call' = [call EXCEPT ![q] = "none"]
                  /\ UNCHANGED outcome
    /\ ReleasePermit(q)
    /\ UNCHANGED <<metaculus, wire, attempt, try, record>>

\* Research and forecast ended in an exception.
WorkFails(q) ==
    /\ stage[q] = "working"
    /\ Finish(q, "failed")
    /\ UNCHANGED <<metaculus, network, attempt, try, permitVars, record>>

Abstain(q) ==
    /\ stage[q] = "working"
    /\ record' = [record EXCEPT ![q] = [attempt |-> attempt[q], submitted |-> FALSE]]
    /\ Finish(q, "abstained")
    /\ UNCHANGED <<metaculus, network, attempt, try, permitVars>>

\* forecast.json is written, and the forecast's call begins, in one segment.
Forecast(q) ==
    /\ stage[q] = "working"
    /\ record' = [record EXCEPT ![q] =
                     [attempt |-> attempt[q], submitted |-> SubmitPrediction]]
    /\ IF SubmitPrediction
       THEN /\ StartCall(q, "forecast")
            /\ line' = Append(line, q)
            /\ UNCHANGED outcome
       ELSE Finish(q, "recorded") /\ UNCHANGED line
    /\ UNCHANGED <<metaculus, network, attempt, try, permits>>

\* The forecast is posted: the comment's call begins.
ForecastPosted(q) ==
    /\ stage[q] = "forecast" /\ call[q] = "sent"
    /\ \E a \in AnswerTo(q) : a.status = "ok"
    /\ StartComment(q)

CommentPosted(q) ==
    /\ stage[q] = "comment" /\ call[q] = "sent"
    /\ \E a \in AnswerTo(q) : a.status = "ok"
    /\ ReleasePermit(q)
    /\ Finish(q, "posted")
    /\ UNCHANGED <<metaculus, wire, attempt, try, record>>

\* asyncio.wait_for cancels the attempt, or the job is killed, at any await.
TimeOut(q) ==
    /\ stage[q] # "idle"
    /\ ReleasePermit(q)
    /\ Finish(q, "failed")
    /\ UNCHANGED <<metaculus, wire, attempt, try, record>>

-----------------------------------------------------------------------------
Metaculus ==
    \/ \E q \in Questions : Close(q)
    \/ \E r \in wire : \/ Accept(r) \/ Lose(r)
                       \/ \E status \in {"ratelimited", "error"} : Refuse(r, status)

MakeCall(q) == GetPermit(q) \/ Send(q)

EndTry(q) == \/ NetworkError(q) \/ Refused(q)
             \/ Fetched(q) \/ ForecastPosted(q) \/ CommentPosted(q)

Work(q) == Begin(q) \/ WorkFails(q) \/ Abstain(q) \/ Forecast(q) \/ TimeOut(q)

Terminated ==
    /\ \A q \in Questions : stage[q] = "idle" /\ attempt[q] = MaxAttempts
    /\ UNCHANGED vars

Next ==
    \/ Metaculus \/ Terminated
    \/ \E q \in Questions : MakeCall(q) \/ EndTry(q) \/ Work(q)

Spec == Init /\ [][Next]_vars

-----------------------------------------------------------------------------
(* Properties.                                                             *)

TypeOK ==
    /\ open \in [Questions -> BOOLEAN]
    /\ stored \in [Questions -> SUBSET [attempt : Attempts, late : BOOLEAN]]
    /\ comments \in [Questions -> SUBSET (Attempts \X (1..MaxTries))]
    /\ wire \subseteq Requests
    /\ \A a \in answers : a.r \in Requests /\ a.status \in {"ok", "ratelimited", "error"}
    /\ attempt \in [Questions -> 0..MaxAttempts]
    /\ stage \in [Questions -> Kinds \cup {"idle", "working"}]
    /\ call \in [Questions -> {"none", "queued", "pacing", "sent"}]
    /\ try \in [Questions -> 1..MaxTries]
    /\ permits \in 0..Permits
    /\ line \in Seq(Questions)
    /\ record \in [Questions -> [attempt : 0..MaxAttempts, submitted : BOOLEAN]]
    /\ outcome \in [Questions -> {"none", "skipped", "failed", "abstained",
                                  "recorded", "posted"}]

\* Whatever is lost, late, repeated or cancelled: Metaculus never shows a comment
\* of an attempt whose forecast it did not take.
CommentFollowsForecast ==
    \A q \in Questions : \A c \in comments[q] :
        \E f \in stored[q] : f.attempt = c[1]

\* "Posted: Forecast was posted to Metaculus." is true of forecast and comment,
\* and forecast.json says so too.
PostedIsOnMetaculus ==
    \A q \in Questions : outcome[q] = "posted" =>
        /\ \E f \in stored[q] : f.attempt = attempt[q]
        /\ \E c \in comments[q] : c[1] = attempt[q]
        /\ record[q] = [attempt |-> attempt[q], submitted |-> TRUE]

\* Metaculus takes the forecasts of two attempts only if the first one's request
\* came after the second attempt had begun: skipping on the fetched post rules
\* out every other way, lost answers and timeouts included.
OneForecastUnlessOvertaken ==
    SkipPrevious => \A q \in Questions : \A f, g \in stored[q] :
        f.attempt < g.attempt => f.late

\* "Submit forecast and private comment unless --no-submit is set": a question
\* whose last attempt succeeded and whose forecast stands has its comment.
CommentIsPosted ==
    \A q \in Questions :
        outcome[q] \in {"posted", "skipped"} /\ stored[q] # {} => comments[q] # {}

\* What Metaculus shows and what the bot reports and records tell the same story.
MetaculusAgrees == TypeOK /\ CommentFollowsForecast /\ PostedIsOnMetaculus
=============================================================================
