--------------------------- MODULE PublishProofs ----------------------------
(***************************************************************************)
(* Proofs about what leaves the run, for every set of questions and every  *)
(* number of permits, tries and attempts: the posts of the attempts at a   *)
(* question, the publishing of their folders, and the daily scoring of     *)
(* what was published.                                                     *)
(***************************************************************************)
EXTENDS QuestionAttempt, Publisher, OutcomeScoring, DataLemmas, SequenceTheorems, TLAPS

(***************************************************************************)
(* The attempts.  Metaculus only ever takes more; so what a request or an  *)
(* answer on the wire says of it stays true.  A comment is asked for only  *)
(* by an attempt whose forecast was answered; a forecast only by one whose *)
(* fetched post showed none.                                               *)
(***************************************************************************)
Holders == {q \in Questions : Calling(q)}

\* A question's call is under way just when its stage is one.
CallsMatch(q) ==
    /\ call[q] # "none" <=> stage[q] \in Kinds
    /\ stage[q] # "idle" => attempt[q] \in Attempts

TypeInv ==
    /\ TypeOK
    /\ permits + Cardinality(Holders) = Permits
    /\ \A q \in Questions : CallsMatch(q)

One(b) == IF b THEN 1 ELSE 0

-----------------------------------------------------------------------------
(* A set in which only q comes or goes, and its number of elements. *)
LEMMA CountStep ==
    ASSUME NEW S, NEW T, NEW q, IsFiniteSet(S),
           T \in {S, S \cup {q}, S \ {q}}
    PROVE  /\ IsFiniteSet(T) /\ Cardinality(T) \in Nat /\ Cardinality(S) \in Nat
           /\ Cardinality(T) = Cardinality(S) + One(q \in T) - One(q \in S)
<1>1. CASE T = S
  BY <1>1, FS_CardinalityType DEF One
<1>2. CASE T = S \cup {q}
  BY <1>2, FS_AddElement, FS_CardinalityType DEF One
<1>3. CASE T = S \ {q}
  BY <1>3, FS_RemoveElement, FS_CardinalityType DEF One
<1> QED BY <1>1, <1>2, <1>3

(* A step of q's call changes the free permits by what q holds. *)
LEMMA PermitsFollow ==
    ASSUME TypeInv, NEW q \in Questions,
           \A d \in Questions \ {q} : call'[d] = call[d],
           permits' \in Nat,
           permits' = permits + One(Calling(q)) - One(Calling(q)')
    PROVE  permits' \in 0..Permits /\ permits' + Cardinality(Holders') = Permits
<1>1. IsFiniteSet(Holders)
  BY CountsAssumption, FS_Subset DEF Holders
<1>2. Holders' \in {Holders, Holders \cup {q}, Holders \ {q}}
  BY DEF Holders, Calling
<1>3. /\ Cardinality(Holders) \in Nat /\ Cardinality(Holders') \in Nat
      /\ Cardinality(Holders') =
           Cardinality(Holders) + One(q \in Holders') - One(q \in Holders)
  BY <1>1, <1>2, CountStep
<1>4. One(q \in Holders) = One(Calling(q)) /\ One(q \in Holders') = One(Calling(q)')
  BY DEF Holders, One
<1>5. One(Calling(q)) \in Nat /\ One(Calling(q)') \in Nat
  BY DEF One
<1>6. permits \in Nat /\ permits + Cardinality(Holders) = Permits /\ Permits \in Nat
  BY CountsAssumption DEF TypeInv, TypeOK
<1>7. permits' + Cardinality(Holders') = Permits
  BY <1>3, <1>4, <1>5, <1>6
<1> QED BY <1>3, <1>6, <1>7

(* Leaving the line leaves a line. *)
LEMMA WithoutIsLine ==
    ASSUME line \in Seq(Questions), NEW q
    PROVE  WithoutQ(q) \in Seq(Questions)
<1>1. CASE \E i \in DOMAIN line : line[i] = q
  <2> DEFINE i == CHOOSE i \in DOMAIN line : line[i] = q
  <2>1. i \in 1..Len(line)
    BY <1>1
  <2>2. /\ SubSeq(line, 1, i - 1) \in Seq(Questions)
        /\ SubSeq(line, i + 1, Len(line)) \in Seq(Questions)
    <3>1. Len(line) \in Nat
      BY LenProperties
    <3>2. \A n \in 1..(i - 1) : n \in 1..Len(line)
      BY <2>1, <3>1
    <3>3. \A n \in (i + 1)..Len(line) : n \in 1..Len(line)
      BY <2>1, <3>1
    <3> QED BY <2>1, <3>1, <3>2, <3>3, SubSeqProperties
  <2>3. SubSeq(line, 1, i - 1) \o SubSeq(line, i + 1, Len(line)) \in Seq(Questions)
    BY <2>2, ConcatProperties
  <2> QED BY <1>1, <2>3 DEF WithoutQ
<1>2. CASE ~ \E i \in DOMAIN line : line[i] = q
  BY <1>2 DEF WithoutQ
<1> QED BY <1>1, <1>2

-----------------------------------------------------------------------------
(* Steps that leave the calls and the permits alone. *)
LEMMA OutsideType ==
    ASSUME TypeInv, Metaculus
    PROVE  TypeInv'
<1>1. UNCHANGED <<attempt, stage, call, try, permits, line, record, outcome>>
  BY DEF Metaculus, Close, Accept, Refuse, Lose, permitVars
<1>2. Holders' = Holders
  BY <1>1 DEF Holders, Calling
<1>3. \A q \in Questions : CallsMatch(q)'
  BY <1>1 DEF TypeInv, CallsMatch
<1>4. /\ open' \in [Questions -> BOOLEAN]
      /\ stored' \in [Questions -> SUBSET [attempt : Attempts, late : BOOLEAN]]
      /\ comments' \in [Questions -> SUBSET (Attempts \X (1..MaxTries))]
      /\ wire' \subseteq Requests
      /\ \A a \in answers' : a.r \in Requests /\ a.status \in {"ok", "ratelimited", "error"}
  <2>1. CASE \E q \in Questions : Close(q)
    BY <2>1 DEF Close, TypeInv, TypeOK, network
  <2>2. ASSUME NEW r \in wire, Accept(r)
        PROVE  <1>4
    <3>1. r \in Requests
      BY DEF TypeInv, TypeOK
    <3>2. stored' \in [Questions -> SUBSET [attempt : Attempts, late : BOOLEAN]]
      <4>1. [attempt |-> r.attempt, late |-> attempt[r.q] # r.attempt]
              \in [attempt : Attempts, late : BOOLEAN]
        BY <3>1 DEF Requests
      <4>2. r.q \in Questions
        BY <3>1 DEF Requests
      <4> QED BY <2>2, <4>1, <4>2 DEF Accept, TypeInv, TypeOK
    <3>3. comments' \in [Questions -> SUBSET (Attempts \X (1..MaxTries))]
      BY <2>2, <3>1 DEF Accept, TypeInv, TypeOK, Requests
    <3>4. \A a \in answers' : a \in answers \/ (a.r = r /\ a.status = "ok")
      BY <2>2 DEF Accept, Answer
    <3> QED BY <2>2, <3>1, <3>2, <3>3, <3>4 DEF Accept, TypeInv, TypeOK
  <2>3. ASSUME NEW r \in wire, NEW status \in {"ratelimited", "error"}, Refuse(r, status)
        PROVE  <1>4
    <3>1. r \in Requests
      BY DEF TypeInv, TypeOK
    <3>2. \A a \in answers' : a \in answers \/ (a.r = r /\ a.status = status)
      BY <2>3 DEF Refuse, Answer
    <3> QED BY <2>3, <3>1, <3>2 DEF Refuse, TypeInv, TypeOK, metaculus
  <2>4. ASSUME NEW r \in wire, Lose(r)
        PROVE  <1>4
    BY <2>4 DEF Lose, TypeInv, TypeOK, metaculus
  <2> QED BY <2>1, <2>2, <2>3, <2>4 DEF Metaculus
<1> QED BY <1>1, <1>2, <1>3, <1>4 DEF TypeInv, TypeOK

(* Steps of q's call that keep its stage: a permit comes, a request goes, a try is over. *)
LEMMA CallType ==
    ASSUME TypeInv, NEW q \in Questions,
           GetPermit(q) \/ Send(q) \/ (call[q] = "sent" /\ TryAgain(q))
    PROVE  TypeInv'
<1>1. /\ call[q] # "none" /\ call'[q] # "none"
      /\ call' \in [Questions -> {"none", "queued", "pacing", "sent"}]
      /\ \A d \in Questions \ {q} : call'[d] = call[d]
  BY DEF GetPermit, Send, TryAgain, TypeInv, TypeOK
<1>2. permits' \in Nat /\ permits' = permits + One(Calling(q)) - One(Calling(q)')
  <2>1. /\ permits \in Nat
        /\ call \in [Questions -> {"none", "queued", "pacing", "sent"}]
    BY CountsAssumption DEF TypeInv, TypeOK
  <2>2. CASE GetPermit(q)
    <3>1. /\ call[q] = "queued" /\ call'[q] = "pacing"
          /\ permits' = permits - 1 /\ permits > 0
      BY <2>1, <2>2 DEF GetPermit
    <3> QED BY <2>1, <3>1 DEF Calling, One
  <2>3. CASE Send(q) \/ (call[q] = "sent" /\ TryAgain(q))
    <3>1. /\ permits' = permits
          /\ call[q] \in {"pacing", "sent"} /\ call'[q] \in {"pacing", "sent"}
      BY <2>1, <2>3 DEF Send, TryAgain, permitVars
    <3> QED BY <2>1, <3>1 DEF Calling, One
  <2> QED BY <2>2, <2>3
<1>3. permits' \in 0..Permits /\ permits' + Cardinality(Holders') = Permits
  BY <1>1, <1>2, PermitsFollow
<1>4. line' \in Seq(Questions)
  <2>1. line \in Seq(Questions)
    BY DEF TypeInv, TypeOK
  <2>2. CASE GetPermit(q)
    BY <2>1, <2>2, HeadTailProperties DEF GetPermit
  <2>3. CASE line' = line
    BY <2>1, <2>3
  <2> QED BY <2>2, <2>3 DEF Send, TryAgain, permitVars
<1>5. /\ try' \in [Questions -> 1..MaxTries]
      /\ UNCHANGED <<metaculus, attempt, stage, record, outcome>>
  <2>1. try \in [Questions -> 1..MaxTries] /\ MaxTries \in Nat \ {0}
    BY CountsAssumption DEF TypeInv, TypeOK
  <2>2. CASE GetPermit(q)
    BY <2>1, <2>2 DEF GetPermit
  <2>3. CASE Send(q)
    BY <2>1, <2>3 DEF Send
  <2>4. CASE TryAgain(q)
    <3>1. try' = [try EXCEPT ![q] = try[q] + 1] /\ try[q] \in 1..MaxTries /\ try[q] < MaxTries
      BY <2>1, <2>4 DEF TryAgain
    <3>2. try[q] + 1 \in 1..MaxTries
      BY <2>1, <3>1
    <3>3. try' \in [Questions -> 1..MaxTries]
      BY <2>1, <3>1, <3>2
    <3> QED BY <2>4, <3>3 DEF TryAgain
  <2> QED BY <2>2, <2>3, <2>4
<1>6. Request(q) \in Requests
  BY <1>1 DEF TypeInv, TypeOK, CallsMatch, Request, Requests, Kinds
<1>7. /\ wire' \subseteq Requests
      /\ answers' \subseteq answers
  BY <1>6 DEF GetPermit, Send, TryAgain, network, TypeInv, TypeOK
<1>8. \A d \in Questions : CallsMatch(d)'
  BY <1>1, <1>5 DEF TypeInv, TypeOK, CallsMatch
<1> QED BY <1>1, <1>3, <1>4, <1>7, <1>8, <1>5 DEF TypeInv, TypeOK, metaculus

\* What a step of q leaves alone when it ends a call, starts one, or does neither.
Moves(q) ==
    /\ \A d \in Questions \ {q} : /\ call'[d] = call[d] /\ stage'[d] = stage[d]
                                  /\ attempt'[d] = attempt[d]
    /\ call' \in [Questions -> {"none", "queued", "pacing", "sent"}]
    /\ stage' \in [Questions -> Kinds \cup {"idle", "working"}]
    /\ attempt' \in [Questions -> 0..MaxAttempts]
    /\ call'[q] \in {"none", "queued"}
    /\ CallsMatch(q)'
    /\ permits' = IF Calling(q) THEN permits + 1 ELSE permits
    /\ line' \in Seq(Questions)
    /\ answers' \subseteq answers
    /\ record' \in [Questions -> [attempt : 0..MaxAttempts, submitted : BOOLEAN]]
    /\ outcome' \in [Questions -> {"none", "skipped", "failed", "abstained",
                                   "recorded", "posted"}]
    /\ UNCHANGED <<metaculus, wire, try>>

(* Such a step keeps the types. *)
LEMMA MoveType ==
    ASSUME TypeInv, NEW q \in Questions, Moves(q)
    PROVE  TypeInv'
<1>1. permits \in Nat
  BY CountsAssumption DEF TypeInv, TypeOK
<1>2. permits' \in Nat /\ permits' = permits + One(Calling(q)) - One(Calling(q)')
  <2>1. ~Calling(q)'
    BY DEF Moves, Calling
  <2> QED BY <1>1, <2>1 DEF Moves, One
<1>3. permits' \in 0..Permits /\ permits' + Cardinality(Holders') = Permits
  BY <1>2, PermitsFollow DEF Moves
<1>4. \A d \in Questions : CallsMatch(d)'
  BY DEF TypeInv, CallsMatch, Moves
<1> QED BY <1>3, <1>4 DEF TypeInv, TypeOK, Moves, metaculus

\* Ending the attempt or its call, as it begins, goes on or gives up.
Ending(q) ==
    \/ GiveUp(q) /\ stage[q] # "idle"
    \/ Fetched(q) \/ ForecastPosted(q) \/ CommentPosted(q)
    \/ Work(q)

(* All of these are such steps. *)
LEMMA EndingMoves ==
    ASSUME TypeInv, NEW q \in Questions, Ending(q)
    PROVE  Moves(q)
<1> DEFINE A(i) == {a \in answers : a.r.q # i}
<1>1. /\ call \in [Questions -> {"none", "queued", "pacing", "sent"}]
      /\ stage \in [Questions -> Kinds \cup {"idle", "working"}]
      /\ attempt \in [Questions -> 0..MaxAttempts]
      /\ record \in [Questions -> [attempt : 0..MaxAttempts, submitted : BOOLEAN]]
      /\ outcome \in [Questions -> {"none", "skipped", "failed", "abstained",
                                    "recorded", "posted"}]
      /\ line \in Seq(Questions) /\ MaxAttempts \in Nat \ {0}
      /\ SubmitPrediction \in BOOLEAN
  BY CountsAssumption DEF TypeInv, TypeOK
<1>2. WithoutQ(q) \in Seq(Questions) /\ Append(line, q) \in Seq(Questions)
  BY <1>1, WithoutIsLine, AppendProperties
<1>3. /\ call[q] # "none" <=> stage[q] \in Kinds
      /\ stage[q] # "idle" => attempt[q] \in Attempts
  BY DEF TypeInv, CallsMatch
<1>4. ASSUME ReleasePermit(q), NEW how \in {"failed", "skipped", "posted"}, Finish(q, how),
             UNCHANGED <<metaculus, wire, attempt, try, record>>
      PROVE  Moves(q)
  BY <1>1, <1>2, <1>4 DEF ReleasePermit, Finish, Moves, CallsMatch, Kinds
<1>5. CASE GiveUp(q) \/ TimeOut(q) \/ CommentPosted(q)
  BY <1>4, <1>5 DEF GiveUp, TimeOut, CommentPosted
<1>6. CASE ForecastPosted(q)
  <2>1. stage[q] \in Kinds /\ attempt[q] \in Attempts
    BY <1>3, <1>6 DEF ForecastPosted, Kinds
  <2> QED BY <1>1, <1>2, <1>6, <2>1
          DEF ForecastPosted, StartComment, StartCall, Moves, CallsMatch, Calling, Kinds
<1>7. CASE Fetched(q)
  <2>1. ReleasePermit(q) /\ UNCHANGED <<metaculus, wire, attempt, try, record>>
    BY <1>7 DEF Fetched
  <2>2. CASE Finish(q, "skipped")
    BY <1>4, <2>1, <2>2
  <2>3. CASE ~Finish(q, "skipped")
    <3>1. /\ stage' = [stage EXCEPT ![q] = "working"] /\ call' = [call EXCEPT ![q] = "none"]
          /\ outcome' = outcome /\ stage[q] = "fetch"
      BY <1>7, <2>3 DEF Fetched
    <3>2. attempt[q] \in Attempts
      BY <1>3, <3>1
    <3> QED BY <1>1, <1>2, <2>1, <3>1, <3>2 DEF ReleasePermit, Moves, CallsMatch, Kinds
  <2> QED BY <2>2, <2>3
<1>8. CASE Begin(q)
  <2>1. attempt[q] + 1 \in Attempts /\ attempt[q] + 1 \in 0..MaxAttempts
    BY <1>1, <1>8 DEF Begin, Attempts
  <2>2. ~Calling(q)
    BY <1>3, <1>8 DEF Begin, Calling, Kinds
  <2>3. attempt' = [attempt EXCEPT ![q] = attempt[q] + 1]
    BY <1>8 DEF Begin
  <2> QED BY <1>1, <1>2, <1>8, <2>1, <2>2, <2>3
          DEF Begin, StartCall, Moves, CallsMatch, Kinds, network
<1>9. ASSUME stage[q] = "working" PROVE call[q] = "none" /\ ~Calling(q) /\ attempt[q] \in Attempts
  BY <1>3, <1>9 DEF Kinds, Calling
<1>10. CASE WorkFails(q)
  BY <1>1, <1>9, <1>10 DEF WorkFails, Finish, Moves, CallsMatch, Kinds, network, permitVars
<1>11. CASE Abstain(q)
  <2>1. record' \in [Questions -> [attempt : 0..MaxAttempts, submitted : BOOLEAN]]
    BY <1>1, <1>11 DEF Abstain
  <2> QED BY <1>1, <1>9, <1>11, <2>1
          DEF Abstain, Finish, Moves, CallsMatch, Kinds, network, permitVars
<1>12. CASE Forecast(q)
  <2>1. record' \in [Questions -> [attempt : 0..MaxAttempts, submitted : BOOLEAN]]
    BY <1>1, <1>12 DEF Forecast
  <2>2. stage[q] = "working" /\ UNCHANGED <<metaculus, network, attempt, try, permits>>
    BY <1>12 DEF Forecast
  <2>3. CASE SubmitPrediction
    BY <1>1, <1>2, <1>9, <1>12, <2>1, <2>2, <2>3
       DEF Forecast, StartCall, Moves, CallsMatch, Kinds, network
  <2>4. CASE ~SubmitPrediction
    BY <1>1, <1>9, <1>12, <2>1, <2>2, <2>4
       DEF Forecast, Finish, Moves, CallsMatch, Kinds, network
  <2> QED BY <2>3, <2>4
<1> QED BY <1>5, <1>6, <1>7, <1>8, <1>10, <1>11, <1>12 DEF Ending, Work

(* Every step is Metaculus's, keeps the stage of one call, ends one, or changes nothing. *)
LEMMA StepKinds ==
    ASSUME TypeInv, [Next]_vars
    PROVE  \/ Metaculus
           \/ \E q \in Questions : \/ GetPermit(q) \/ Send(q)
                                   \/ call[q] = "sent" /\ TryAgain(q)
                                   \/ Ending(q)
           \/ UNCHANGED vars
<1>1. ASSUME NEW q \in Questions, call[q] = "sent" PROVE stage[q] # "idle"
  BY <1>1 DEF TypeInv, CallsMatch, Kinds
<1>2. ASSUME NEW q \in Questions, EndTry(q)
      PROVE  (call[q] = "sent" /\ TryAgain(q)) \/ Ending(q)
  BY <1>1, <1>2 DEF EndTry, NetworkError, Refused, Ending
<1> QED BY <1>2 DEF Next, MakeCall, Terminated, Ending

(* So the types are kept by every step. *)
LEMMA NextType ==
    ASSUME TypeInv, [Next]_vars
    PROVE  TypeInv'
<1>1. CASE UNCHANGED vars
  <2>1. Holders' = Holders
    BY <1>1 DEF Holders, Calling, vars
  <2> QED BY <1>1, <2>1 DEF vars, TypeInv, TypeOK, CallsMatch, metaculus, network, permitVars
<1> QED BY <1>1, StepKinds, OutsideType, CallType, EndingMoves, MoveType

(* They hold at the start. *)
LEMMA InitType == Init => TypeInv
<1> SUFFICES ASSUME Init PROVE TypeInv
  OBVIOUS
<1>1. Holders = {}
  BY DEF Init, Holders, Calling
<1>2. Cardinality(Holders) = 0
  BY <1>1, FS_EmptySet
<1>3. \A q \in Questions : CallsMatch(q)
  BY DEF Init, CallsMatch, Kinds
<1>4. /\ try \in [Questions -> 1..MaxTries] /\ permits \in 0..Permits
      /\ record \in [Questions -> [attempt : 0..MaxAttempts, submitted : BOOLEAN]]
      /\ attempt \in [Questions -> 0..MaxAttempts]
      /\ permits = Permits /\ Permits \in Nat
  BY CountsAssumption DEF Init
<1>5. line \in Seq(Questions)
  BY EmptySeq DEF Init
<1> QED BY <1>2, <1>3, <1>4, <1>5 DEF Init, TypeInv, TypeOK, Kinds

-----------------------------------------------------------------------------
(* What requests, answers and the attempt say of Metaculus. *)
Took(q, n) == \E f \in stored[q] : f.attempt = n
Shows(q, n) == \E c \in comments[q] : c[1] = n

AnswersAreTrue ==
    \A a \in answers : a.status = "ok" =>
        /\ a.r.kind = "forecast" => Took(a.r.q, a.r.attempt)
        /\ a.r.kind = "comment" => Shows(a.r.q, a.r.attempt)

RequestsAreTrue == \A r \in wire : r.kind = "comment" => Took(r.q, r.attempt)

AttemptIsTrue(q) ==
    /\ stage[q] = "comment" => Took(q, attempt[q])
    /\ stage[q] \in {"forecast", "comment"}
         => record[q] = [attempt |-> attempt[q], submitted |-> TRUE]
    /\ outcome[q] = "posted" =>
         /\ stage[q] = "idle"
         /\ Took(q, attempt[q]) /\ Shows(q, attempt[q])
         /\ record[q] = [attempt |-> attempt[q], submitted |-> TRUE]

StoryInv ==
    /\ TypeInv
    /\ AnswersAreTrue /\ RequestsAreTrue
    /\ \A q \in Questions : AttemptIsTrue(q)
    /\ CommentFollowsForecast

(* Metaculus forgets nothing, and the bot cannot make it say anything. *)
LEMMA OnlyMore ==
    ASSUME TypeInv, [Next]_vars, NEW q \in Questions
    PROVE  stored[q] \subseteq stored'[q] /\ comments[q] \subseteq comments'[q]
<1>1. CASE Metaculus
  <2>1. ASSUME NEW r \in wire, Accept(r)
        PROVE  stored[q] \subseteq stored'[q] /\ comments[q] \subseteq comments'[q]
    BY <2>1 DEF Accept, TypeInv, TypeOK
  <2> QED BY <1>1, <2>1 DEF Metaculus, Close, Refuse, Lose, metaculus
<1>2. ASSUME NEW d \in Questions, GetPermit(d) \/ Send(d) \/ TryAgain(d)
      PROVE  stored' = stored /\ comments' = comments
  BY <1>2 DEF GetPermit, Send, TryAgain, metaculus
<1>3. ASSUME NEW d \in Questions, Ending(d)
      PROVE  stored' = stored /\ comments' = comments
  BY <1>3, EndingMoves DEF Moves, metaculus
<1> QED BY <1>1, <1>2, <1>3, StepKinds DEF vars, metaculus

(* A step of Metaculus or of the network keeps all of it true. *)
LEMMA OutsideStory ==
    ASSUME StoryInv, Metaculus
    PROVE  StoryInv'
<1>1. TypeInv'
  BY OutsideType DEF StoryInv
<1>2. UNCHANGED <<attempt, stage, record, outcome>>
  BY DEF Metaculus, Close, Accept, Refuse, Lose
<1>3. \A q \in Questions : stored[q] \subseteq stored'[q] /\ comments[q] \subseteq comments'[q]
  BY OnlyMore DEF StoryInv, Next
<1>4. \A q \in Questions : \A n : /\ Took(q, n) => Took(q, n)'
                                  /\ Shows(q, n) => Shows(q, n)'
  BY <1>3 DEF Took, Shows
<1>5. \A q \in Questions : AttemptIsTrue(q)'
  BY <1>2, <1>4 DEF StoryInv, AttemptIsTrue
<1>6. wire' \subseteq wire /\ \A r \in wire : r.q \in Questions
  BY DEF Metaculus, Close, Accept, Refuse, Lose, network, StoryInv, TypeInv, TypeOK, Requests
<1>7. RequestsAreTrue'
  BY <1>4, <1>6 DEF StoryInv, RequestsAreTrue
<1>8. AnswersAreTrue' /\ CommentFollowsForecast'
  <2>1. CASE stored' = stored /\ comments' = comments
            /\ \A a \in answers' : a \in answers \/ a.status # "ok"
    BY <2>1 DEF StoryInv, AnswersAreTrue, CommentFollowsForecast, Took, Shows
  <2>2. ASSUME NEW r \in wire, Accept(r)
        PROVE  AnswersAreTrue' /\ CommentFollowsForecast'
    <3>1. r \in Requests
      BY DEF StoryInv, TypeInv, TypeOK
    <3>2. r.q \in Questions
      BY <3>1 DEF Requests
    <3>3. r.kind = "forecast" => Took(r.q, r.attempt)'
      <4>1. ASSUME r.kind = "forecast"
            PROVE  [attempt |-> r.attempt, late |-> attempt[r.q] # r.attempt] \in stored'[r.q]
        BY <2>2, <3>2, <4>1 DEF Accept, StoryInv, TypeInv, TypeOK
      <4> QED BY <4>1 DEF Took
    <3>4. r.kind = "comment" => Shows(r.q, r.attempt)'
      <4>1. ASSUME r.kind = "comment" PROVE <<r.attempt, r.try>> \in comments'[r.q]
        BY <2>2, <3>2, <4>1 DEF Accept, StoryInv, TypeInv, TypeOK
      <4> QED BY <4>1 DEF Shows
    <3>5. \A a \in answers' : a \in answers \/ a.r = r
      BY <2>2 DEF Accept, Answer
    <3>6. \A a \in answers : a.r.q \in Questions
      BY DEF StoryInv, TypeInv, TypeOK, Requests
    <3>7. AnswersAreTrue'
      BY <1>4, <3>3, <3>4, <3>5, <3>6 DEF StoryInv, AnswersAreTrue
    <3>8. ASSUME NEW q \in Questions, NEW c \in comments'[q] PROVE Took(q, c[1])'
      <4>1. CASE c \in comments[q]
        BY <1>4, <4>1 DEF StoryInv, CommentFollowsForecast, Took
      <4>2. CASE c \notin comments[q]
        <5>1. r.kind = "comment" /\ q = r.q /\ c = <<r.attempt, r.try>>
          BY <2>2, <3>2, <3>8, <4>2 DEF Accept, StoryInv, TypeInv, TypeOK
        <5>2. Took(q, r.attempt)
          BY <5>1 DEF StoryInv, RequestsAreTrue
        <5> QED BY <1>4, <5>1, <5>2
      <4> QED BY <4>1, <4>2
    <3> QED BY <3>7, <3>8 DEF CommentFollowsForecast, Took
  <2> QED BY <2>1, <2>2 DEF Metaculus, Close, Refuse, Lose, metaculus, network, Answer
<1> QED BY <1>1, <1>5, <1>7, <1>8 DEF StoryInv

(* So does a step of a call: what it sends says no more than its attempt does. *)
LEMMA CallStory ==
    ASSUME StoryInv, NEW q \in Questions,
           GetPermit(q) \/ Send(q) \/ (call[q] = "sent" /\ TryAgain(q))
    PROVE  StoryInv'
<1>1. TypeInv'
  BY CallType DEF StoryInv
<1>2. /\ UNCHANGED <<stored, comments, attempt, stage, record, outcome>>
      /\ answers' \subseteq answers
  BY DEF GetPermit, Send, TryAgain, metaculus, network
<1>3. wire' \subseteq wire \cup {Request(q)}
  BY DEF GetPermit, Send, TryAgain, network
<1>4. Request(q).kind = "comment" => Took(Request(q).q, Request(q).attempt)
  BY DEF StoryInv, AttemptIsTrue, Request
<1>5. RequestsAreTrue'
  BY <1>2, <1>3, <1>4 DEF StoryInv, RequestsAreTrue, Took
<1> QED BY <1>1, <1>2, <1>5
        DEF StoryInv, AnswersAreTrue, AttemptIsTrue, CommentFollowsForecast, Took, Shows

(* And the end of a call: the comment begins, and the attempt succeeds, on an answer. *)
LEMMA EndingStory ==
    ASSUME StoryInv, NEW q \in Questions, Ending(q)
    PROVE  StoryInv'
<1>1. TypeInv /\ Moves(q) /\ TypeInv'
  BY EndingMoves, MoveType DEF StoryInv
<1>2. /\ UNCHANGED <<stored, comments, wire>> /\ answers' \subseteq answers
      /\ \A d \in Questions \ {q} : stage'[d] = stage[d] /\ attempt'[d] = attempt[d]
  BY <1>1 DEF Moves, metaculus
<1>3. \A d \in Questions \ {q} : record'[d] = record[d] /\ outcome'[d] = outcome[d]
  <2>1. CASE UNCHANGED record /\ \E how : outcome' = [outcome EXCEPT ![q] = how]
    BY <1>1, <2>1 DEF TypeInv, TypeOK
  <2>2. CASE UNCHANGED record /\ UNCHANGED outcome
    BY <2>2
  <2>3. CASE GiveUp(q) \/ CommentPosted(q) \/ WorkFails(q) \/ TimeOut(q) \/ Begin(q)
    BY <2>1, <2>3 DEF GiveUp, CommentPosted, WorkFails, TimeOut, Begin, Finish
  <2>4. CASE Fetched(q) \/ ForecastPosted(q)
    BY <2>1, <2>2, <2>4 DEF Fetched, ForecastPosted, StartComment, Finish
  <2>5. CASE Abstain(q)
    BY <1>1, <2>5 DEF Abstain, Finish, TypeInv, TypeOK
  <2>6. CASE Forecast(q)
    <3>1. \A d \in Questions \ {q} : record'[d] = record[d]
      BY <1>1, <2>6 DEF Forecast, TypeInv, TypeOK
    <3>2. outcome' = outcome \/ outcome' = [outcome EXCEPT ![q] = "recorded"]
      BY <2>6 DEF Forecast, Finish
    <3> QED BY <1>1, <3>1, <3>2 DEF TypeInv, TypeOK
  <2> QED BY <2>3, <2>4, <2>5, <2>6 DEF Ending, Work
<1>4. AnswersAreTrue' /\ RequestsAreTrue' /\ CommentFollowsForecast'
  BY <1>2 DEF StoryInv, AnswersAreTrue, RequestsAreTrue, CommentFollowsForecast, Took, Shows
<1>5. \A d \in Questions \ {q} : AttemptIsTrue(d)'
  BY <1>2, <1>3 DEF StoryInv, AttemptIsTrue, Took, Shows
<1>6. /\ stage \in [Questions -> Kinds \cup {"idle", "working"}]
      /\ outcome \in [Questions -> {"none", "skipped", "failed", "abstained",
                                    "recorded", "posted"}]
      /\ record \in [Questions -> [attempt : 0..MaxAttempts, submitted : BOOLEAN]]
      /\ SubmitPrediction \in BOOLEAN
  BY <1>1, CountsAssumption DEF TypeInv, TypeOK
<1>7. AttemptIsTrue(q)
  BY DEF StoryInv
<1>8. AttemptIsTrue(q)'
  <2>1. ASSUME NEW how \in {"failed", "skipped", "abstained", "recorded"}, Finish(q, how)
        PROVE  AttemptIsTrue(q)'
    BY <1>6, <2>1 DEF Finish, AttemptIsTrue
  <2>2. CASE GiveUp(q) \/ WorkFails(q) \/ Abstain(q) \/ TimeOut(q)
    BY <2>1, <2>2 DEF GiveUp, WorkFails, Abstain, TimeOut
  <2>3. CASE Fetched(q)
    BY <1>6, <1>7, <2>1, <2>3 DEF Fetched, AttemptIsTrue, Took, Shows
  <2>4. CASE ForecastPosted(q)
    <3>1. PICK a \in AnswerTo(q) : a.status = "ok"
      BY <2>4 DEF ForecastPosted
    <3>2. a \in answers /\ a.r.kind = "forecast" /\ a.r.q = q /\ a.r.attempt = attempt[q]
      BY <2>4, <3>1 DEF AnswerTo, Request, ForecastPosted
    <3>3. Took(q, attempt[q])
      BY <3>1, <3>2 DEF StoryInv, AnswersAreTrue
    <3>4. /\ stage'[q] = "comment" /\ attempt' = attempt /\ record' = record
          /\ outcome' = outcome /\ outcome[q] # "posted"
      BY <1>6, <1>7, <2>4 DEF ForecastPosted, StartComment, StartCall, AttemptIsTrue
    <3> QED BY <1>2, <1>7, <2>4, <3>3, <3>4 DEF AttemptIsTrue, ForecastPosted, Took, Shows
  <2>5. CASE CommentPosted(q)
    <3>1. PICK a \in AnswerTo(q) : a.status = "ok"
      BY <2>5 DEF CommentPosted
    <3>2. a \in answers /\ a.r.kind = "comment" /\ a.r.q = q /\ a.r.attempt = attempt[q]
      BY <2>5, <3>1 DEF AnswerTo, Request, CommentPosted
    <3>3. Shows(q, attempt[q])
      BY <3>1, <3>2 DEF StoryInv, AnswersAreTrue
    <3>4. stage'[q] = "idle" /\ attempt' = attempt /\ record' = record /\ stage[q] = "comment"
      BY <1>6, <2>5 DEF CommentPosted, Finish
    <3> QED BY <1>2, <1>7, <3>3, <3>4 DEF AttemptIsTrue, Took, Shows
  <2>6. CASE Begin(q)
    BY <1>6, <2>6 DEF Begin, StartCall, AttemptIsTrue
  <2>7. CASE Forecast(q)
    <3>1. CASE SubmitPrediction
      <4>1. record'[q] = [attempt |-> attempt[q], submitted |-> TRUE]
        BY <1>6, <2>7, <3>1 DEF Forecast
      <4>2. stage'[q] = "forecast" /\ attempt' = attempt /\ outcome'[q] # "posted"
        BY <1>6, <1>7, <2>7, <3>1 DEF Forecast, StartCall, AttemptIsTrue
      <4> QED BY <4>1, <4>2 DEF AttemptIsTrue
    <3>2. CASE ~SubmitPrediction
      BY <2>1, <2>7, <3>2 DEF Forecast
    <3> QED BY <3>1, <3>2
  <2> QED BY <2>2, <2>3, <2>4, <2>5, <2>6, <2>7 DEF Ending, Work
<1> QED BY <1>1, <1>4, <1>5, <1>8 DEF StoryInv

(* So the story is kept by every step. *)
LEMMA NextStory ==
    ASSUME StoryInv, [Next]_vars
    PROVE  StoryInv'
<1>1. CASE UNCHANGED vars
  <2>1. TypeInv'
    BY NextType DEF StoryInv
  <2> QED BY <1>1, <2>1 DEF vars, metaculus, network, StoryInv, AnswersAreTrue,
             RequestsAreTrue, AttemptIsTrue, CommentFollowsForecast, Took, Shows
<1> QED BY <1>1, StepKinds, OutsideStory, CallStory, EndingStory DEF StoryInv

(* It is true at the start. *)
LEMMA InitStory == Init => StoryInv
  BY InitType DEF Init, StoryInv, AnswersAreTrue, RequestsAreTrue, AttemptIsTrue,
                  CommentFollowsForecast

\* A comment on Metaculus has its forecast there, and what the bot calls posted
\* is there and recorded so, whatever is lost, late, repeated or cancelled.
THEOREM MetaculusAlwaysAgrees == Spec => []MetaculusAgrees
<1>1. StoryInv => MetaculusAgrees
  BY DEF StoryInv, TypeInv, MetaculusAgrees, PostedIsOnMetaculus, AttemptIsTrue, Took, Shows
<1> QED BY <1>1, InitStory, NextStory, PTL DEF Spec

-----------------------------------------------------------------------------
\* Of the forecasts Metaculus took for q, those of an attempt before the n-th
\* came late.
EarlierAreLate(q, n) == \A f \in stored[q] : f.attempt < n => f.late

Firsts ==
    /\ \A q \in Questions : \A f \in stored[q] :
          f.attempt <= attempt[q] /\ EarlierAreLate(q, f.attempt)
    /\ \A r \in wire :
          /\ r.attempt <= attempt[r.q]
          /\ r.kind = "forecast" => EarlierAreLate(r.q, r.attempt)
    /\ \A a \in answers :
          /\ a.r.attempt <= attempt[a.r.q]
          /\ a.status = "ok" /\ a.r.kind = "fetch" /\ ~a.made
               => EarlierAreLate(a.r.q, a.r.attempt)
    /\ \A q \in Questions :
          stage[q] \in {"working", "forecast"} => EarlierAreLate(q, attempt[q])

FirstInv == TypeInv /\ (SkipPrevious => Firsts)

(* The attempts compared are numbers. *)
LEMMA NumbersAreNumbers ==
    ASSUME TypeInv
    PROVE  /\ \A n \in Attempts : n \in Int
           /\ \A q \in Questions : attempt[q] \in Int
           /\ \A q \in Questions : \A f \in stored[q] : f.attempt \in Int
           /\ \A s \in wire : s.q \in Questions /\ s.attempt \in Int
           /\ \A a \in answers : a.r.q \in Questions /\ a.r.attempt \in Int
           /\ \A n \in Requests : n.attempt \in Int
<1>1. MaxAttempts \in Nat
  BY CountsAssumption
<1>2. \A n \in Attempts : n \in Int
  BY <1>1 DEF Attempts
<1>3. \A n \in Requests : n.attempt \in Int /\ n.q \in Questions
  BY <1>2 DEF Requests
<1>4. \A q \in Questions : attempt[q] \in Int
  BY <1>1 DEF TypeInv, TypeOK
<1>5. \A q \in Questions : \A f \in stored[q] : f.attempt \in Int
  BY <1>2 DEF TypeInv, TypeOK
<1>6. \A s \in wire : s \in Requests
  BY DEF TypeInv, TypeOK
<1>7. \A a \in answers : a.r \in Requests
  BY DEF TypeInv, TypeOK
<1> QED BY <1>2, <1>3, <1>4, <1>5, <1>6, <1>7

(* A forecast that Metaculus takes is late, or its sender's attempt is the last one. *)
LEMMA AcceptFirsts ==
    ASSUME TypeInv, Firsts, NEW r \in wire, Accept(r)
    PROVE  Firsts'
<1> DEFINE new == [attempt |-> r.attempt, late |-> attempt[r.q] # r.attempt]
<1>1. r \in Requests /\ r.q \in Questions /\ r.attempt \in Attempts /\ r.attempt <= attempt[r.q]
  BY DEF TypeInv, TypeOK, Requests, Firsts
<1>2. /\ \A q \in Questions : attempt[q] \in Int
      /\ \A q \in Questions : \A f \in stored[q] : f.attempt \in Int
      /\ r.attempt \in Int
      /\ \A s \in wire : s.q \in Questions /\ s.attempt \in Int
      /\ \A a \in answers : a.r.q \in Questions /\ a.r.attempt \in Int
  BY <1>1, NumbersAreNumbers
<1>3. UNCHANGED <<attempt, stage>> /\ wire' \subseteq wire
  BY DEF Accept
<1>4. \A q \in Questions : \A f \in stored'[q] :
         f \in stored[q] \/ (r.kind = "forecast" /\ q = r.q /\ f = new)
  BY <1>1 DEF Accept, TypeInv, TypeOK
<1>5. \A q \in Questions, n \in Int :
         n <= attempt[q] /\ EarlierAreLate(q, n) => EarlierAreLate(q, n)'
  <2> SUFFICES ASSUME NEW q \in Questions, NEW n \in Int, n <= attempt[q],
                      EarlierAreLate(q, n), NEW f \in stored'[q], f.attempt < n
               PROVE  f.late
    BY DEF EarlierAreLate
  <2>1. CASE f \in stored[q]
    BY <2>1 DEF EarlierAreLate
  <2>2. CASE f \notin stored[q]
    <3>1. q = r.q /\ f = new
      BY <1>4, <2>2
    <3>2. f.attempt = r.attempt /\ f.late = (attempt[r.q] # r.attempt)
      BY <3>1
    <3>3. attempt[r.q] # r.attempt
      BY <1>1, <1>2, <3>1, <3>2
    <3> QED BY <3>2, <3>3
  <2> QED BY <2>1, <2>2
<1>6. \A q \in Questions : \A f \in stored'[q] : f.attempt <= attempt[q] /\ EarlierAreLate(q, f.attempt)
  BY <1>1, <1>4 DEF Firsts
<1>7. \A a \in answers' : \/ a \in answers
                          \/ /\ a.r = r
                             /\ r.kind = "fetch" /\ ~a.made => stored'[r.q] = {}
  <2>1. r.kind = "fetch" => stored' = stored
    BY DEF Accept
  <2>2. \A a \in answers' : a \in answers \/ a = Answer(r, "ok")
    BY DEF Accept
  <2>3. Answer(r, "ok").r = r /\ Answer(r, "ok").made = (stored[r.q] # {})
    BY DEF Answer
  <2> QED BY <2>1, <2>2, <2>3
<1>8. \A q \in Questions : \A f \in stored'[q] :
         f.attempt <= attempt'[q] /\ EarlierAreLate(q, f.attempt)'
  <2>1. \A q \in Questions : \A f \in stored'[q] : f.attempt \in Int
    BY <1>2, <1>4
  <2> QED BY <1>3, <1>5, <1>6, <2>1
<1>9. \A s \in wire' : /\ s.attempt <= attempt'[s.q]
                       /\ s.kind = "forecast" => EarlierAreLate(s.q, s.attempt)'
  BY <1>2, <1>3, <1>5 DEF Firsts
<1>10. ASSUME NEW a \in answers'
       PROVE  /\ a.r.attempt <= attempt'[a.r.q]
              /\ a.status = "ok" /\ a.r.kind = "fetch" /\ ~a.made
                   => EarlierAreLate(a.r.q, a.r.attempt)'
  <2>1. CASE a \in answers
    BY <1>2, <1>3, <1>5, <2>1 DEF Firsts
  <2>2. CASE a \notin answers
    BY <1>1, <1>3, <1>7, <2>2 DEF EarlierAreLate
  <2> QED BY <2>1, <2>2
<1>11. \A q \in Questions :
          stage'[q] \in {"working", "forecast"} => EarlierAreLate(q, attempt[q])'
  BY <1>2, <1>3, <1>5 DEF Firsts
<1> QED BY <1>3, <1>8, <1>9, <1>10, <1>11 DEF Firsts

(* The other steps of Metaculus and the network take nothing. *)
LEMMA OutsideFirst ==
    ASSUME TypeInv, Firsts, Metaculus
    PROVE  Firsts'
<1>1. CASE \E r \in wire : Accept(r)
  BY <1>1, AcceptFirsts
<1>2. CASE ~ \E r \in wire : Accept(r)
  <2>1. /\ stored' = stored /\ attempt' = attempt /\ stage' = stage /\ wire' \subseteq wire
        /\ \A a \in answers' :
              a \in answers \/ (a.r \in wire /\ a.status # "ok")
    BY <1>2 DEF Metaculus, Close, Refuse, Lose, Answer, metaculus, network
  <2> QED BY <2>1 DEF Firsts, EarlierAreLate
<1> QED BY <1>1, <1>2

(* What a call sends is its attempt's. *)
LEMMA CallFirst ==
    ASSUME TypeInv, Firsts, NEW q \in Questions,
           GetPermit(q) \/ Send(q) \/ (call[q] = "sent" /\ TryAgain(q))
    PROVE  Firsts'
<1>1. /\ UNCHANGED <<stored, attempt, stage>> /\ answers' \subseteq answers
      /\ wire' \subseteq wire \cup {Request(q)}
  BY DEF GetPermit, Send, TryAgain, metaculus, network
<1>2. /\ Request(q).attempt <= attempt[Request(q).q]
      /\ Request(q).kind = "forecast" => EarlierAreLate(Request(q).q, Request(q).attempt)
  BY NumbersAreNumbers DEF Firsts, Request
<1> QED BY <1>1, <1>2 DEF Firsts, EarlierAreLate

(* An attempt goes on to work only if the fetched post shows no forecast. *)
LEMMA EndingFirst ==
    ASSUME TypeInv, SkipPrevious, Firsts, NEW q \in Questions, Ending(q)
    PROVE  Firsts'
<1>1. Moves(q)
  BY EndingMoves
<1>2. /\ UNCHANGED <<stored, wire>> /\ answers' \subseteq answers
      /\ \A d \in Questions \ {q} : stage'[d] = stage[d] /\ attempt'[d] = attempt[d]
  BY <1>1 DEF Moves, metaculus
<1>3. attempt[q] <= attempt'[q]
  BY NumbersAreNumbers
     DEF Ending, GiveUp, Fetched, ForecastPosted, StartComment, CommentPosted, Work, Begin,
         WorkFails, Abstain, Forecast, TimeOut, TypeInv, TypeOK
<1>4. /\ \A d \in Questions : attempt[d] <= attempt'[d]
      /\ \A d \in Questions : attempt'[d] \in Int
  <2>1. \A d \in Questions : attempt'[d] \in Int
    BY <1>1, CountsAssumption DEF Moves
  <2> QED BY <1>2, <1>3, <2>1, NumbersAreNumbers
<1>5. /\ \A d \in Questions : \A f \in stored'[d] :
            f.attempt <= attempt'[d] /\ EarlierAreLate(d, f.attempt)'
      /\ \A r \in wire' : /\ r.attempt <= attempt'[r.q]
                          /\ r.kind = "forecast" => EarlierAreLate(r.q, r.attempt)'
      /\ \A a \in answers' : /\ a.r.attempt <= attempt'[a.r.q]
                             /\ a.status = "ok" /\ a.r.kind = "fetch" /\ ~a.made
                                  => EarlierAreLate(a.r.q, a.r.attempt)'
  BY <1>2, <1>4, NumbersAreNumbers DEF Firsts, EarlierAreLate
<1>6. ASSUME stage'[q] \in {"working", "forecast"}
      PROVE  attempt' = attempt /\ EarlierAreLate(q, attempt[q])
  <2>1. stage \in [Questions -> Kinds \cup {"idle", "working"}]
    BY DEF TypeInv, TypeOK
  <2>2. \/ Fetched(q) /\ ~Finish(q, "skipped")
        \/ Forecast(q)
    BY <1>6, <2>1 DEF Ending, GiveUp, ForecastPosted, StartComment, StartCall, CommentPosted,
                      Work, Begin, WorkFails, Abstain, TimeOut, Finish
  <2>3. CASE Fetched(q) /\ ~Finish(q, "skipped")
    <3>1. PICK a \in AnswerTo(q) : a.status = "ok" /\ ~a.made
      BY <2>3 DEF Fetched
    <3>2. a \in answers /\ a.r.kind = "fetch" /\ a.r.q = q /\ a.r.attempt = attempt[q]
      BY <2>3, <3>1 DEF AnswerTo, Request, Fetched
    <3> QED BY <2>3, <3>1, <3>2 DEF Firsts, Fetched
  <2>4. CASE Forecast(q)
    BY <2>4 DEF Forecast, Firsts
  <2> QED BY <2>2, <2>3, <2>4
<1>7. \A d \in Questions :
         stage'[d] \in {"working", "forecast"} => EarlierAreLate(d, attempt[d])'
  BY <1>2, <1>6 DEF Firsts, EarlierAreLate
<1> QED BY <1>5, <1>7 DEF Firsts

(* So it is kept by every step. *)
LEMMA NextFirst ==
    ASSUME FirstInv, [Next]_vars
    PROVE  FirstInv'
<1>1. TypeInv'
  BY NextType DEF FirstInv
<1>2. ASSUME SkipPrevious PROVE Firsts'
  <2>1. CASE UNCHANGED vars
    BY <1>2, <2>1 DEF FirstInv, vars, metaculus, network, Firsts, EarlierAreLate
  <2> QED BY <1>2, <2>1, StepKinds, OutsideFirst, CallFirst, EndingFirst DEF FirstInv
<1> QED BY <1>1, <1>2 DEF FirstInv

\* With SKIP_PREVIOUSLY_FORECASTED_QUESTIONS, Metaculus takes forecasts of two
\* attempts only if the earlier one's came when a later attempt had begun.
THEOREM OneForecastEach == Spec => []OneForecastUnlessOvertaken
<1>1. Init => FirstInv
  BY InitType DEF Init, FirstInv, Firsts
<1>2. FirstInv => OneForecastUnlessOvertaken
  BY DEF FirstInv, Firsts, EarlierAreLate, OneForecastUnlessOvertaken
<1> QED BY <1>1, <1>2, NextFirst, PTL DEF Spec

-----------------------------------------------------------------------------
(***************************************************************************)
(* Publisher.  The bot only ever makes the files of a folder               *)
(* newer, and writes the record last; so a publisher that read the record  *)
(* before the files holds files at least as new, and sends all of them     *)
(* before the row.  In the last pass the bot is over: what it holds is     *)
(* what is on the disk.                                                    *)
(***************************************************************************)

AtRequest == pub.at \in RequestKinds
HoldsRecord == pub.at \in RequestKinds \cup {"files"}

BotState == [at : Files \cup {"idle", "post", "done"}, attempt : Nat]
PubState == [who : {"watch", "end"}, q : Asked, seen : Nat, rec : Nat, files : [Files -> Nat],
             at : RequestKinds \cup {"look", "read", "files", "over"}]

Types ==
  /\ bot \in [Asked -> BotState]
  /\ disk \in [Asked -> [Files -> Nat]] /\ over \in BOOLEAN
  /\ blobs \in [Asked -> [Files -> Nat]] /\ row \in [Asked -> Nat]
  /\ calls \in [Asked -> [1..MaxCalls -> Nat]]
  /\ runRow \in BOOLEAN /\ log \in BOOLEAN /\ runsDone \in BOOLEAN
  /\ pub \in PubState

\* An attempt writes its record last, and no attempt writes an older file over a newer one.
FolderInOrder(b, d) ==
  /\ b.at \in Files \cup {"post"} => b.attempt # 0
  /\ \A f \in Files : d[f] <= b.attempt
  /\ b.at \in {"runs.md", Record} => d["research.md"] # 0
  /\ b.at = Record => d["runs.md"] # 0
  /\ d[Record] # 0 => \A f \in Files : d[f] # 0
RecordIsLast == \A q \in Asked : FolderInOrder(bot[q], disk[q])

\* What the publisher holds of the folder it is at.
HoldsTheFolder ==
  /\ pub.at = "read" => disk[Q][Record] # 0
  /\ HoldsRecord => pub.rec # 0 /\ pub.rec <= disk[Q][Record]
  /\ AtRequest => /\ \A f \in Files : pub.files[f] # 0
                  /\ pub.rec <= pub.files[Record]
                  /\ row[Q] <= pub.files[Record]

\* What it has sent of it.
FilesSent(at) == IF at = "research.md" THEN {Record}
                 ELSE IF at = "runs.md" THEN {Record, "research.md"}
                 ELSE IF at \in {"log", "runs", "row", "calls"} THEN Files
                 ELSE {}
HasSent ==
  /\ \A f \in FilesSent(pub.at) : blobs[Q][f] = pub.files[f]
  /\ pub.at \in {"row", "calls"} => runRow
  /\ pub.at = "calls" => row[Q] = pub.rec
  /\ runsDone => runRow

RowsFollowDisk == \A q \in Asked : row[q] <= disk[q][Record]

\* The last pass: what lies behind it is published, what it holds is what is there.
LastPassSoFar ==
  /\ pub.at = "over" => pub.who = "end"
  /\ pub.who = "end" =>
       /\ over
       /\ runsDone \/ pub.at \in {"runs", "row", "calls"} => log
       /\ HoldsRecord => pub.rec = disk[Q][Record]
       /\ AtRequest => pub.files = disk[Q]
       /\ \A q \in Asked : /\ pub.at = "over" \/ q < Q
                           /\ disk[q][Record] # 0 /\ q \notin failed
                           => blobs[q] = disk[q] /\ row[q] = disk[q][Record] /\ log

PubInv == /\ Types /\ RecordIsLast /\ HoldsTheFolder /\ HasSent /\ RowsFollowDisk
          /\ FilesBeforeRows /\ KeysAreThere /\ LastPassSoFar

\* Nothing is published and nothing written at the start.
LEMMA PubInitInv == PublisherInit => PubInv
<1> SUFFICES ASSUME PublisherInit PROVE PubInv
  OBVIOUS
<1> USE DEF PublisherInit, Q
<1>1. 1 \in Asked BY PublisherAssumption DEF Asked
<1>2. Types BY <1>1 DEF Types, BotState, PubState, Files, RequestKinds, Record
<1>3. RecordIsLast BY DEF RecordIsLast, FolderInOrder, Files, Record
<1>4. HoldsTheFolder BY DEF HoldsTheFolder, HoldsRecord, AtRequest, RequestKinds, Files, Record
<1>5. HasSent BY DEF HasSent, FilesSent, Files, Record
<1>6. RowsFollowDisk BY DEF RowsFollowDisk, Files, Record
<1>7. FilesBeforeRows /\ KeysAreThere BY DEF FilesBeforeRows, KeysAreThere
<1>8. LastPassSoFar BY DEF LastPassSoFar
<1> QED BY <1>2, <1>3, <1>4, <1>5, <1>6, <1>7, <1>8 DEF PubInv

\* A folder stays in order as its attempt writes a file.
LEMMA SaveInOrder ==
  ASSUME NEW b \in BotState, NEW d \in [Files -> Nat], FolderInOrder(b, d), b.at \in Files
  PROVE  /\ [b EXCEPT !.at = After(b.at)] \in BotState
         /\ [d EXCEPT ![b.at] = b.attempt] \in [Files -> Nat]
         /\ FolderInOrder([b EXCEPT !.at = After(b.at)], [d EXCEPT ![b.at] = b.attempt])
         /\ \A f \in Files : d[f] <= [d EXCEPT ![b.at] = b.attempt][f]
<1> DEFINE c == [b EXCEPT !.at = After(b.at)]
           e == [d EXCEPT ![b.at] = b.attempt]
<1>1. b.attempt \in Nat /\ b.attempt # 0 BY DEF BotState, FolderInOrder
<1>2. c.attempt = b.attempt /\ c.at = After(b.at) BY DEF BotState
<1>3. After(b.at) \in Files \cup {"post"} BY DEF After, Files, Record
<1>4. c \in BotState BY <1>1, <1>2, <1>3 DEF BotState
<1>5. e \in [Files -> Nat] BY <1>1
<1>6. \A f \in Files : e[f] = IF f = b.at THEN b.attempt ELSE d[f] OBVIOUS
<1>7. \A f \in Files : d[f] <= e[f] /\ e[f] <= b.attempt BY <1>1, <1>6 DEF FolderInOrder
<1> HIDE DEF c, e
<1>8. ASSUME b.at = "research.md" PROVE FolderInOrder(c, e)
  BY <1>1, <1>2, <1>6, <1>7, <1>8 DEF FolderInOrder, Files, Record, After
<1>9. ASSUME b.at = "runs.md" PROVE FolderInOrder(c, e)
  BY <1>1, <1>2, <1>6, <1>7, <1>9 DEF FolderInOrder, Files, Record, After
<1>10. ASSUME b.at = Record PROVE FolderInOrder(c, e)
  BY <1>1, <1>2, <1>6, <1>7, <1>10 DEF FolderInOrder, Files, Record, After
<1>11. FolderInOrder(c, e) BY <1>8, <1>9, <1>10 DEF Files
<1> QED BY <1>4, <1>5, <1>7, <1>11 DEF c, e

\* The bot makes files newer, the record last, and nothing once it is over.
LEMMA BotMakesNewer ==
  ASSUME Types, RecordIsLast, BotNext
  PROVE  /\ bot' \in [Asked -> BotState]
         /\ disk' \in [Asked -> [Files -> Nat]] /\ over' \in BOOLEAN
         /\ RecordIsLast'
         /\ \A q \in Asked : \A f \in Files : disk[q][f] <= disk'[q][f]
         /\ over => disk' = disk /\ over'
<1>0. /\ bot \in [Asked -> BotState] /\ disk \in [Asked -> [Files -> Nat]] /\ over \in BOOLEAN
      /\ \A q \in Asked : FolderInOrder(bot[q], disk[q])
  BY DEF Types, RecordIsLast
<1>1. ASSUME NEW q \in Asked, BeginAttempt(q)
      PROVE  bot' \in [Asked -> BotState] /\ disk' = disk /\ over' = over /\ RecordIsLast'
  <2> DEFINE b == [at |-> "research.md", attempt |-> bot[q].attempt + 1]
  <2>1. bot' = [bot EXCEPT ![q] = b] /\ disk' = disk /\ over' = over BY <1>1 DEF BeginAttempt
  <2>2. b \in BotState BY <1>0 DEF BotState, Files
  <2>3. \A f \in Files : disk[q][f] \in Nat BY <1>0
  <2>4. FolderInOrder(b, disk[q]) BY <1>0, <2>3 DEF FolderInOrder, BotState, Record
  <2>5. RecordIsLast' BY <1>0, <2>1, <2>4 DEF RecordIsLast
  <2> QED BY <1>0, <2>1, <2>2, <2>5
<1>2. ASSUME NEW q \in Asked, Save(q)
      PROVE  /\ bot' \in [Asked -> BotState]
             /\ disk' \in [Asked -> [Files -> Nat]] /\ over' = over /\ ~over /\ RecordIsLast'
             /\ \A p \in Asked : \A f \in Files : disk[p][f] <= disk'[p][f]
  <2> DEFINE b == [bot[q] EXCEPT !.at = After(bot[q].at)]
             d == [disk[q] EXCEPT ![bot[q].at] = bot[q].attempt]
  <2>1. ~over /\ over' = over /\ bot[q].at \in Files BY <1>2 DEF Save
  <2>2. bot' = [bot EXCEPT ![q] = b] /\ disk' = [disk EXCEPT ![q] = d] BY <1>2 DEF Save
  <2>3. bot[q] \in BotState /\ disk[q] \in [Files -> Nat] /\ FolderInOrder(bot[q], disk[q]) BY <1>0
  <2>4. b \in BotState /\ d \in [Files -> Nat] /\ FolderInOrder(b, d) /\ \A f \in Files : disk[q][f] <= d[f]
    BY <2>1, <2>3, SaveInOrder
  <2> HIDE DEF b, d
  <2>5. RecordIsLast' BY <1>0, <2>2, <2>4 DEF RecordIsLast
  <2>6. \A p \in Asked : \A f \in Files : disk[p][f] \in Nat BY <1>0
  <2>7. \A p \in Asked : \A f \in Files : disk[p][f] <= disk'[p][f] BY <1>0, <2>2, <2>4, <2>6
  <2> QED BY <1>0, <2>1, <2>2, <2>4, <2>5, <2>7
<1>3. ASSUME NEW q \in Asked, PostForecast(q) \/ AttemptFails(q)
      PROVE  bot' \in [Asked -> BotState] /\ disk' = disk /\ over' = over /\ RecordIsLast'
  <2>1. PICK s \in {"done", "idle"} : bot' = [bot EXCEPT ![q] = [bot[q] EXCEPT !.at = s]]
    BY <1>3 DEF PostForecast, AttemptFails
  <2> DEFINE b == [bot[q] EXCEPT !.at = s]
  <2>2. disk' = disk /\ over' = over BY <1>3 DEF PostForecast, AttemptFails
  <2>3. bot[q] \in BotState /\ FolderInOrder(bot[q], disk[q]) BY <1>0
  <2>4. b \in BotState /\ b.attempt = bot[q].attempt /\ b.at = s BY <2>3 DEF BotState
  <2>5. FolderInOrder(b, disk[q]) BY <2>3, <2>4 DEF FolderInOrder, Files, Record
  <2> HIDE DEF b
  <2>6. RecordIsLast' BY <1>0, <2>1, <2>2, <2>5 DEF RecordIsLast, b
  <2> QED BY <1>0, <2>1, <2>2, <2>4, <2>6 DEF b
<1>4. ASSUME disk' = disk PROVE \A q \in Asked : \A f \in Files : disk[q][f] <= disk'[q][f]
  BY <1>0, <1>4
<1>5. CASE \E q \in Asked : BeginAttempt(q) BY <1>0, <1>1, <1>4, <1>5
<1>6. CASE \E q \in Asked : Save(q) BY <1>0, <1>2, <1>6
<1>7. CASE \E q \in Asked : PostForecast(q) \/ AttemptFails(q) BY <1>0, <1>3, <1>4, <1>7
<1>8. CASE BotEnds
  <2>1. bot' = bot /\ disk' = disk /\ over' = TRUE BY <1>8 DEF BotEnds
  <2>2. RecordIsLast' BY <1>0, <2>1 DEF RecordIsLast
  <2> QED BY <1>0, <1>4, <2>1, <2>2
<1> QED BY <1>5, <1>6, <1>7, <1>8 DEF BotNext

\* A step of the bot keeps the invariant.
LEMMA BotInv ==
  ASSUME PubInv, BotNext, UNCHANGED <<pub, done, runsDone, failed, faults, libVars>>
  PROVE  PubInv'
<1> USE DEF PubInv, libVars, Q
<1>1. Types /\ RecordIsLast OBVIOUS
<1>2. /\ bot' \in [Asked -> BotState]
      /\ disk' \in [Asked -> [Files -> Nat]] /\ over' \in BOOLEAN
      /\ RecordIsLast'
      /\ \A q \in Asked : \A f \in Files : disk[q][f] <= disk'[q][f]
      /\ over => disk' = disk /\ over'
  BY <1>1, BotMakesNewer
<1>3. Types' BY <1>2 DEF Types
<1>4. pub.q \in Asked /\ pub.rec \in Nat /\ Record \in Files /\ row \in [Asked -> Nat]
  BY DEF Types, PubState, Files
<1>5. /\ disk[pub.q][Record] \in Nat /\ disk'[pub.q][Record] \in Nat
      /\ disk[pub.q][Record] <= disk'[pub.q][Record]
  BY <1>2, <1>4 DEF Types
<1>6. HoldsTheFolder' BY <1>4, <1>5 DEF HoldsTheFolder, HoldsRecord, AtRequest
<1>7. HasSent' BY DEF HasSent
<1>8. RowsFollowDisk'
  <2> SUFFICES ASSUME NEW q \in Asked PROVE row[q] <= disk'[q][Record]
    BY DEF RowsFollowDisk
  <2>1. row[q] \in Nat /\ disk[q][Record] \in Nat /\ disk'[q][Record] \in Nat BY <1>2, <1>4 DEF Types
  <2> QED BY <1>2, <1>4, <2>1 DEF RowsFollowDisk
<1>9. FilesBeforeRows' /\ KeysAreThere' BY DEF FilesBeforeRows, KeysAreThere
<1>10. LastPassSoFar' BY <1>2 DEF LastPassSoFar, HoldsRecord, AtRequest
<1> QED BY <1>2, <1>3, <1>6, <1>7, <1>8, <1>9, <1>10

\* What a request leaves of the library, applied or not.
LibraryKept ==
  /\ blobs' \in [Asked -> [Files -> Nat]] /\ row' \in [Asked -> Nat]
  /\ calls' \in [Asked -> [1..MaxCalls -> Nat]] /\ runRow' \in BOOLEAN /\ log' \in BOOLEAN
  /\ \A q \in Asked : row'[q] <= disk[q][Record]
  /\ FilesBeforeRows' /\ KeysAreThere'
  /\ runRow => runRow'
  /\ log => log'
  /\ \A q \in Asked : q # Q => blobs'[q] = blobs[q] /\ row'[q] = row[q]

\* A request that is sent keeps the library consistent.
LEMMA RequestKeeps == ASSUME PubInv, AtRequest, Apply PROVE LibraryKept
<1> USE DEF PubInv, Q
<1>1. /\ blobs \in [Asked -> [Files -> Nat]] /\ row \in [Asked -> Nat]
      /\ calls \in [Asked -> [1..MaxCalls -> Nat]] /\ runRow \in BOOLEAN /\ log \in BOOLEAN
      /\ pub.q \in Asked /\ pub.rec \in Nat /\ pub.files \in [Files -> Nat]
      /\ disk[pub.q] \in [Files -> Nat] /\ Record \in Files
  BY DEF Types, PubState, Files
<1>2. /\ pub.rec # 0 /\ pub.rec <= disk[pub.q][Record] /\ pub.rec <= pub.files[Record]
      /\ \A f \in Files : pub.files[f] # 0
      /\ row[pub.q] <= pub.files[Record]
  BY DEF AtRequest, HoldsTheFolder, HoldsRecord
<1>3. pub.files[Record] \in Nat /\ row[pub.q] \in Nat BY <1>1
<1>4. /\ \A q \in Asked : row[q] <= disk[q][Record]
      /\ \A q \in Asked : row[q] # 0 => (\A f \in Files : blobs[q][f] # 0) /\ blobs[q][Record] >= row[q]
      /\ \A q \in Asked : row[q] # 0 => runRow
      /\ \A q \in Asked : \A k \in 1..MaxCalls : calls[q][k] # 0 => row[q] # 0
  BY DEF RowsFollowDisk, FilesBeforeRows, KeysAreThere
<1>5. CASE pub.at \in Files
  <2>1. blobs' = [blobs EXCEPT ![pub.q] = [blobs[pub.q] EXCEPT ![pub.at] = pub.files[pub.at]]]
    BY <1>5 DEF Apply
  <2>2. log' = log /\ runRow' = runRow /\ row' = row /\ calls' = calls
    BY <1>1, <1>5 DEF Apply, Files, Record
  <2>3. pub.files[pub.at] \in Nat BY <1>1, <1>5
  <2>4. blobs' \in [Asked -> [Files -> Nat]] BY <1>1, <1>5, <2>1, <2>3
  <2>5. \A q \in Asked : \A f \in Files :
          blobs'[q][f] = IF q = pub.q /\ f = pub.at THEN pub.files[pub.at] ELSE blobs[q][f]
    BY <1>1, <1>5, <2>1
  <2>6. \A q \in Asked : q # pub.q => blobs'[q] = blobs[q] BY <1>1, <2>1
  <2>7. FilesBeforeRows'
    <3> SUFFICES ASSUME NEW q \in Asked, row[q] # 0
                 PROVE  (\A f \in Files : blobs'[q][f] # 0) /\ blobs'[q][Record] >= row[q]
      BY <2>2 DEF FilesBeforeRows
    <3>1. (\A f \in Files : blobs[q][f] # 0) /\ blobs[q][Record] >= row[q] BY <1>4
    <3>2. \A f \in Files : blobs'[q][f] # 0 BY <1>2, <1>5, <2>5, <3>1
    <3>3. blobs'[q][Record] >= row[q]
      <4>1. CASE q = pub.q /\ pub.at = Record BY <4>1, <1>1, <1>2, <1>3, <2>5
      <4>2. CASE ~(q = pub.q /\ pub.at = Record) BY <4>2, <1>1, <2>5, <3>1
      <4> QED BY <4>1, <4>2
    <3> QED BY <3>2, <3>3
  <2>8. KeysAreThere' BY <2>2 DEF KeysAreThere
  <2> QED BY <1>1, <1>4, <2>2, <2>4, <2>6, <2>7, <2>8 DEF LibraryKept
<1>6. CASE pub.at \in {"log", "runs"}
  <2>1. /\ blobs' = blobs /\ row' = row /\ calls' = calls
        /\ log' = (log \/ pub.at = "log") /\ runRow' = (runRow \/ pub.at = "runs")
    BY <1>6 DEF Apply, Files, Record
  <2>2. FilesBeforeRows' BY <2>1 DEF FilesBeforeRows
  <2>3. KeysAreThere' BY <1>4, <2>1 DEF KeysAreThere
  <2> QED BY <1>1, <1>4, <2>1, <2>2, <2>3 DEF LibraryKept
<1>7. CASE pub.at = "row"
  <2>1. blobs' = blobs /\ log' = log /\ runRow' = runRow /\ calls' = calls
    BY <1>1, <1>7 DEF Apply, Files, Record
  <2>2. row' = [row EXCEPT ![pub.q] = pub.rec] BY <1>7 DEF Apply
  <2>3. runRow /\ \A f \in Files : blobs[pub.q][f] = pub.files[f] BY <1>7 DEF HasSent, FilesSent
  <2>4. \A q \in Asked : row'[q] = IF q = pub.q THEN pub.rec ELSE row[q] BY <1>1, <2>2
  <2>5. FilesBeforeRows' BY <1>1, <1>2, <1>3, <1>4, <2>1, <2>3, <2>4 DEF FilesBeforeRows
  <2>6. KeysAreThere' BY <1>2, <1>4, <2>1, <2>3, <2>4 DEF KeysAreThere
  <2>7. row' \in [Asked -> Nat] BY <1>1, <2>2
  <2>8. \A q \in Asked : row'[q] <= disk[q][Record] BY <1>2, <1>4, <2>4
  <2> QED BY <1>1, <2>1, <2>4, <2>5, <2>6, <2>7, <2>8 DEF LibraryKept
<1>8. CASE pub.at = "calls"
  <2>1. blobs' = blobs /\ log' = log /\ runRow' = runRow /\ row' = row
    BY <1>1, <1>8 DEF Apply, Files, Record
  <2> DEFINE new == [k \in 1..MaxCalls |-> IF k <= CallsOf(pub.rec) THEN pub.rec ELSE calls[pub.q][k]]
  <2>2. calls' = [calls EXCEPT ![pub.q] = new] BY <1>8 DEF Apply
  <2>3. new \in [1..MaxCalls -> Nat] BY <1>1
  <2>4. calls' \in [Asked -> [1..MaxCalls -> Nat]] BY <1>1, <2>2, <2>3
  <2>5. row[pub.q] # 0 BY <1>2, <1>8 DEF HasSent
  <2>6. \A q \in Asked : q # pub.q => calls'[q] = calls[q] BY <1>1, <2>2
  <2> HIDE DEF new
  <2>7. KeysAreThere' BY <1>4, <2>1, <2>5, <2>6 DEF KeysAreThere
  <2>8. FilesBeforeRows' BY <2>1 DEF FilesBeforeRows
  <2> QED BY <1>1, <1>4, <2>1, <2>4, <2>7, <2>8 DEF LibraryKept
<1> QED BY <1>5, <1>6, <1>7, <1>8 DEF AtRequest, RequestKinds, Files, Record

\* A request that is not applied changes nothing.
LEMMA NothingSent == ASSUME PubInv, UNCHANGED libVars PROVE LibraryKept
<1>1. blobs' = blobs /\ row' = row /\ calls' = calls /\ runRow' = runRow /\ log' = log
  BY DEF libVars
<1>2. FilesBeforeRows' /\ KeysAreThere' BY <1>1 DEF PubInv, FilesBeforeRows, KeysAreThere
<1> QED BY <1>1, <1>2 DEF PubInv, Types, RowsFollowDisk, LibraryKept

\* Where the publisher goes after a folder.
LEMMA Advanced ==
  ASSUME PubInv, Advance
  PROVE  /\ pub' \in PubState /\ pub'.who = pub.who
         /\ pub'.at \in {"look", "over"}
         /\ pub'.at = "over" => pub.who = "end"
         /\ \A q \in Asked : pub.who = "end" /\ (pub'.at = "over" \/ q < pub'.q) => q < Q \/ q = Q
<1> DEFINE n == IF pub.q < NumQuestions THEN pub.q + 1 ELSE 1
           a == IF pub.who = "end" /\ pub.q = NumQuestions THEN "over" ELSE "look"
<1>1. pub \in PubState /\ pub.q \in Asked BY DEF PubInv, Types, PubState
<1>2. pub' = [pub EXCEPT !.q = n, !.at = a] BY DEF Advance, Q
<1>3. n \in Asked /\ NumQuestions \in Nat /\ pub.q \in Nat /\ pub.q <= NumQuestions
  BY <1>1, PublisherAssumption DEF Asked
<1>4. pub'.who = pub.who /\ pub'.q = n /\ pub'.at = a BY <1>1, <1>2 DEF PubState
<1>5. pub' \in PubState BY <1>1, <1>2, <1>3 DEF PubState
<1>6. \A q \in Asked : pub.who = "end" /\ (a = "over" \/ q < n) => q < pub.q \/ q = pub.q
  BY <1>3 DEF Asked
<1> QED BY <1>4, <1>5, <1>6 DEF Q

\* Leaving a folder keeps the invariant, if what the last pass leaves behind is published.
LEMMA AdvanceInv ==
  ASSUME PubInv, Advance, UNCHANGED botVars, LibraryKept,
         runsDone' \in BOOLEAN, runsDone' => runRow', failed \subseteq failed',
         pub.who = "end" =>
           /\ runsDone' => log'
           /\ disk[Q][Record] # 0 /\ Q \notin failed' =>
                blobs'[Q] = disk[Q] /\ row'[Q] = disk[Q][Record] /\ log'
  PROVE  PubInv'
<1>1. /\ pub' \in PubState /\ pub'.who = pub.who
      /\ pub'.at \in {"look", "over"}
      /\ pub'.at = "over" => pub.who = "end"
      /\ \A q \in Asked : pub.who = "end" /\ (pub'.at = "over" \/ q < pub'.q) => q < Q \/ q = Q
  BY Advanced
<1>2. bot' = bot /\ disk' = disk /\ over' = over BY DEF botVars
<1>3. Types' BY <1>1, <1>2 DEF PubInv, Types, LibraryKept
<1>4. RecordIsLast' BY <1>2 DEF PubInv, RecordIsLast
<1>5. pub'.at \notin RequestKinds \cup {"files", "read"} BY <1>1 DEF RequestKinds, Files, Record
<1>6. HoldsTheFolder' BY <1>5 DEF HoldsTheFolder, HoldsRecord, AtRequest
<1>7. FilesSent(pub'.at) = {} BY <1>1 DEF FilesSent
<1>8. HasSent'
  <2>1. FilesSent(pub.at)' = FilesSent(pub'.at) BY DEF FilesSent
  <2> QED BY <1>1, <1>7, <2>1 DEF HasSent
<1>9. RowsFollowDisk' BY <1>2 DEF RowsFollowDisk, LibraryKept
<1>10. FilesBeforeRows' /\ KeysAreThere' BY DEF LibraryKept
<1>11. LastPassSoFar'
  <2>1. pub'.at \notin {"runs", "row", "calls"} BY <1>1
  <2>2. ASSUME pub.who = "end", NEW q \in Asked, pub'.at = "over" \/ q < pub'.q,
               disk[q][Record] # 0, q \notin failed'
        PROVE  blobs'[q] = disk[q] /\ row'[q] = disk[q][Record] /\ log'
    <3>1. CASE q = Q BY <2>2, <3>1
    <3>2. CASE q # Q
      <4>1. q < Q BY <1>1, <2>2, <3>2
      <4>2. q \notin failed BY <2>2
      <4>3. blobs[q] = disk[q] /\ row[q] = disk[q][Record] /\ log
        BY <2>2, <4>1, <4>2 DEF PubInv, LastPassSoFar
      <4> QED BY <2>2, <3>2, <4>3 DEF LibraryKept
    <3> QED BY <3>1, <3>2
  <2>3. pub.who = "end" => over BY DEF PubInv, LastPassSoFar
  <2> QED BY <1>1, <1>2, <1>5, <2>1, <2>2, <2>3 DEF LastPassSoFar, HoldsRecord, AtRequest, Q
<1> QED BY <1>3, <1>4, <1>6, <1>8, <1>9, <1>10, <1>11 DEF PubInv

\* A step that stays at the folder: the next request.
LEMMA SendInv ==
  ASSUME PubInv, AtRequest, pub.at # "calls", LibraryKept, UNCHANGED botVars,
         To(AfterRequest(pub.at)), UNCHANGED <<runsDone, failed>>,
         IF SkipRequest THEN UNCHANGED libVars ELSE Apply
  PROVE  PubInv'
<1> DEFINE a == AfterRequest(pub.at)
<1>1. /\ pub.at = Record => a = "research.md"
      /\ pub.at = "research.md" => a = "runs.md"
      /\ pub.at = "runs.md" => a = "log"
      /\ pub.at = "log" => a = "runs"
      /\ pub.at = "runs" => a = "row"
      /\ pub.at = "row" => a = "calls"
  BY ZenonT(60) DEF AfterRequest, Record
<1>2. pub.at \in {Record, "research.md", "runs.md", "log", "runs", "row"}
  BY DEF AtRequest, RequestKinds, Files
<1>3. /\ pub \in PubState /\ pub.q \in Asked /\ disk[pub.q] \in [Files -> Nat]
      /\ pub.files \in [Files -> Nat] /\ row[pub.q] \in Nat /\ blobs \in [Asked -> [Files -> Nat]]
      /\ row \in [Asked -> Nat] /\ runsDone \in BOOLEAN
  BY DEF PubInv, Types, PubState
<1>4. pub' = [pub EXCEPT !.at = a] BY DEF To
<1> HIDE DEF a
<1>5. a \in RequestKinds /\ a # Record
  BY <1>1, <1>2 DEF RequestKinds, Files, Record
<1>6. /\ pub'.at = a /\ pub'.q = pub.q /\ pub'.rec = pub.rec /\ pub'.files = pub.files
      /\ pub'.who = pub.who /\ pub' \in PubState
  BY <1>3, <1>4, <1>5 DEF PubState
<1>7. bot' = bot /\ disk' = disk /\ over' = over /\ runsDone' = runsDone /\ failed' = failed
  BY DEF botVars
<1>8. Types' BY <1>6, <1>7 DEF PubInv, Types, LibraryKept
<1>9. RecordIsLast' BY <1>7 DEF PubInv, RecordIsLast
<1>10. RowsFollowDisk' /\ FilesBeforeRows' /\ KeysAreThere' BY <1>7 DEF RowsFollowDisk, LibraryKept
<1>11. /\ pub.rec # 0 /\ pub.rec <= disk[pub.q][Record] /\ pub.rec <= pub.files[Record]
       /\ \A f \in Files : pub.files[f] # 0
       /\ row[pub.q] <= pub.files[Record]
  BY DEF PubInv, HoldsTheFolder, AtRequest, HoldsRecord, Q
<1>12. pub.at \in {"log", "runs"} /\ SkipRequest =>
         /\ pub.at = "runs" => runsDone
         /\ pub.at = "log" /\ pub.who = "end" => runsDone
  BY DEF SkipRequest
<1>13. pub.at \notin {"log", "runs"} => ~SkipRequest BY DEF SkipRequest
<1>14. row' = row \/ (pub.at = "row" /\ row' = [row EXCEPT ![pub.q] = pub.rec])
  BY <1>2 DEF Apply, libVars, Q
<1>15. row'[pub.q] <= pub.files[Record] /\ (pub.at = "row" => row'[pub.q] = pub.rec)
  <2>1. CASE pub.at = "row"
    <3>1. row' = [row EXCEPT ![pub.q] = pub.rec] BY <1>13, <2>1 DEF Apply, Q
    <3> QED BY <3>1, <1>3, <1>11
  <2>2. CASE pub.at # "row" BY <2>2, <1>14, <1>11
  <2> QED BY <2>1, <2>2
<1>16. HoldsTheFolder'
  BY <1>5, <1>6, <1>7, <1>11, <1>15
  DEF HoldsTheFolder, HoldsRecord, AtRequest, Q, RequestKinds, Files, Record
<1>17. /\ pub.at \in Files => blobs' = [blobs EXCEPT ![pub.q] = [blobs[pub.q] EXCEPT ![pub.at] = pub.files[pub.at]]]
       /\ pub.at \notin Files => blobs' = blobs
  <2>1. CASE SkipRequest
    <3>1. pub.at \notin Files /\ blobs' = blobs BY <2>1, <1>13 DEF libVars, Files, Record
    <3> QED BY <3>1
  <2>2. CASE ~SkipRequest BY <2>2 DEF Apply, Q
  <2> QED BY <2>1, <2>2
<1>18. \A f \in FilesSent(pub.at) : blobs[pub.q][f] = pub.files[f] BY DEF PubInv, HasSent, Q
<1>19. \A f \in FilesSent(a) : blobs'[pub.q][f] = pub.files[f]
  <2>1. CASE pub.at = Record
    <3>1. FilesSent(a) = {Record} BY <1>1, <2>1 DEF FilesSent
    <3> QED BY <3>1, <2>1, <1>3, <1>17 DEF Files
  <2>2. CASE pub.at = "research.md"
    <3>1. FilesSent(a) = {Record, "research.md"} /\ FilesSent(pub.at) = {Record}
      BY <1>1, <2>2 DEF FilesSent
    <3> QED BY <3>1, <2>2, <1>3, <1>17, <1>18 DEF Files, Record
  <2>3. CASE pub.at = "runs.md"
    <3>1. FilesSent(a) = Files /\ FilesSent(pub.at) = {Record, "research.md"}
      BY <1>1, <2>3 DEF FilesSent
    <3> QED BY <3>1, <2>3, <1>3, <1>17, <1>18 DEF Files, Record
  <2>4. CASE pub.at \in {"log", "runs", "row"}
    <3>1. FilesSent(a) = Files /\ FilesSent(pub.at) = Files BY <1>1, <2>4 DEF FilesSent
    <3>2. blobs' = blobs BY <1>17, <2>4 DEF Files, Record
    <3> QED BY <3>1, <3>2, <1>18
  <2> QED BY <2>1, <2>2, <2>3, <2>4, <1>2
<1>20. HasSent'
  <2>1. FilesSent(pub.at)' = FilesSent(a) BY <1>6 DEF FilesSent
  <2>2. (pub.at \in {"row", "calls"} => runRow) /\ (runsDone => runRow) /\ (runRow => runRow')
    BY DEF PubInv, HasSent, LibraryKept
  <2>3. a \in {"row", "calls"} => runRow'
    <3>1. CASE pub.at = "runs" /\ SkipRequest BY <3>1, <2>2, <1>12
    <3>2. CASE pub.at = "runs" /\ ~SkipRequest BY <3>2 DEF Apply
    <3>3. CASE pub.at # "runs" BY <3>3, <2>2, <1>1, <1>2
    <3> QED BY <3>1, <3>2, <3>3
  <2>4. a = "calls" => pub.at = "row" BY <1>1, <1>2
  <2> QED BY <2>1, <2>2, <2>3, <2>4, <1>6, <1>7, <1>15, <1>19 DEF HasSent, Q
<1>21. LastPassSoFar'
  <2>1. pub'.at # "over" BY <1>5, <1>6 DEF RequestKinds, Files, Record
  <2> SUFFICES ASSUME pub.who = "end" PROVE LastPassSoFar'
    BY <1>6, <2>1 DEF LastPassSoFar
  <2>2. /\ over /\ (runsDone \/ pub.at \in {"runs", "row", "calls"} => log)
        /\ pub.rec = disk[pub.q][Record] /\ pub.files = disk[pub.q] /\ (log => log')
    BY DEF PubInv, LastPassSoFar, HoldsRecord, AtRequest, Q, LibraryKept
  <2>3. a \in {"runs", "row", "calls"} => log'
    <3>1. CASE pub.at = "log" /\ SkipRequest BY <3>1, <2>2, <1>12
    <3>2. CASE pub.at = "log" /\ ~SkipRequest BY <3>2 DEF Apply
    <3>3. CASE pub.at # "log" BY <3>3, <2>2, <1>1, <1>2
    <3> QED BY <3>1, <3>2, <3>3
  <2>4. ASSUME NEW q \in Asked, q < pub.q, disk[q][Record] # 0, q \notin failed
        PROVE  blobs'[q] = disk[q] /\ row'[q] = disk[q][Record] /\ log'
    <3>1. blobs[q] = disk[q] /\ row[q] = disk[q][Record] /\ log
      BY <2>4 DEF PubInv, LastPassSoFar, Q
    <3>2. q # pub.q BY <2>4, <1>3 DEF Asked
    <3> QED BY <3>1, <3>2, <2>2 DEF LibraryKept, Q
  <2> QED BY <2>1, <2>2, <2>3, <2>4, <1>6, <1>7 DEF LastPassSoFar, Q
<1> QED BY <1>8, <1>9, <1>10, <1>16, <1>20, <1>21 DEF PubInv

\* Looking at a folder: nothing is held of it yet.
LEMMA LookInv == ASSUME PubInv, Look, UNCHANGED botVars PROVE PubInv'
<1>1. LibraryKept /\ UNCHANGED <<runsDone, failed, libVars>> BY NothingSent DEF Look
<1>2. runsDone \in BOOLEAN /\ (runsDone => runRow) BY DEF PubInv, Types, HasSent
<1>3. pub.at = "look" BY DEF Look
<1>4. CASE Advance
  <2>1. pub.who = "end" => (runsDone => log) BY DEF PubInv, LastPassSoFar
  <2>2. CASE pub.who = "end" /\ disk[Q][Record] # 0
    <3>1. pub' = [pub EXCEPT !.at = "read", !.seen = disk[Q][Record]] BY <2>2 DEF Look
    <3>2. pub \in PubState BY DEF PubInv, Types
    <3>3. pub'.at = "read" BY <3>1, <3>2 DEF PubState
    <3> QED BY <1>4, <3>3, Advanced
  <2>3. CASE ~(pub.who = "end" /\ disk[Q][Record] # 0)
    BY <1>1, <1>2, <1>4, <2>1, <2>3, AdvanceInv DEF libVars, LibraryKept
  <2> QED BY <2>2, <2>3
<1>5. CASE ~Advance
  <2>1. pub' = [pub EXCEPT !.at = "read", !.seen = disk[Q][Record]] /\ disk[Q][Record] # 0
    BY <1>5 DEF Look
  <2>2. pub \in PubState /\ pub.q \in Asked /\ disk[Q][Record] \in Nat
    BY DEF PubInv, Types, PubState, Q, Files
  <2>3. /\ pub' \in PubState /\ pub'.at = "read" /\ pub'.q = pub.q /\ pub'.who = pub.who
    BY <2>1, <2>2 DEF PubState
  <2>4. /\ bot' = bot /\ disk' = disk /\ over' = over /\ runsDone' = runsDone /\ failed' = failed
        /\ blobs' = blobs /\ row' = row /\ calls' = calls /\ runRow' = runRow /\ log' = log
    BY <1>1 DEF botVars, libVars
  <2>5. Types' /\ RecordIsLast' /\ RowsFollowDisk'
    BY <2>3, <2>4 DEF PubInv, Types, RecordIsLast, RowsFollowDisk
  <2>6. HoldsTheFolder'
    BY <2>1, <2>3, <2>4 DEF HoldsTheFolder, HoldsRecord, AtRequest, Q, RequestKinds, Files, Record
  <2>7. FilesSent(pub.at)' = {} BY <2>3 DEF FilesSent
  <2>8. HasSent' BY <1>2, <2>3, <2>4, <2>7 DEF HasSent
  <2>9. LastPassSoFar'
    BY <1>3, <2>3, <2>4 DEF PubInv, LastPassSoFar, HoldsRecord, AtRequest, Q, RequestKinds, Files, Record
  <2> QED BY <1>1, <2>5, <2>6, <2>8, <2>9 DEF PubInv, LibraryKept
<1> QED BY <1>4, <1>5

\* Reading the record, and then the files with it.
LEMMA ReadInv == ASSUME PubInv, ReadRecord \/ ReadFiles, UNCHANGED botVars PROVE PubInv'
<1>1. LibraryKept /\ UNCHANGED <<runsDone, failed, libVars>> BY NothingSent DEF ReadRecord, ReadFiles
<1>2. /\ bot' = bot /\ disk' = disk /\ over' = over /\ runsDone' = runsDone /\ failed' = failed
      /\ blobs' = blobs /\ row' = row /\ calls' = calls /\ runRow' = runRow /\ log' = log
  BY <1>1 DEF botVars, libVars
<1>3. /\ pub \in PubState /\ pub.q \in Asked /\ disk \in [Asked -> [Files -> Nat]]
      /\ row \in [Asked -> Nat] /\ Record \in Files /\ pub.rec \in Nat
  BY DEF PubInv, Types, PubState, Files
<1>4. /\ runsDone => runRow
      /\ \A q \in Asked : row[q] <= disk[q][Record]
      /\ disk[pub.q][Record] # 0 => \A f \in Files : disk[pub.q][f] # 0
  BY <1>3 DEF PubInv, HasSent, RowsFollowDisk, RecordIsLast, FolderInOrder
<1>5. disk[pub.q] \in [Files -> Nat] /\ disk[pub.q][Record] \in Nat BY <1>3
<1>6. RecordIsLast' /\ RowsFollowDisk' BY <1>2 DEF PubInv, RecordIsLast, RowsFollowDisk
<1>7. CASE ReadRecord
  <2>1. pub.at = "read" /\ pub' = [pub EXCEPT !.at = "files", !.rec = disk[pub.q][Record]]
    BY <1>7 DEF ReadRecord, Q
  <2>2. /\ pub' \in PubState /\ pub'.at = "files" /\ pub'.q = pub.q /\ pub'.who = pub.who
        /\ pub'.rec = disk[pub.q][Record]
    BY <1>3, <1>5, <2>1 DEF PubState
  <2>3. disk[pub.q][Record] # 0 BY <2>1 DEF PubInv, HoldsTheFolder, Q
  <2>4. Types' BY <1>2, <2>2 DEF PubInv, Types
  <2>5. HoldsTheFolder'
    BY <1>2, <1>5, <2>2, <2>3 DEF HoldsTheFolder, HoldsRecord, AtRequest, Q, RequestKinds, Files, Record
  <2>6. FilesSent(pub.at)' = {} BY <2>2 DEF FilesSent
  <2>7. HasSent' BY <1>2, <1>4, <2>2, <2>6 DEF HasSent
  <2>8. LastPassSoFar'
    BY <1>2, <2>1, <2>2
    DEF PubInv, LastPassSoFar, HoldsRecord, AtRequest, Q, RequestKinds, Files, Record
  <2> QED BY <1>1, <1>6, <2>4, <2>5, <2>7, <2>8 DEF PubInv, LibraryKept
<1>8. CASE ReadFiles
  <2>1. pub.at = "files" /\ pub' = [pub EXCEPT !.at = Record, !.files = disk[pub.q]]
    BY <1>8 DEF ReadFiles, Q
  <2>2. Record \in RequestKinds BY DEF RequestKinds, Files
  <2>3. /\ pub' \in PubState /\ pub'.at = Record /\ pub'.q = pub.q /\ pub'.who = pub.who
        /\ pub'.rec = pub.rec /\ pub'.files = disk[pub.q]
    BY <1>3, <1>5, <2>1, <2>2 DEF PubState
  <2>4. pub.rec # 0 /\ pub.rec <= disk[pub.q][Record] BY <2>1 DEF PubInv, HoldsTheFolder, HoldsRecord, Q
  <2>5. Types' BY <1>2, <2>3 DEF PubInv, Types
  <2>6. disk[pub.q][Record] # 0 BY <1>3, <1>5, <2>4
  <2>7. HoldsTheFolder'
    BY <1>2, <1>3, <1>4, <2>3, <2>4, <2>6 DEF HoldsTheFolder, HoldsRecord, AtRequest, Q, Record
  <2>8. FilesSent(pub.at)' = {} BY <2>3 DEF FilesSent, Record
  <2>9. HasSent' BY <1>2, <1>4, <2>3, <2>8 DEF HasSent, Record
  <2>10. LastPassSoFar'
    BY <1>2, <2>1, <2>3
    DEF PubInv, LastPassSoFar, HoldsRecord, AtRequest, Q, Record
  <2> QED BY <1>1, <1>6, <2>5, <2>7, <2>9, <2>10 DEF PubInv, LibraryKept
<1> QED BY <1>7, <1>8

\* A request that is sent, the last of a folder with the step to the next.
LEMMA SendRequestInv == ASSUME PubInv, SendRequest, UNCHANGED botVars PROVE PubInv'
<1>1. AtRequest BY DEF SendRequest, AtRequest
<1>2. LibraryKept BY <1>1, RequestKeeps, NothingSent DEF SendRequest
<1>3. CASE pub.at # "calls" BY <1>1, <1>2, <1>3, SendInv DEF SendRequest
<1>4. CASE pub.at = "calls"
  <2>1. Advance /\ runsDone' = (pub.who = "end") /\ failed' = failed
    BY <1>4 DEF SendRequest, Published
  <2>2. ~SkipRequest BY <1>4 DEF SkipRequest
  <2>3. Apply BY <2>2 DEF SendRequest
  <2>4. blobs' = blobs /\ row' = row /\ log' = log /\ runRow' = runRow
    <3>1. log \in BOOLEAN /\ runRow \in BOOLEAN BY DEF PubInv, Types
    <3> QED BY <1>4, <2>3, <3>1 DEF Apply, Files, Record
  <2>5. runRow /\ row[Q] = pub.rec /\ \A f \in Files : blobs[Q][f] = pub.files[f]
    BY <1>4 DEF PubInv, HasSent, FilesSent
  <2>6. blobs[Q] = pub.files
    <3>1. blobs[Q] \in [Files -> Nat] /\ pub.files \in [Files -> Nat]
      BY DEF PubInv, Types, PubState, Q
    <3> QED BY <2>5, <3>1
  <2>7. pub.who = "end" => log /\ pub.rec = disk[Q][Record] /\ pub.files = disk[Q]
    BY <1>1, <1>4 DEF PubInv, LastPassSoFar, HoldsRecord, AtRequest
  <2> QED BY <1>2, <2>1, <2>4, <2>5, <2>6, <2>7, AdvanceInv
<1> QED BY <1>3, <1>4

\* A request that fails for good: the folder is left, and the last pass says so.
LEMMA RequestFailsInv == ASSUME PubInv, RequestFails, UNCHANGED botVars PROVE PubInv'
<1>1. AtRequest BY DEF RequestFails, AtRequest
<1>2. LibraryKept BY <1>1, RequestKeeps, NothingSent DEF RequestFails
<1>3. Advance /\ runsDone' = runsDone /\ failed \subseteq failed' /\ (pub.who = "end" => Q \in failed')
  BY DEF RequestFails
<1>4. /\ runsDone \in BOOLEAN /\ (runsDone => runRow) /\ (runRow => runRow') /\ (log => log')
      /\ pub.who = "end" => (runsDone => log)
  BY <1>2 DEF PubInv, Types, HasSent, LastPassSoFar, LibraryKept
<1> QED BY <1>2, <1>3, <1>4, AdvanceInv

\* The last pass starts at the first folder, wherever the watcher was.
LEMMA LastPassInv == ASSUME PubInv, LastPass, UNCHANGED botVars PROVE PubInv'
<1>1. LibraryKept BY NothingSent DEF LastPass
<1>2. /\ bot' = bot /\ disk' = disk /\ over' = over /\ runsDone' = FALSE /\ failed' = failed
      /\ blobs' = blobs /\ row' = row /\ calls' = calls /\ runRow' = runRow /\ log' = log
      /\ over /\ pub' = [pub EXCEPT !.who = "end", !.q = 1, !.at = "look"]
  BY DEF LastPass, botVars, libVars
<1>3. pub \in PubState /\ 1 \in Asked BY PublisherAssumption DEF PubInv, Types, Asked
<1>4. pub' \in PubState /\ pub'.who = "end" /\ pub'.q = 1 /\ pub'.at = "look"
  BY <1>2, <1>3 DEF PubState
<1>5. Types' /\ RecordIsLast' /\ RowsFollowDisk'
  BY <1>2, <1>4 DEF PubInv, Types, RecordIsLast, RowsFollowDisk
<1>6. HoldsTheFolder'
  BY <1>4 DEF HoldsTheFolder, HoldsRecord, AtRequest, RequestKinds, Files, Record
<1>7. FilesSent(pub.at)' = {} BY <1>4 DEF FilesSent
<1>8. HasSent' BY <1>2, <1>4, <1>7 DEF HasSent
<1>9. \A q \in Asked : ~(q < 1) BY DEF Asked
<1>10. LastPassSoFar'
  BY <1>2, <1>4, <1>9 DEF LastPassSoFar, HoldsRecord, AtRequest, Q, RequestKinds, Files, Record
<1> QED BY <1>1, <1>5, <1>6, <1>8, <1>10 DEF PubInv, LibraryKept

\* Every step keeps the invariant.
LEMMA PubNextInv == PubInv /\ [PublisherNext]_pubVars => PubInv'
<1> SUFFICES ASSUME PubInv, [PublisherNext]_pubVars PROVE PubInv'
  OBVIOUS
<1>1. CASE BotNext /\ UNCHANGED <<pub, done, runsDone, failed, faults, libVars>> BY <1>1, BotInv
<1>2. CASE Look /\ UNCHANGED botVars BY <1>2, LookInv
<1>3. CASE (ReadRecord \/ ReadFiles) /\ UNCHANGED botVars BY <1>3, ReadInv
<1>4. CASE SendRequest /\ UNCHANGED botVars BY <1>4, SendRequestInv
<1>5. CASE RequestFails /\ UNCHANGED botVars BY <1>5, RequestFailsInv
<1>6. CASE LastPass /\ UNCHANGED botVars BY <1>6, LastPassInv
<1>7. CASE UNCHANGED pubVars
  <2>1. /\ bot' = bot /\ disk' = disk /\ over' = over /\ runsDone' = runsDone /\ failed' = failed
        /\ blobs' = blobs /\ row' = row /\ calls' = calls /\ runRow' = runRow /\ log' = log
        /\ pub' = pub
    BY <1>7 DEF pubVars, botVars, libVars
  <2>2. Types' /\ RecordIsLast' /\ RowsFollowDisk' /\ FilesBeforeRows' /\ KeysAreThere'
    BY <2>1 DEF PubInv, Types, RecordIsLast, RowsFollowDisk, FilesBeforeRows, KeysAreThere
  <2>3. FilesSent(pub.at)' = FilesSent(pub.at) BY <2>1 DEF FilesSent
  <2>4. HoldsTheFolder' /\ HasSent' /\ LastPassSoFar'
    BY <2>1, <2>3 DEF PubInv, HoldsTheFolder, HasSent, LastPassSoFar, HoldsRecord, AtRequest, Q
  <2> QED BY <2>2, <2>4 DEF PubInv
<1> QED BY <1>1, <1>2, <1>3, <1>4, <1>5, <1>6, <1>7 DEF PublisherNext, PublishStep

\* The invariant says what readers of the library rely on.
LEMMA PubInvConsistent == PubInv => LibraryIsConsistent
<1>1. PubInv => LastPassIsComplete BY DEF PubInv, LastPassSoFar, LastPassIsComplete
<1> QED BY <1>1 DEF PubInv, LibraryIsConsistent

\* publish_files and --watch: the library is consistent whenever it is read, and holds what
\* the run left behind when the last pass is over, for any questions, attempts, LLM calls and
\* failed requests.
THEOREM LibraryAlwaysConsistent == PublisherSpec => []LibraryIsConsistent
<1>1. PublisherInit => PubInv BY PubInitInv
<1>2. PubInv /\ [PublisherNext]_pubVars => PubInv' BY PubNextInv
<1>3. PubInv => LibraryIsConsistent BY PubInvConsistent
<1> QED BY <1>1, <1>2, <1>3, PTL DEF PublisherSpec

(***************************************************************************)
(* OutcomeScoring, for every library and every size of a page.             *)
(*                                                                         *)
(* A row that is due lies ahead of the window: what a page scores leaves   *)
(* the view and pulls later rows forward by as many places as the window   *)
(* moves less.                                                             *)
(***************************************************************************)

(***************************************************************************)
(* The pass.                                                               *)
(***************************************************************************)
\* A row the pass owes a score is in the view, ahead of the window.
DueAhead ==
  \A r \in due \ scored : r \in ToScore /\ Scorable(r) /\ Place(r) > offset

ScoringInv ==
  /\ day \in {"rest", "check", "score"} /\ offset \in Nat
  /\ published \subseteq Rows
  /\ day = "score" => DueAhead
  /\ PassScoresAll

\* What is in the view is a finite set of numbers.
LEMMA ViewIsFinite ==
  ASSUME NEW V \in SUBSET Rows
  PROVE  V \in SUBSET Nat /\ IsFiniteSet(V)
<1>1. Rows = 1 .. Len(QuestionOf) /\ Len(QuestionOf) \in Nat
  BY OutcomeAssumption DEF Rows
<1>2. IsFiniteSet(Rows) BY <1>1, FS_Interval
<1>3. V \in SUBSET Nat BY <1>1
<1> QED BY <1>2, <1>3, FS_Subset

\* A row's place is its place among the rows of the view.
LEMMA PlaceIs == \A r : Place(r) = PlaceIn(ToScore, r)
BY DEF Place, PlaceIn, NotAbove

\* More rows in the view, or none: nothing that is owed falls behind.
LEMMA ViewGrows ==
  ASSUME ScoringInv, published' \subseteq Rows, published \subseteq published',
         UNCHANGED <<day, offset, due, scored, seen>>
  PROVE  ScoringInv'
<1>1. ToScore \subseteq ToScore' BY DEF ToScore
<1>2. ToScore \subseteq Rows /\ ToScore' \subseteq Rows BY DEF ToScore, ScoringInv
<1>3. ASSUME NEW r \in due \ scored, r \in ToScore, Place(r) > offset
      PROVE  r \in ToScore' /\ Place(r)' > offset
  <2>1. ToScore' \in SUBSET Nat /\ IsFiniteSet(ToScore') BY <1>2, ViewIsFinite
  <2>2. r \in Nat /\ r <= r BY <1>2, <1>3, ViewIsFinite
  <2>3. /\ PlaceIn(ToScore', r) \in Nat /\ PlaceIn(ToScore, r) \in Nat
        /\ PlaceIn(ToScore, r) <= PlaceIn(ToScore', r)
    BY <1>1, <2>1, <2>2, PlaceGrows
  <2>4. Place(r)' = PlaceIn(ToScore', r) BY DEF Place, PlaceIn, NotAbove
  <2>5. Place(r) = PlaceIn(ToScore, r) BY PlaceIs
  <2>6. offset \in Nat BY DEF ScoringInv
  <2> QED BY <1>1, <1>3, <2>3, <2>4, <2>5, <2>6
<1>4. \A r : Scorable(r)' <=> Scorable(r) BY DEF Scorable
<1> QED BY <1>3, <1>4 DEF ScoringInv, DueAhead, PassScoresAll

\* The window moves past what stays in the view, and over nothing that is owed.
LEMMA PageStep == ASSUME ScoringInv, ScorePage PROVE ScoringInv'
<1> DEFINE page == {r \in ToScore : Place(r) \in (offset + 1)..(offset + PageSize)}
           new == {r \in page : Scorable(r)}
<1>0. /\ day = "score" /\ scored' = scored \cup new
      /\ IF Cardinality(page) < PageSize THEN day' = "rest" /\ offset' = 0
         ELSE day' = day /\ offset' = Moved(page, new)
      /\ UNCHANGED <<published, seen, due>>
  BY DEF ScorePage
<1>1. ToScore \in SUBSET Nat /\ IsFiniteSet(ToScore)
  BY ViewIsFinite DEF ScoringInv, ToScore
<1>2. offset \in Nat /\ PageSize \in Nat BY OutcomeAssumption DEF ScoringInv
<1>3. page = {r \in ToScore : PlaceIn(ToScore, r) \in (offset + 1)..(offset + PageSize)}
  BY PlaceIs
<1>4. ASSUME NEW r \in ToScore PROVE Place(r) \in Nat BY <1>1, PlaceGrows, PlaceIs
<1>5. page \subseteq ToScore /\ new \subseteq page OBVIOUS
<1>6. ToScore' = ToScore \ new BY <1>0, <1>5 DEF ToScore
<1>7. \A r : Scorable(r)' <=> Scorable(r) BY <1>0 DEF Scorable
<1>8. ASSUME NEW r \in due \ scored'
      PROVE  /\ r \in ToScore \ new /\ Scorable(r)
             /\ Place(r) > offset + PageSize /\ Cardinality(page) = PageSize
             /\ \A x \in page : x <= r
  <2>1. r \in ToScore /\ Scorable(r) /\ Place(r) > offset /\ r \notin new
    BY <1>0, <1>8 DEF ScoringInv, DueAhead
  <2>2. r \notin page BY <2>1
  <2>3. Place(r) > offset + PageSize BY <1>2, <1>4, <2>1, <2>2
  <2>4. Cardinality(page) = PageSize
    BY <1>1, <1>2, <1>3, <2>1, <2>3, FullPage, PlaceIs
  <2>5. ASSUME NEW x \in page, r <= x PROVE FALSE
    <3>1. x \in ToScore /\ x \in Nat /\ r \in Nat BY <1>1, <2>1
    <3>2. PlaceIn(ToScore, r) <= PlaceIn(ToScore, x) BY <1>1, <2>5, <3>1, PlaceGrows
    <3>3. Place(r) <= Place(x) /\ Place(x) <= offset + PageSize BY <1>2, <3>2, PlaceIs
    <3> QED BY <1>2, <1>4, <2>1, <2>3, <3>1, <3>3
  <2>6. ASSUME NEW x \in page PROVE x <= r
    <3>1. x \in Nat /\ r \in Nat /\ ~ (r <= x) BY <1>1, <2>1, <2>5
    <3> QED BY <3>1
  <2> QED BY <2>1, <2>3, <2>4, <2>6
<1> HIDE DEF page, new
<1>9. CASE Cardinality(page) < PageSize
  <2>1. due \subseteq scored'
    <3> SUFFICES ASSUME NEW r \in due \ scored' PROVE FALSE OBVIOUS
    <3> QED BY <1>2, <1>8, <1>9
  <2> QED BY <1>0, <1>9, <2>1 DEF ScoringInv, PassScoresAll
<1>10. CASE ~ (Cardinality(page) < PageSize)
  <2>1. day' = "score" /\ offset' = offset + Cardinality(page) - Cardinality(new)
    BY <1>0, <1>10 DEF Moved
  <2>2. IsFiniteSet(page) /\ IsFiniteSet(new) /\ Cardinality(new) <= Cardinality(page)
        /\ Cardinality(new) \in Nat /\ Cardinality(page) \in Nat
    BY <1>1, <1>5, FS_Subset, FS_CardinalityType
  <2>3. offset' \in Nat BY <1>2, <2>1, <2>2
  <2>4. ASSUME NEW r \in due \ scored'
        PROVE  r \in ToScore' /\ Scorable(r)' /\ Place(r)' > offset'
    <3>1. /\ r \in ToScore \ new /\ Scorable(r) /\ Place(r) > offset + PageSize
          /\ Cardinality(page) = PageSize /\ \A x \in new : x <= r
      BY <1>5, <1>8
    <3>2. new \in SUBSET ToScore BY <1>5
    <3>3. /\ PlaceIn(ToScore \ new, r) = PlaceIn(ToScore, r) - Cardinality(new)
          /\ PlaceIn(ToScore, r) \in Nat
      BY <1>1, <3>1, <3>2, PlaceMoves
    <3>4. Place(r)' = PlaceIn(ToScore', r) BY DEF Place, PlaceIn, NotAbove
    <3>5. Place(r) = PlaceIn(ToScore, r) BY PlaceIs
    <3>6. Place(r)' = Place(r) - Cardinality(new) BY <1>6, <3>3, <3>4, <3>5
    <3>7. Place(r)' > offset' BY <1>2, <2>1, <2>2, <3>1, <3>3, <3>5, <3>6
    <3> QED BY <1>6, <1>7, <3>1, <3>7
  <2>5. due' = due /\ published' = published BY <1>0
  <2> QED BY <2>1, <2>3, <2>4, <2>5 DEF ScoringInv, DueAhead, PassScoresAll
<1> QED BY <1>9, <1>10

\* A pass that is not cut short scores every row that it could score when it began,
\* whatever stays in the view and whatever is published meanwhile (score_pending).
THEOREM PassAlwaysScoresAll == ScoringSpec => []PassScoresAll
<1>1. ScoringInit => ScoringInv BY DEF ScoringInit, ScoringInv, PassScoresAll
<1>2. ASSUME ScoringInv, [ScoringNext]_scoreVars PROVE ScoringInv'
  <2>1. CASE Publish
    <3>1. published' \subseteq Rows /\ published \subseteq published'
      BY <1>2, <2>1 DEF Publish, ScoringInv
    <3> QED BY <1>2, <2>1, <3>1, ViewGrows DEF Publish
  <2>2. CASE Resolve \/ UNCHANGED scoreVars
    BY <1>2, <2>2, ViewGrows DEF Resolve, scoreVars, ScoringInv
  <2>3. CASE StartDay BY <1>2, <2>3 DEF StartDay, ScoringInv, PassScoresAll
  <2>4. CASE Check BY <1>2, <2>4 DEF Check, ScoringInv, PassScoresAll
  <2>5. CASE StartScoring
    <3>1. /\ day' = "score" /\ offset' = 0 /\ due' = {r \in ToScore : Scorable(r)}
          /\ UNCHANGED <<published, scored, seen>>
      BY <2>5 DEF StartScoring
    <3>2. ToScore' = ToScore /\ \A r : Scorable(r)' <=> Scorable(r)
      BY <3>1 DEF ToScore, Scorable
    <3>3. ToScore \in SUBSET Nat /\ IsFiniteSet(ToScore)
      BY <1>2, ViewIsFinite DEF ScoringInv, ToScore
    <3>4. ASSUME NEW r \in ToScore PROVE Place(r)' > 0
      <4>1. Place(r)' = PlaceIn(ToScore, r) BY <3>2 DEF Place, PlaceIn, NotAbove
      <4>2. r \in Nat /\ r <= r BY <3>3
      <4> QED BY <3>3, <4>1, <4>2, PlaceGrows
    <3> QED BY <1>2, <3>1, <3>2, <3>4 DEF ScoringInv, DueAhead, PassScoresAll
  <2>6. CASE ScorePage BY <1>2, <2>6, PageStep
  <2>7. CASE Miss
    <3>1. /\ offset' = 0 /\ UNCHANGED <<published, scored>>
          /\ \/ day = "check" /\ UNCHANGED <<day, due>>
             \/ day' = "rest" /\ due' = {}
      BY <2>7 DEF Miss
    <3> QED BY <1>2, <3>1 DEF ScoringInv, PassScoresAll
  <2> QED BY <1>2, <2>1, <2>2, <2>3, <2>4, <2>5, <2>6, <2>7 DEF ScoringNext, Daily
<1>3. ScoringInv => PassScoresAll BY DEF ScoringInv
<1> QED BY <1>1, <1>2, <1>3, PTL DEF ScoringSpec
=============================================================================
