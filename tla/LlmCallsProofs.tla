--------------------------- MODULE LlmCallsProofs ---------------------------
(***************************************************************************)
(* Proofs about LlmCalls, for every set of calls of every kind, and every  *)
(* number of permits, stream slots, models, rungs and tries.               *)
(*                                                                         *)
(* A step is one call's: it changes what that call holds, and the two      *)
(* counters by just that.  So nothing leaks; and if there are fewer        *)
(* compressions than stream slots, some slot is held by a call that has    *)
(* its request open, which waits for nobody.                               *)
(***************************************************************************)
EXTENDS LlmCalls, FiniteSetTheorems, TLAPS

Places == {"idle", "gate", "permit", "stream", "open", "pause", "done"}

PermitHolders == {c \in Calls : HoldsPermit(c)}
StreamHolders == {c \in Calls : HoldsStream(c)}

\* A thread never waits for a permit, another endpoint's call never for a slot.
Fits(c) ==
    /\ Kind[c] = "thread" => pc[c] # "permit"
    /\ Kind[c] = "other" => pc[c] \notin {"stream", "pause"}

Inv ==
    /\ permits \in Nat /\ streams \in Nat
    /\ pc \in [Calls -> Places]
    /\ \A c \in Calls : Fits(c)
    /\ NothingLeaks

One(b) == IF b THEN 1 ELSE 0

\* What a step of call c may do.
StepOf(c) ==
    /\ pc' \in [Calls -> Places]
    /\ \A d \in Calls : d # c => pc'[d] = pc[d]
    /\ Fits(c)'
    /\ permits' = permits + One(HoldsPermit(c)) - One(HoldsPermit(c)') /\ permits' \in Nat
    /\ streams' = streams + One(HoldsStream(c)) - One(HoldsStream(c)') /\ streams' \in Nat

-----------------------------------------------------------------------------
(* A set of holders in which only c changes, and its counter. *)
LEMMA CountStep ==
    ASSUME NEW S, NEW T, NEW c, IsFiniteSet(S),
           T \in {S, S \cup {c}, S \ {c}}
    PROVE  /\ IsFiniteSet(T) /\ Cardinality(T) \in Nat /\ Cardinality(S) \in Nat
           /\ Cardinality(T) = Cardinality(S) + One(c \in T) - One(c \in S)
<1>1. CASE T = S
  BY <1>1, FS_CardinalityType DEF One
<1>2. CASE T = S \cup {c}
  BY <1>2, FS_AddElement, FS_CardinalityType DEF One
<1>3. CASE T = S \ {c}
  BY <1>3, FS_RemoveElement, FS_CardinalityType DEF One
<1> QED BY <1>1, <1>2, <1>3

(* The holders of permits and slots are finitely many. *)
LEMMA HoldersFinite == IsFiniteSet(PermitHolders) /\ IsFiniteSet(StreamHolders)
  BY CallsAssumption, FS_Subset DEF PermitHolders, StreamHolders

(* The counters follow the holders. *)
LEMMA StepKeepsInv ==
    ASSUME Inv, NEW c \in Calls, StepOf(c)
    PROVE  Inv'
<1>1. \A d \in Calls : d # c => /\ HoldsPermit(d)' <=> HoldsPermit(d)
                                /\ HoldsStream(d)' <=> HoldsStream(d)
  BY DEF StepOf, HoldsPermit, HoldsStream, Ladder
<1>2. PermitHolders' \in {PermitHolders, PermitHolders \cup {c}, PermitHolders \ {c}}
  BY <1>1 DEF PermitHolders
<1>3. StreamHolders' \in {StreamHolders, StreamHolders \cup {c}, StreamHolders \ {c}}
  BY <1>1 DEF StreamHolders
<1>4. /\ Cardinality(PermitHolders) \in Nat /\ Cardinality(PermitHolders') \in Nat
      /\ Cardinality(PermitHolders') =
           Cardinality(PermitHolders) + One(c \in PermitHolders') - One(c \in PermitHolders)
  BY <1>2, HoldersFinite, CountStep
<1>5. /\ Cardinality(StreamHolders) \in Nat /\ Cardinality(StreamHolders') \in Nat
      /\ Cardinality(StreamHolders') =
           Cardinality(StreamHolders) + One(c \in StreamHolders') - One(c \in StreamHolders)
  BY <1>3, HoldersFinite, CountStep
<1>6. /\ One(c \in PermitHolders) = One(HoldsPermit(c))
      /\ One(c \in PermitHolders') = One(HoldsPermit(c)')
      /\ One(c \in StreamHolders) = One(HoldsStream(c))
      /\ One(c \in StreamHolders') = One(HoldsStream(c)')
  BY DEF PermitHolders, StreamHolders, One
<1>7. /\ One(HoldsPermit(c)) \in Nat /\ One(HoldsPermit(c)') \in Nat
      /\ One(HoldsStream(c)) \in Nat /\ One(HoldsStream(c)') \in Nat
  BY DEF One
<1>8. permits' + Cardinality(PermitHolders') = permits + Cardinality(PermitHolders)
  BY <1>4, <1>6, <1>7 DEF StepOf, Inv
<1>9. streams' + Cardinality(StreamHolders') = streams + Cardinality(StreamHolders)
  BY <1>5, <1>6, <1>7 DEF StepOf, Inv
<1>10. \A d \in Calls : Fits(d)'
  BY DEF Inv, StepOf, Fits
<1> QED BY <1>8, <1>9, <1>10 DEF Inv, StepOf, NothingLeaks, PermitHolders, StreamHolders

-----------------------------------------------------------------------------
(* Every action of a call is such a step. *)
LEMMA ActionsAreSteps ==
    ASSUME Inv, NEW c \in Calls, Advance(c) \/ Cancel(c)
    PROVE  StepOf(c)
<1> USE CallsAssumption DEF Inv, StepOf, Fits, HoldsPermit, HoldsStream, Ladder, One, Places, Kinds
<1>1. CASE Begin(c)
  BY <1>1 DEF Begin, Go, End, shared
<1>2. CASE RateSlot(c)
  BY <1>2 DEF RateSlot, Queue, Enter, Go, End
<1>3. CASE GetPermit(c)
  <2>1. /\ pc[c] = "permit" /\ permits > 0 /\ streams' = streams
        /\ permits' = IF pc'[c] = "done" THEN permits ELSE permits - 1
    BY <1>3 DEF GetPermit, MyTurn
  <2>2. CASE Kind[c] = "chat"
    <3>1. pc' = [pc EXCEPT ![c] = "done"] \/ pc' = [pc EXCEPT ![c] = "stream"]
      BY <1>3, <2>2 DEF GetPermit, Enter, Go, End
    <3> QED BY <2>1, <2>2, <3>1
  <2>3. CASE Kind[c] # "chat"
    <3>1. pc' = [pc EXCEPT ![c] = "open"]
      BY <1>3, <2>3 DEF GetPermit, Open, Go
    <3>2. Kind[c] # "thread" /\ pc[c] \in Places
      BY <2>1
    <3>3. Kind[c] \in {"compress", "other"}
      BY <2>3, <3>2
    <3> QED BY <2>1, <3>1, <3>3
  <2> QED BY <2>2, <2>3
<1>4. CASE OverBudget(c)
  BY <1>4 DEF OverBudget, MyTurn, End
<1>5. CASE GetStream(c)
  <2>1. /\ pc[c] = "stream" /\ streams > 0 /\ streams' = streams - 1 /\ permits' = permits
    BY <1>5 DEF GetStream
  <2>2. CASE Ladder(c)
    BY <1>5, <2>1, <2>2 DEF GetStream, Open, Go
  <2>3. CASE ~Ladder(c)
    BY <1>5, <2>1, <2>3 DEF GetStream, Queue, Go
  <2> QED BY <2>2, <2>3
<1>6. CASE Resume(c)
  BY <1>6 DEF Resume, Go, shared
<1>7. CASE LadderReply(c)
  <2>1. \/ permits' = permits /\ pc' = [pc EXCEPT ![c] = "pause"]
        \/ LeaveLadder(c) /\ pc' = [pc EXCEPT ![c] = "done"]
    BY <1>7 DEF LadderReply, RungFails, Unavailable, Rejected, Refused, LowerRung, ModelFails,
                NextModel, LadderEnds, Go, End
  <2> QED BY <1>7, <2>1 DEF LadderReply, LeaveLadder
<1>8. CASE CompressReply(c)
  <2>1. pc' = [pc EXCEPT ![c] = "done"] \/ pc' = [pc EXCEPT ![c] = "gate"]
    BY <1>8 DEF CompressReply, Compressed, CompressNextEffort, CompressNextModel, Paused, Go, End
  <2> QED BY <1>8, <2>1 DEF CompressReply
<1>9. CASE Answered(c) \/ TryAgain(c) \/ GiveUp(c)
  BY <1>9 DEF Answered, TryAgain, GiveUp, GiveBack, Go, End
<1>10. CASE Cancel(c)
  BY <1>10 DEF Cancel, StreamsLeft, End
<1> QED BY <1>1, <1>2, <1>3, <1>4, <1>5, <1>6, <1>7, <1>8, <1>9, <1>10 DEF Advance, Reply

(* It holds at the start. *)
LEMMA InitInv == Init => Inv
<1> SUFFICES ASSUME Init PROVE Inv
  OBVIOUS
<1>1. PermitHolders = {} /\ StreamHolders = {}
  BY CallsAssumption DEF Init, PermitHolders, StreamHolders, HoldsPermit, HoldsStream, Ladder
<1>2. Cardinality({}) = 0
  BY FS_EmptySet
<1>3. pc \in [Calls -> Places] /\ permits = Permits /\ streams = Streams
  BY DEF Init, Places
<1>4. Permits \in Nat /\ Streams \in Nat
  BY CountsAssumption
<1>5. \A c \in Calls : Fits(c)
  BY DEF Init, Fits
<1>6. NothingLeaks
  BY <1>1, <1>2, <1>3, <1>4 DEF NothingLeaks, PermitHolders, StreamHolders
<1> QED BY <1>3, <1>4, <1>5, <1>6 DEF Inv

(* Every step keeps it. *)
LEMMA NextInv ==
    ASSUME Inv, [Next]_vars
    PROVE  Inv'
<1>1. ASSUME NEW c \in Calls, Advance(c) \/ Cancel(c) PROVE Inv'
  BY <1>1, ActionsAreSteps, StepKeepsInv
<1>2. CASE UNCHANGED vars
  BY <1>2 DEF vars, shared, Inv, Fits, NothingLeaks, HoldsPermit, HoldsStream, Ladder
<1> QED BY <1>1, <1>2 DEF Next, Done

(* So the invariant holds always. *)
LEMMA InvHolds == Spec => []Inv
  BY InitInv, NextInv, PTL DEF Spec

-----------------------------------------------------------------------------
(* Every permit and every stream slot is held by a call that needs it, or free, however
   the calls end. *)
THEOREM NothingEverLeaks == Spec => []NothingLeaks
<1>1. Inv => NothingLeaks
  BY DEF Inv
<1> QED BY <1>1, InvHolds, PTL

(* With fewer compressions in flight than stream slots, calls never all wait for one
   another, though compressions and ladders take permits and slots in opposite orders. *)
THEOREM FewCompressionsNeverDeadlock ==
    Cardinality(Of("compress")) < Streams => (Spec => []NoCircularWait)
<1> SUFFICES ASSUME Cardinality(Of("compress")) < Streams
             PROVE  Spec => []NoCircularWait
  OBVIOUS
<1>1. ASSUME Inv PROVE NoCircularWait
  <2> SUFFICES ASSUME streams = 0, \A c \in Calls : HoldsStream(c) => pc[c] = "permit"
               PROVE  FALSE
    BY DEF NoCircularWait
  <2>1. StreamHolders \subseteq Of("compress")
    BY CallsAssumption DEF StreamHolders, HoldsStream, Of, Ladder
  <2>2. IsFiniteSet(Of("compress"))
    BY CallsAssumption, FS_Subset DEF Of
  <2>3. /\ Cardinality(StreamHolders) <= Cardinality(Of("compress"))
        /\ Cardinality(StreamHolders) \in Nat /\ Cardinality(Of("compress")) \in Nat
    BY <2>1, <2>2, HoldersFinite, FS_Subset, FS_CardinalityType
  <2>4. streams + Cardinality(StreamHolders) = Streams
    BY <1>1 DEF Inv, NothingLeaks, StreamHolders
  <2> QED BY <2>3, <2>4, CountsAssumption
<1> QED BY <1>1, InvHolds, PTL

-----------------------------------------------------------------------------
(* How many requests a try has sent, at most, when it is at model m and rung r and has
   waited w outages out on m. *)
LadderSent(m, r, w) == (m - 1) * (Rungs + 1) + r + w
CompressSent(m, r) == (m - 1) * Rungs + r

Waited(c) == IF backoff[c] THEN 0 ELSE 1

SentBound(c) ==
    /\ Ladder(c) =>
        /\ pc[c] \in {"idle", "gate", "permit"} => sent[c] = 0
        /\ pc[c] \in {"stream", "pause"} => sent[c] + 1 <= LadderSent(model[c], rung[c], Waited(c))
        /\ pc[c] = "open" => sent[c] <= LadderSent(model[c], rung[c], Waited(c))
        /\ sent[c] <= Models * (Rungs + 1)
    /\ Kind[c] = "compress" =>
        /\ pc[c] \in {"idle", "gate", "permit", "stream"}
             => sent[c] + 1 <= CompressSent(model[c], rung[c])
        /\ pc[c] = "open" => sent[c] <= CompressSent(model[c], rung[c])
        /\ pc[c] # "pause"
        /\ sent[c] <= Models * Rungs

PlaceTyped ==
    /\ model \in [Calls -> 1..Models] /\ rung \in [Calls -> 1..Rungs]
    /\ backoff \in [Calls -> BOOLEAN] /\ sent \in [Calls -> Nat]

SentInv == Inv /\ PlaceTyped /\ \A c \in Calls : SentBound(c)

(* Multiplying keeps the order. *)
LEMMA ProductGrows ==
    ASSUME NEW m \in 1..Models, NEW k \in Nat
    PROVE  /\ (m - 1) * k \in Nat /\ m * k \in Nat /\ Models * k \in Nat
           /\ (m - 1) * k + k = m * k
           /\ ((m + 1) - 1) * k = m * k
           /\ (1 - 1) * k = 0
           /\ m * k <= Models * k
<1>1. Models \in Nat /\ m \in Nat /\ 1 <= m /\ m <= Models
  BY CountsAssumption
<1>2. (m - 1) * k + k = m * k /\ (m - 1) * k >= 0
  BY <1>1
<1>3. (Models - m) * k >= 0 /\ Models * k = (Models - m) * k + m * k
  BY <1>1
<1> QED BY <1>1, <1>2, <1>3

(* The bounds grow with the rung and the model, and end at the chain's end. *)
LEMMA BoundsGrow ==
    ASSUME NEW m \in 1..Models, NEW r \in 1..Rungs, NEW w \in {0, 1}
    PROVE  /\ LadderSent(m, r, w) \in Nat /\ 1 <= LadderSent(m, r, w)
           /\ LadderSent(m, r, w) <= Models * (Rungs + 1)
           /\ LadderSent(m, r + 1, w) = LadderSent(m, r, w) + 1
           /\ LadderSent(m, r, 1) = LadderSent(m, r, 0) + 1
           /\ LadderSent(m, r, w) + 1 <= LadderSent(m + 1, 1, 0)
           /\ CompressSent(m, r) \in Nat /\ CompressSent(m, r) <= Models * Rungs
           /\ CompressSent(m, r + 1) = CompressSent(m, r) + 1
           /\ CompressSent(m, r) + 1 <= CompressSent(m + 1, 1)
           /\ Models * (Rungs + 1) \in Nat /\ Models * Rungs \in Nat
<1>1. Rungs \in Nat /\ Rungs + 1 \in Nat /\ r \in Nat /\ 1 <= r /\ r <= Rungs
  BY CountsAssumption
<1> DEFINE A == (m - 1) * (Rungs + 1)
<1> DEFINE B == m * (Rungs + 1)
<1> DEFINE C == (m - 1) * Rungs
<1> DEFINE D == m * Rungs
<1>2. /\ A \in Nat /\ B \in Nat /\ A + (Rungs + 1) = B /\ B <= Models * (Rungs + 1)
      /\ C \in Nat /\ D \in Nat /\ C + Rungs = D /\ D <= Models * Rungs
      /\ ((m + 1) - 1) * (Rungs + 1) = B /\ ((m + 1) - 1) * Rungs = D
      /\ Models * (Rungs + 1) \in Nat /\ Models * Rungs \in Nat
  BY <1>1, ProductGrows
<1>3. /\ \A k, v : LadderSent(m, k, v) = A + k + v
      /\ \A k : CompressSent(m, k) = C + k
      /\ LadderSent(m + 1, 1, 0) = B + 1 + 0 /\ CompressSent(m + 1, 1) = D + 1
  BY <1>2 DEF LadderSent, CompressSent
<1>4. PICK E \in Nat, F \in Nat : E = Models * (Rungs + 1) /\ F = Models * Rungs
  BY <1>2
<1> HIDE DEF A, B, C, D
<1> QED BY <1>1, <1>2, <1>3, <1>4

(* What a step of c leaves alone. *)
OnlyC(c) ==
    \A d \in Calls \ {c} :
        /\ pc'[d] = pc[d] /\ model'[d] = model[d] /\ rung'[d] = rung[d]
        /\ backoff'[d] = backoff[d] /\ sent'[d] = sent[d]

(* A call that starts, waits, or opens a request. *)
LEMMA AskingSent ==
    ASSUME SentInv, NEW c \in Calls,
           \/ Begin(c) \/ RateSlot(c) \/ GetPermit(c) \/ OverBudget(c)
           \/ GetStream(c) \/ Resume(c)
    PROVE  PlaceTyped' /\ OnlyC(c) /\ SentBound(c)'
<1>1. /\ model[c] \in 1..Models /\ rung[c] \in 1..Rungs /\ backoff[c] \in BOOLEAN
      /\ sent[c] \in Nat /\ pc[c] \in Places /\ pc \in [Calls -> Places]
      /\ PlaceTyped /\ SentBound(c) /\ Kind[c] \in Kinds
  BY CallsAssumption DEF SentInv, Inv, PlaceTyped
<1>2. /\ Waited(c) \in {0, 1} /\ 1 \in 1..Models /\ 1 \in 1..Rungs
  BY CountsAssumption DEF Waited
<1>3. /\ 1 <= LadderSent(model[c], rung[c], Waited(c))
      /\ LadderSent(model[c], rung[c], Waited(c)) <= Models * (Rungs + 1)
      /\ CompressSent(model[c], rung[c]) <= Models * Rungs
      /\ LadderSent(model[c], rung[c], Waited(c)) \in Nat
      /\ CompressSent(model[c], rung[c]) \in Nat
      /\ Models * (Rungs + 1) \in Nat /\ Models * Rungs \in Nat
      /\ 1 <= LadderSent(1, 1, 0)
  BY <1>1, <1>2, BoundsGrow
<1>4. Kind[c] = "compress" => ~Ladder(c)
  BY DEF Ladder
<1>5. /\ LadderSent(model[c], rung[c], Waited(c))' = LadderSent(model'[c], rung'[c], Waited(c)')
      /\ CompressSent(model[c], rung[c])' = CompressSent(model'[c], rung'[c])
  BY DEF LadderSent, CompressSent
<1>6. CASE Begin(c) \/ OverBudget(c) \/ Resume(c)
  <2>1. UNCHANGED <<model, rung, backoff, sent>>
    BY <1>6 DEF Begin, OverBudget, Resume, place
  <2>2. \/ pc' = [pc EXCEPT ![c] = "done"]
        \/ pc[c] = "idle" /\ pc' = [pc EXCEPT ![c] = "gate"]
        \/ pc[c] = "pause" /\ pc' = [pc EXCEPT ![c] = "stream"]
    BY <1>6 DEF Begin, OverBudget, Resume, Go, End
  <2> QED BY <1>1, <1>4, <2>1, <2>2 DEF PlaceTyped, OnlyC, SentBound, Waited
<1>7. CASE RateSlot(c)
  <2>1. /\ pc[c] = "gate" /\ sent' = sent
        /\ model' = [model EXCEPT ![c] = IF Ladder(c) THEN 1 ELSE model[c]]
        /\ rung' = [rung EXCEPT ![c] = IF Ladder(c) THEN 1 ELSE rung[c]]
        /\ backoff' = [backoff EXCEPT ![c] = TRUE]
    BY <1>7 DEF RateSlot
  <2>2. \E to \in {"permit", "stream", "done"} :
           /\ pc' = [pc EXCEPT ![c] = to]
           /\ Kind[c] = "compress" => to = "stream"
    BY <1>7 DEF RateSlot, Queue, Enter, Go, End
  <2>3. PlaceTyped' /\ OnlyC(c)
    BY <1>1, <1>2, <2>1, <2>2 DEF PlaceTyped, OnlyC
  <2>4. CASE Ladder(c)
    <3>1. /\ model'[c] = 1 /\ rung'[c] = 1 /\ Waited(c)' = 0 /\ sent'[c] = 0
          /\ pc'[c] \in {"permit", "stream", "done"} /\ Kind[c] # "compress"
      BY <1>1, <1>4, <2>1, <2>2, <2>4 DEF PlaceTyped, SentBound, Waited
    <3> QED BY <1>3, <1>4, <1>5, <2>3, <3>1 DEF SentBound
  <2>5. CASE ~Ladder(c)
    <3>1. /\ model'[c] = model[c] /\ rung'[c] = rung[c] /\ sent'[c] = sent[c]
          /\ Kind[c] = "compress" => pc'[c] = "stream"
      BY <1>1, <2>1, <2>2, <2>5 DEF PlaceTyped
    <3> QED BY <1>1, <1>5, <2>1, <2>3, <2>5, <3>1 DEF SentBound, Ladder
  <2> QED BY <2>3, <2>4, <2>5
<1>8. ASSUME \/ GetPermit(c) \/ GetStream(c)
      PROVE  /\ UNCHANGED <<model, rung, backoff>>
             /\ \/ /\ sent' = sent
                   /\ \/ pc' = [pc EXCEPT ![c] = "done"] /\ Kind[c] # "compress"
                      \/ pc[c] = "permit" /\ pc' = [pc EXCEPT ![c] = "stream"] /\ Kind[c] = "chat"
                      \/ pc[c] = "stream" /\ pc' = [pc EXCEPT ![c] = "permit"] /\ ~Ladder(c)
                \/ /\ sent' = [sent EXCEPT ![c] = sent[c] + 1]
                   /\ pc' = [pc EXCEPT ![c] = "open"]
                   /\ \/ pc[c] = "permit" /\ Kind[c] # "chat"
                      \/ pc[c] = "stream" /\ Ladder(c)
  BY <1>8 DEF GetPermit, GetStream, MyTurn, Enter, Open, Queue, Go, End, place
<1>9. CASE GetPermit(c) \/ GetStream(c)
  <2>1. PlaceTyped' /\ OnlyC(c)
    BY <1>1, <1>8, <1>9 DEF PlaceTyped, OnlyC
  <2>2. UNCHANGED <<model, rung, backoff>> /\ Waited(c)' = Waited(c)
    BY <1>8, <1>9 DEF Waited
  <2>3. CASE sent' = [sent EXCEPT ![c] = sent[c] + 1]
    <3>1. /\ sent'[c] = sent[c] + 1 /\ pc'[c] = "open"
          /\ pc[c] = "permit" => Kind[c] # "thread" /\ Kind[c] # "chat"
          /\ pc[c] \in {"permit", "stream"}
      BY <1>1, <1>8, <1>9, <2>3 DEF PlaceTyped, SentInv, Inv, Fits
    <3>2. Kind[c] = "compress" => sent[c] + 1 <= CompressSent(model[c], rung[c])
      BY <1>1, <3>1 DEF SentBound
    <3>3. Ladder(c) => sent[c] + 1 <= LadderSent(model[c], rung[c], Waited(c))
      BY <1>1, <3>1 DEF SentBound, Ladder
    <3> QED BY <1>1, <1>3, <1>5, <2>1, <2>2, <3>1, <3>2, <3>3 DEF SentBound
  <2>4. CASE sent' = sent
    <3>1. /\ sent'[c] = sent[c]
          /\ \/ pc'[c] = "done" /\ Kind[c] # "compress"
             \/ pc[c] = "permit" /\ pc'[c] = "stream" /\ Kind[c] = "chat"
             \/ pc[c] = "stream" /\ pc'[c] = "permit" /\ ~Ladder(c)
      BY <1>1, <1>8, <1>9, <2>4 DEF PlaceTyped
    <3> QED BY <1>1, <1>3, <1>5, <2>1, <2>2, <3>1 DEF SentBound, Ladder
  <2> QED BY <1>8, <1>9, <2>1, <2>3, <2>4
<1> QED BY <1>6, <1>7, <1>9

(* A call whose request came back, or that is cancelled. *)
LEMMA RepliedSent ==
    ASSUME SentInv, NEW c \in Calls, Reply(c) \/ Cancel(c)
    PROVE  PlaceTyped' /\ OnlyC(c) /\ SentBound(c)'
<1>1. /\ model[c] \in 1..Models /\ rung[c] \in 1..Rungs /\ backoff[c] \in BOOLEAN
      /\ sent[c] \in Nat /\ pc \in [Calls -> Places]
      /\ PlaceTyped /\ SentBound(c)
  BY DEF SentInv, Inv, PlaceTyped
<1>2. Waited(c) \in {0, 1} /\ Models \in Nat /\ Rungs \in Nat /\ 1 \in 1..Rungs
  BY CountsAssumption DEF Waited
<1>3. /\ LadderSent(model[c], rung[c], Waited(c)) \in Nat
      /\ LadderSent(model[c], rung[c] + 1, Waited(c)) = LadderSent(model[c], rung[c], Waited(c)) + 1
      /\ LadderSent(model[c], rung[c], 1) = LadderSent(model[c], rung[c], 0) + 1
      /\ LadderSent(model[c], rung[c], Waited(c)) + 1 <= LadderSent(model[c] + 1, 1, 0)
      /\ CompressSent(model[c], rung[c] + 1) = CompressSent(model[c], rung[c]) + 1
      /\ CompressSent(model[c], rung[c]) + 1 <= CompressSent(model[c] + 1, 1)
      /\ CompressSent(model[c], rung[c]) \in Nat
  BY <1>1, <1>2, BoundsGrow
<1>4. /\ LadderSent(model[c], rung[c], Waited(c))' = LadderSent(model'[c], rung'[c], Waited(c)')
      /\ CompressSent(model[c], rung[c])' = CompressSent(model'[c], rung'[c])
  BY DEF LadderSent, CompressSent
<1>5. ASSUME pc' = [pc EXCEPT ![c] = "done"], UNCHANGED <<place, sent>>
      PROVE  PlaceTyped' /\ OnlyC(c) /\ SentBound(c)'
  BY <1>1, <1>5 DEF place, PlaceTyped, OnlyC, SentBound, Ladder
<1>6. ASSUME pc[c] = "open",
             model[c] < Models, model' = [model EXCEPT ![c] = model[c] + 1],
             rung' = [rung EXCEPT ![c] = 1]
      PROVE  /\ model' \in [Calls -> 1..Models] /\ rung' \in [Calls -> 1..Rungs]
             /\ model'[c] = model[c] + 1 /\ rung'[c] = 1
  BY <1>1, <1>2, <1>6 DEF PlaceTyped
<1>7. ASSUME pc[c] = "open", rung[c] < Rungs, rung' = [rung EXCEPT ![c] = rung[c] + 1]
      PROVE  rung' \in [Calls -> 1..Rungs] /\ rung'[c] = rung[c] + 1
  BY <1>1, <1>2, <1>7 DEF PlaceTyped
<1>8. CASE LadderReply(c)
  <2>1. /\ pc[c] = "open" /\ Ladder(c) /\ Kind[c] # "compress" /\ sent' = sent
        /\ sent[c] <= LadderSent(model[c], rung[c], Waited(c))
        /\ sent[c] <= Models * (Rungs + 1)
    BY <1>1, <1>8 DEF LadderReply, SentBound, Ladder
  <2>2. CASE LadderEnds(c)
    BY <1>5, <2>1, <2>2 DEF LadderEnds, End
  <2>3. CASE model[c] < Models /\ NextModel(c)
    <3>1. /\ pc' = [pc EXCEPT ![c] = "pause"] /\ backoff' = [backoff EXCEPT ![c] = TRUE]
          /\ model' \in [Calls -> 1..Models] /\ rung' \in [Calls -> 1..Rungs]
          /\ model' = [model EXCEPT ![c] = model[c] + 1] /\ rung' = [rung EXCEPT ![c] = 1]
          /\ model'[c] = model[c] + 1 /\ rung'[c] = 1
      BY <1>6, <2>1, <2>3 DEF NextModel, Go
    <3>2. PlaceTyped' /\ OnlyC(c)
      BY <1>1, <2>1, <3>1 DEF PlaceTyped, OnlyC
    <3>3. Waited(c)' = 0 /\ pc'[c] = "pause"
      BY <1>1, <3>1 DEF Waited, PlaceTyped
    <3>4. sent[c] + 1 <= LadderSent(model'[c], rung'[c], Waited(c)')
      BY <1>1, <1>3, <2>1, <3>1, <3>3, BoundsGrow
    <3> QED BY <1>4, <2>1, <3>2, <3>3, <3>4 DEF SentBound, Ladder
  <2>4. CASE rung[c] < Rungs /\ LowerRung(c)
    <3>1. /\ pc' = [pc EXCEPT ![c] = "pause"] /\ UNCHANGED <<model, backoff>>
          /\ rung' = [rung EXCEPT ![c] = rung[c] + 1]
          /\ rung' \in [Calls -> 1..Rungs] /\ rung'[c] = rung[c] + 1
      BY <1>7, <2>1, <2>4 DEF LowerRung, Go
    <3>2. PlaceTyped' /\ OnlyC(c)
      BY <1>1, <2>1, <3>1 DEF PlaceTyped, OnlyC
    <3>3. Waited(c)' = Waited(c) /\ pc'[c] = "pause" /\ model'[c] = model[c]
      BY <1>1, <3>1 DEF Waited
    <3>4. sent[c] + 1 <= LadderSent(model'[c], rung'[c], Waited(c)')
      BY <1>1, <1>3, <2>1, <3>1, <3>3
    <3> QED BY <1>4, <2>1, <3>2, <3>3, <3>4 DEF SentBound, Ladder
  <2>5. CASE /\ backoff[c] /\ backoff' = [backoff EXCEPT ![c] = FALSE]
             /\ Go(c, "pause") /\ UNCHANGED <<model, rung>>
    <3>1. pc' = [pc EXCEPT ![c] = "pause"] /\ pc'[c] = "pause"
      BY <1>1, <2>5 DEF Go
    <3>2. PlaceTyped' /\ OnlyC(c)
      BY <1>1, <2>1, <2>5, <3>1 DEF PlaceTyped, OnlyC
    <3>3. Waited(c) = 0 /\ Waited(c)' = 1 /\ model'[c] = model[c] /\ rung'[c] = rung[c]
      BY <1>1, <2>5 DEF Waited, PlaceTyped
    <3>4. sent[c] + 1 <= LadderSent(model'[c], rung'[c], Waited(c)')
      BY <1>1, <1>3, <2>1, <3>3
    <3> QED BY <1>4, <2>1, <3>1, <3>2, <3>3, <3>4 DEF SentBound, Ladder
  <2> QED BY <1>8, <2>2, <2>3, <2>4, <2>5
          DEF LadderReply, RungFails, Unavailable, Rejected, Refused, ModelFails
<1>9. CASE CompressReply(c)
  <2>1. /\ pc[c] = "open" /\ ~Ladder(c) /\ Kind[c] = "compress" /\ sent' = sent
        /\ sent[c] <= CompressSent(model[c], rung[c])
        /\ sent[c] <= Models * Rungs
    BY <1>1, <1>9 DEF CompressReply, SentBound, Ladder
  <2>2. CASE \E how : End(c, how) /\ UNCHANGED place
    BY <1>5, <2>1, <2>2 DEF End
  <2>3. CASE /\ model[c] < Models /\ model' = [model EXCEPT ![c] = model[c] + 1]
             /\ rung' = [rung EXCEPT ![c] = 1] /\ Go(c, "gate") /\ UNCHANGED backoff
    <3>1. /\ pc' = [pc EXCEPT ![c] = "gate"] /\ pc'[c] = "gate"
          /\ model' \in [Calls -> 1..Models] /\ rung' \in [Calls -> 1..Rungs]
          /\ model'[c] = model[c] + 1 /\ rung'[c] = 1
      BY <1>1, <1>6, <2>1, <2>3 DEF Go
    <3>2. PlaceTyped' /\ OnlyC(c)
      BY <1>1, <2>1, <2>3, <3>1 DEF PlaceTyped, OnlyC
    <3>3. sent[c] + 1 <= CompressSent(model'[c], rung'[c])
      BY <1>1, <1>3, <2>1, <3>1, BoundsGrow
    <3> QED BY <1>4, <2>1, <3>1, <3>2, <3>3 DEF SentBound, Ladder
  <2>4. CASE /\ rung[c] < Rungs /\ rung' = [rung EXCEPT ![c] = rung[c] + 1]
             /\ Go(c, "gate") /\ UNCHANGED <<model, backoff>>
    <3>1. /\ pc' = [pc EXCEPT ![c] = "gate"] /\ pc'[c] = "gate"
          /\ rung' \in [Calls -> 1..Rungs] /\ rung'[c] = rung[c] + 1
      BY <1>1, <1>7, <2>1, <2>4 DEF Go
    <3>2. PlaceTyped' /\ OnlyC(c)
      BY <1>1, <2>1, <2>4, <3>1 DEF PlaceTyped, OnlyC
    <3>3. sent[c] + 1 <= CompressSent(model'[c], rung'[c])
      BY <1>1, <1>3, <2>1, <2>4, <3>1
    <3> QED BY <1>4, <2>1, <3>1, <3>2, <3>3 DEF SentBound, Ladder
  <2> QED BY <1>9, <2>2, <2>3, <2>4
          DEF CompressReply, Compressed, CompressNextEffort, CompressNextModel, Paused
<1>10. CASE Answered(c) \/ GiveUp(c) \/ Cancel(c)
  BY <1>5, <1>10 DEF Answered, GiveUp, Cancel, End
<1>11. CASE TryAgain(c)
  <2>1. /\ pc' = [pc EXCEPT ![c] = "gate"] /\ sent' = [sent EXCEPT ![c] = 0]
        /\ UNCHANGED <<model, rung, backoff>> /\ Kind[c] # "compress"
    BY <1>11 DEF TryAgain, Go, place
  <2>2. PlaceTyped' /\ OnlyC(c)
    BY <1>1, <2>1 DEF PlaceTyped, OnlyC
  <2>3. pc'[c] = "gate" /\ sent'[c] = 0
    BY <1>1, <2>1 DEF PlaceTyped
  <2>4. 0 <= Models * (Rungs + 1)
    BY <1>1, <1>2, BoundsGrow
  <2> QED BY <2>1, <2>2, <2>3, <2>4 DEF SentBound, Ladder
<1> QED BY <1>8, <1>9, <1>10, <1>11 DEF Reply

\* Whatever the endpoint answers, one try sends each model's rungs once and one
\* more request per model after an outage; a compression none more.
THEOREM RequestsAlwaysBounded == Spec => []RequestsBounded
<1>1. Init => SentInv
  <2> SUFFICES ASSUME Init, Inv PROVE SentInv
    BY InitInv
  <2>1. 1 \in 1..Models /\ 1 \in 1..Rungs
    BY CountsAssumption
  <2>2. /\ CompressSent(1, 1) = 1 /\ 1 <= Models * Rungs /\ 0 <= Models * (Rungs + 1)
        /\ 0 <= Models * Rungs
    <3>1. CompressSent(1, 1) = (1 - 1) * Rungs + 1 /\ (1 - 1) * Rungs = 0
      BY <2>1, CountsAssumption, ProductGrows DEF CompressSent
    <3>2. CompressSent(1, 1) = 1
      BY <3>1
    <3> QED BY <2>1, <3>2, BoundsGrow
  <2>3. PlaceTyped
    BY <2>1 DEF Init, PlaceTyped
  <2>4. \A c \in Calls : SentBound(c)
    BY <2>2 DEF Init, SentBound
  <2> QED BY <2>3, <2>4 DEF SentInv
<1>2. SentInv /\ [Next]_vars => SentInv'
  <2> SUFFICES ASSUME SentInv, [Next]_vars PROVE SentInv'
    OBVIOUS
  <2>1. Inv'
    BY NextInv DEF SentInv
  <2>2. ASSUME NEW c \in Calls, Advance(c) \/ Cancel(c) PROVE SentInv'
    <3>1. PlaceTyped' /\ OnlyC(c) /\ SentBound(c)'
      BY <2>2, AskingSent, RepliedSent DEF Advance
    <3>2. \A d \in Calls \ {c} : SentBound(d)'
      BY <3>1 DEF SentInv, SentBound, OnlyC, Waited, LadderSent, CompressSent, Ladder
    <3> QED BY <2>1, <3>1, <3>2 DEF SentInv
  <2>3. CASE UNCHANGED vars
    BY <2>1, <2>3 DEF vars, shared, place, SentInv, PlaceTyped, SentBound, Waited,
                      LadderSent, CompressSent, Ladder
  <2> QED BY <2>2, <2>3 DEF Next, Done
<1>3. SentInv => RequestsBounded
  BY DEF SentInv, SentBound, RequestsBounded
<1> QED BY <1>1, <1>2, <1>3, PTL DEF Spec

-----------------------------------------------------------------------------
(* The ladders of a question that are past the check of its tally. *)
InFlight(q) ==
    {c \in Calls : Ladder(c) /\ Question[c] = q /\ pc[c] \in {"stream", "open", "pause"}}

OutageInv ==
    /\ Inv
    /\ marks \in [Questions -> Nat]
    /\ \A q \in Questions : marks[q] > 0 =>
          marks[q] + Cardinality(InFlight(q)) <= Permits + Cardinality(Of("thread"))

(* They hold permits, or are threads. *)
LEMMA FewInFlight ==
    ASSUME Inv, NEW q
    PROVE  /\ IsFiniteSet(InFlight(q)) /\ Cardinality(InFlight(q)) \in Nat
           /\ Cardinality(Of("thread")) \in Nat
           /\ Cardinality(InFlight(q)) <= Permits + Cardinality(Of("thread"))
<1>1. InFlight(q) \subseteq PermitHolders \cup Of("thread")
  BY DEF InFlight, PermitHolders, HoldsPermit, Of, Ladder
<1>2. IsFiniteSet(Of("thread")) /\ IsFiniteSet(PermitHolders)
  BY CallsAssumption, HoldersFinite, FS_Subset DEF Of
<1>3. /\ IsFiniteSet(PermitHolders \cup Of("thread"))
      /\ Cardinality(PermitHolders \cup Of("thread")) =
           Cardinality(PermitHolders) + Cardinality(Of("thread"))
             - Cardinality(PermitHolders \cap Of("thread"))
      /\ Cardinality(PermitHolders \cap Of("thread")) \in Nat
      /\ Cardinality(PermitHolders) \in Nat /\ Cardinality(Of("thread")) \in Nat
  BY <1>2, FS_Union, FS_Intersection, FS_CardinalityType
<1>4. /\ IsFiniteSet(InFlight(q)) /\ Cardinality(InFlight(q)) \in Nat
      /\ Cardinality(InFlight(q)) <= Cardinality(PermitHolders \cup Of("thread"))
  BY <1>1, <1>3, FS_Subset, FS_CardinalityType
<1>5. permits \in Nat /\ permits + Cardinality(PermitHolders) = Permits /\ Permits \in Nat
  BY CountsAssumption DEF Inv, NothingLeaks, PermitHolders
<1> QED BY <1>3, <1>4, <1>5

(* A step lets no ladder of a marked question in, and a mark takes its ladder out. *)
LEMMA MarkStep ==
    ASSUME OutageInv, NEW c \in Calls, Advance(c) \/ Cancel(c)
    PROVE  \/ /\ marks' = marks
              /\ \A q \in Questions : marks[q] > 0 => InFlight(q)' \subseteq InFlight(q)
           \/ /\ Question[c] \in Questions /\ c \in InFlight(Question[c])
              /\ marks' = [marks EXCEPT ![Question[c]] = marks[Question[c]] + 1]
              /\ \A q \in Questions : InFlight(q)' = InFlight(q) \ {c}
<1>1. pc \in [Calls -> Places] /\ marks \in [Questions -> Nat] /\ Question[c] \in Questions
  BY CallsAssumption DEF OutageInv, Inv
<1>2. ASSUME NEW to, pc' = [pc EXCEPT ![c] = to], marks' = marks,
             Ladder(c) /\ to \in {"stream", "open", "pause"}
               => pc[c] \in {"stream", "open", "pause"} \/ ~Down(Question[c])
      PROVE  marks' = marks /\ \A q \in Questions : marks[q] > 0 => InFlight(q)' \subseteq InFlight(q)
  BY <1>1, <1>2 DEF InFlight, Down, Ladder
<1>3. CASE Begin(c) \/ OverBudget(c) \/ Cancel(c)
  <2>1. \E to \in {"gate", "done"} : pc' = [pc EXCEPT ![c] = to] /\ marks' = marks
    BY <1>3 DEF Begin, OverBudget, Cancel, Go, End
  <2> QED BY <1>2, <2>1
<1>4. CASE RateSlot(c) \/ GetPermit(c)
  <2>1. \E to \in {"permit", "stream", "open", "done"} :
           /\ pc' = [pc EXCEPT ![c] = to] /\ marks' = marks
           /\ to = "stream" => ~Ladder(c) \/ ~Down(Question[c])
           /\ to = "open" => Kind[c] # "chat" /\ pc[c] = "permit"
    BY <1>4 DEF RateSlot, GetPermit, MyTurn, Queue, Enter, Open, Go, End, Ladder
  <2>2. pc[c] = "permit" => Kind[c] # "thread"
    BY DEF OutageInv, Inv, Fits
  <2> QED BY <1>2, <2>1, <2>2 DEF Ladder
<1>5. CASE GetStream(c) \/ Resume(c)
  <2>1. \E to : /\ pc' = [pc EXCEPT ![c] = to] /\ marks' = marks
                /\ pc[c] \in {"stream", "pause"}
    BY <1>5 DEF GetStream, Resume, Queue, Open, Go
  <2> QED BY <1>2, <2>1
<1>6. CASE LadderReply(c)
  <2>1. pc[c] = "open" /\ Ladder(c)
    BY <1>6 DEF LadderReply
  <2>2. \/ marks' = marks /\ \E to : pc' = [pc EXCEPT ![c] = to]
        \/ /\ pc' = [pc EXCEPT ![c] = "done"]
           /\ marks' = [marks EXCEPT ![Question[c]] = marks[Question[c]] + 1]
    <3>1. CASE RungFails(c) \/ Rejected(c) \/ Refused(c)
      BY <3>1 DEF RungFails, Rejected, Refused, LowerRung, ModelFails, NextModel, LadderEnds, Go, End
    <3>2. CASE Unavailable(c)
      <4>1. CASE backoff[c]
        BY <3>2, <4>1 DEF Unavailable, Go
      <4>2. CASE ~backoff[c] /\ model[c] = Models
        <5>1. ~(model[c] < Models)
          BY <4>2, CountsAssumption
        <5> QED BY <3>2, <4>2, <5>1 DEF Unavailable, ModelFails, LadderEnds, End
      <4>3. CASE ~backoff[c] /\ model[c] # Models
        <5>1. marks' = marks
          BY <1>1, <3>2, <4>3 DEF Unavailable
        <5> QED BY <3>2, <4>3, <5>1 DEF Unavailable, ModelFails, NextModel, LadderEnds, Go, End
      <4> QED BY <4>1, <4>2, <4>3
    <3> QED BY <1>6, <3>1, <3>2 DEF LadderReply
  <2>3. CASE marks' = marks
    BY <1>2, <2>1, <2>2, <2>3
  <2>4. CASE marks' # marks
    <3>1. pc' = [pc EXCEPT ![c] = "done"]
      BY <2>2, <2>4
    <3>2. c \in InFlight(Question[c]) /\ \A q \in Questions : InFlight(q)' = InFlight(q) \ {c}
      BY <1>1, <2>1, <3>1 DEF InFlight, Ladder
    <3> QED BY <1>1, <2>2, <2>4, <3>2
  <2> QED BY <2>3, <2>4
<1>7. CASE CompressReply(c)
  <2>1. \E to : pc' = [pc EXCEPT ![c] = to] /\ marks' = marks /\ ~Ladder(c)
    BY <1>7 DEF CompressReply, Compressed, CompressNextEffort, CompressNextModel, Paused, Go, End,
                Ladder
  <2> QED BY <1>2, <2>1
<1>8. CASE Answered(c) \/ TryAgain(c) \/ GiveUp(c)
  <2>1. \E to : pc' = [pc EXCEPT ![c] = to] /\ marks' = marks /\ pc[c] = "open"
    BY <1>8 DEF Answered, TryAgain, GiveUp, Go, End
  <2> QED BY <1>2, <2>1
<1> QED BY <1>3, <1>4, <1>5, <1>6, <1>7, <1>8 DEF Advance, Reply

\* After a question's first ladder met an outage to its end, only the ladders then
\* in flight can meet it too: no more than there are permits, and the threads.
THEOREM OutageMetOnce == Spec => []OutageIsMetOnce
<1>1. Init => OutageInv
  BY InitInv DEF Init, OutageInv
<1>2. OutageInv /\ [Next]_vars => OutageInv'
  <2> SUFFICES ASSUME OutageInv, [Next]_vars PROVE OutageInv'
    OBVIOUS
  <2>1. Inv /\ Inv' /\ marks \in [Questions -> Nat]
    BY NextInv DEF OutageInv
  <2>2. Permits \in Nat
    BY CountsAssumption
  <2>3. CASE UNCHANGED vars
    BY <2>1, <2>3 DEF vars, OutageInv, InFlight, Ladder
  <2>4. ASSUME NEW c \in Calls, Advance(c) \/ Cancel(c) PROVE OutageInv'
    <3>1. CASE /\ marks' = marks
               /\ \A q \in Questions : marks[q] > 0 => InFlight(q)' \subseteq InFlight(q)
      <4>1. ASSUME NEW q \in Questions, marks[q] > 0
            PROVE  /\ Cardinality(InFlight(q)') <= Cardinality(InFlight(q))
                   /\ Cardinality(InFlight(q)') \in Nat
        BY <2>1, <3>1, <4>1, FewInFlight, FS_Subset, FS_CardinalityType
      <4> QED BY <2>1, <2>2, <3>1, <4>1, FewInFlight DEF OutageInv
    <3>2. CASE /\ Question[c] \in Questions /\ c \in InFlight(Question[c])
               /\ marks' = [marks EXCEPT ![Question[c]] = marks[Question[c]] + 1]
               /\ \A q \in Questions : InFlight(q)' = InFlight(q) \ {c}
      <4>1. marks' \in [Questions -> Nat]
        BY <2>1, <3>2
      <4>2. ASSUME NEW q \in Questions, marks'[q] > 0
            PROVE  marks'[q] + Cardinality(InFlight(q)') <= Permits + Cardinality(Of("thread"))
        <5>1. /\ IsFiniteSet(InFlight(q)) /\ Cardinality(InFlight(q)) \in Nat
              /\ Cardinality(Of("thread")) \in Nat
              /\ Cardinality(InFlight(q)) <= Permits + Cardinality(Of("thread"))
          BY <2>1, FewInFlight
        <5>2. InFlight(q)' = InFlight(q) \ {c}
          BY <3>2
        <5>3. Cardinality(InFlight(q) \ {c}) =
                IF c \in InFlight(q) THEN Cardinality(InFlight(q)) - 1 ELSE Cardinality(InFlight(q))
          BY <5>1, FS_RemoveElement
        <5>4. CASE q = Question[c]
          <6>1. /\ marks'[q] = marks[q] + 1 /\ marks[q] \in Nat
                /\ Cardinality(InFlight(q)') = Cardinality(InFlight(q)) - 1
            BY <2>1, <3>2, <5>2, <5>3, <5>4
          <6>2. marks[q] > 0 =>
                  marks[q] + Cardinality(InFlight(q)) <= Permits + Cardinality(Of("thread"))
            BY DEF OutageInv
          <6> QED BY <2>2, <5>1, <6>1, <6>2
        <5>5. CASE q # Question[c]
          <6>1. c \notin InFlight(q) /\ marks'[q] = marks[q]
            BY <2>1, <3>2, <5>5 DEF InFlight
          <6>2. Cardinality(InFlight(q)') = Cardinality(InFlight(q))
            BY <5>2, <5>3, <6>1
          <6> QED BY <4>2, <6>1, <6>2 DEF OutageInv
        <5> QED BY <5>4, <5>5
      <4> QED BY <2>1, <4>1, <4>2 DEF OutageInv, Of
    <3> QED BY <2>4, <3>1, <3>2, MarkStep
  <2> QED BY <2>3, <2>4 DEF Next, Done
<1>3. OutageInv => OutageIsMetOnce
  <2> SUFFICES ASSUME OutageInv, NEW q \in Questions
               PROVE  marks[q] <= Permits + Cardinality(Of("thread"))
    BY DEF OutageIsMetOnce
  <2>1. marks[q] \in Nat /\ Inv
    BY DEF OutageInv
  <2>2. Cardinality(InFlight(q)) \in Nat /\ Cardinality(Of("thread")) \in Nat /\ Permits \in Nat
    BY <2>1, FewInFlight, CountsAssumption
  <2>3. marks[q] > 0 =>
          marks[q] + Cardinality(InFlight(q)) <= Permits + Cardinality(Of("thread"))
    BY DEF OutageInv
  <2> QED BY <2>1, <2>2, <2>3
<1> QED BY <1>1, <1>2, <1>3, PTL DEF Spec
=============================================================================
