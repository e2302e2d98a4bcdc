---------------------------- MODULE CostLedger ----------------------------
(***************************************************************************)
(* The token ledger: bot/llm/cost_manager.py and the four ways its callers *)
(* use it.  The run's manager (0) encloses the whole run and has no limit; *)
(* each attempt at a question enters a manager of its own.  A task or a    *)
(* thread keeps the managers that were active when it was made.            *)
(*                                                                         *)
(* Calls of a question: "gated" research asks for the reserve first;       *)
(* "research" does not; the "tail" is the compiler and the forecasters; a  *)
(* "thread" is a market provider's, which the event loop may interrupt     *)
(* between the check of the limit and the row.                             *)
(***************************************************************************)
EXTENDS Integers, FiniteSets, FiniteSetsExt

CONSTANTS Calls, Kind, Paid,    \* Kind, Paid: [Calls -> ...]; unpaid is "quota"
          LastAttempt,          \* bound: attempts at questions, one after the other
          Sizes, Outputs,       \* estimated tokens of a request, of an answer
          InputLimit, OutputLimit, ReservedTokens,
          Expected              \* _EXPECTED_CYCLE_INPUT_TOKENS: no gated call is larger

ASSUME LedgerAssumption ==
  /\ IsFiniteSet(Calls) /\ LastAttempt \in Nat
  /\ Kind \in [Calls -> {"gated", "research", "tail", "thread"}] /\ Paid \in [Calls -> BOOLEAN]
  /\ Sizes \subseteq Nat /\ Outputs \subseteq Nat /\ Expected \in Nat
  /\ {InputLimit, OutputLimit, ReservedTokens} \subseteq Nat /\ ReservedTokens <= InputLimit

VARIABLES current,   \* the attempt whose manager is entered; 0 between attempts
          last,      \* attempts begun so far
          calls,     \* [phase, managers, input] of each call
          rows       \* the rows of each manager, by call
ledgerVars == <<current, last, calls, rows>>

Managers == 0..LastAttempt
NoRow == [input |-> 0, output |-> 0, error |-> FALSE, written |-> FALSE]

\* budgeted_input_tokens, budgeted_output_tokens, over some of the calls
InputOf(m, C) == SumFunctionOnSet([c \in Calls |-> rows[m][c].input], {c \in C : Paid[c]})
OutputOf(m) == SumFunctionOnSet([c \in Calls |-> rows[m][c].output], {c \in Calls : Paid[c]})
OfKind(K) == {c \in Calls : Kind[c] \in K}

LedgerInit ==
  /\ current = 0 /\ last = 0
  /\ calls = [c \in Calls |-> [phase |-> "new", managers |-> {}, input |-> 0]]
  /\ rows = [m \in Managers |-> [c \in Calls |-> NoRow]]

Enter ==
  /\ current = 0 /\ last < LastAttempt
  /\ current' = last + 1 /\ last' = last + 1
  /\ UNCHANGED <<calls, rows>>

\* The attempt ends; tasks and threads it made may still run.
Exit ==
  /\ current # 0
  /\ current' = 0
  /\ UNCHANGED <<last, calls, rows>>

Spawn(c) ==
  /\ current # 0 /\ calls[c].phase = "new"
  /\ \E s \in Sizes : /\ Kind[c] = "gated" => s <= Expected
                      /\ calls' = [calls EXCEPT ![c] = [phase |-> "ready", input |-> s,
                                                        managers |-> {0, current}]]
  /\ UNCHANGED <<current, last, rows>>

Goes(c, p) == calls' = [calls EXCEPT ![c].phase = p]
Limited(c) == calls[c].managers \ {0}
Siblings(c) == {d \in Calls \ {c} : calls[d].managers = calls[c].managers}

\* A variant that asks only whether the research budget is already spent.
WouldBreachNow(c) == \E m \in Limited(c) : InputOf(m, Calls) > InputLimit - ReservedTokens
WouldBreachInputReserve(c) ==
  \E m \in Limited(c) : InputOf(m, Calls) + Expected > InputLimit - ReservedTokens
\* Search providers and scrape cycles of an attempt follow one another.
Gate(c) ==
  /\ Kind[c] = "gated" /\ calls[c].phase = "ready"
  /\ \A d \in Siblings(c) : Kind[d] = "gated" => calls[d].phase # "gated"
  /\ Goes(c, IF WouldBreachInputReserve(c) THEN "skipped" ELSE "gated")
  /\ UNCHANGED <<current, last, rows>>

\* A variant that compares what is spent so far.
NoRoomLeft(c) == Paid[c] /\ \E m \in Limited(c) : InputOf(m, Calls) > InputLimit
NoRoom(c) ==
  Paid[c] /\ \E m \in Limited(c) : InputOf(m, Calls) + calls[c].input > InputLimit

\* A variant that writes to the managers active now.
WriteToActive(c) ==
  rows' = [m \in Managers |->
             IF m \notin {0, current} THEN rows[m]
             ELSE [rows[m] EXCEPT ![c].input = calls[c].input, ![c].written = TRUE]]
Write(c) ==
  rows' = [m \in Managers |->
             IF m \notin calls[c].managers THEN rows[m]
             ELSE [rows[m] EXCEPT ![c].input = calls[c].input, ![c].written = TRUE]]

Start(c) ==    \* start_openrouter_call, on the event loop: no await inside
  /\ Kind[c] # "thread"
  /\ calls[c].phase = IF Kind[c] = "gated" THEN "gated" ELSE "ready"
  /\ IF NoRoom(c) THEN Goes(c, "refused") /\ UNCHANGED rows
                  ELSE Goes(c, "open") /\ Write(c)
  /\ UNCHANGED <<current, last>>
Check(c) ==
  /\ Kind[c] = "thread" /\ calls[c].phase = "ready"
  /\ Goes(c, IF NoRoom(c) THEN "refused" ELSE "checked")
  /\ UNCHANGED <<current, last, rows>>
AppendRow(c) ==
  /\ calls[c].phase = "checked"
  /\ Goes(c, "open") /\ Write(c)
  /\ UNCHANGED <<current, last>>

\* The end of a call updates its rows and then checks the managers, paid or
\* not: over the limit the caller gets HardLimitExceededError, not the answer.
Record(c, output, error) ==
  rows' = [m \in Managers |->
             IF m \notin calls[c].managers THEN rows[m]
             ELSE [rows[m] EXCEPT ![c].output = output, ![c].error = error]]
Close(c, output, error, p) ==
  /\ calls[c].phase = "open"
  /\ Record(c, output, error)
  /\ Goes(c, IF \E m \in Limited(c) : OutputOf(m)' > OutputLimit THEN "over" ELSE p)
  /\ UNCHANGED <<current, last>>
Answer(c) == \E n \in Outputs : Close(c, n, FALSE, "answered")
Fail(c) == Close(c, 0, TRUE, "failed")
\* Markets and the resolution scraper do not record a failure.
FailUnrecorded(c) ==
  /\ calls[c].phase = "open" /\ Kind[c] \in {"thread", "research"}
  /\ Goes(c, "failed")
  /\ UNCHANGED <<current, last, rows>>

LedgerNext ==
  \/ Enter \/ Exit
  \/ \E c \in Calls : \/ Spawn(c) \/ Gate(c) \/ Start(c) \/ Check(c) \/ AppendRow(c)
                      \/ Answer(c) \/ Fail(c) \/ FailUnrecorded(c)
LedgerSpec == LedgerInit /\ [][LedgerNext]_ledgerVars

-----------------------------------------------------------------------------
\* A request is in the ledger once it is sent, in the run's and in those of the
\* attempt that made it and in no other, whatever attempt is under way by then;
\* and what it cost stays there whether it is answered, fails or is refused late.
RowsFollowTheCall ==
  \A c \in Calls : \A m \in Managers :
    LET sent == calls[c].phase \in {"open", "answered", "failed", "over"}
    IN  /\ rows[m][c].written <=> sent /\ m \in calls[c].managers
        /\ rows[m][c].written => /\ rows[m][c].input = calls[c].input
                                 /\ rows[m][c] = rows[0][c]

\* The input budget of an attempt is overrun by calls from threads only, and by
\* no more than those calls.
InputOverrunBounded ==
  \A m \in Managers \ {0} :
    InputOf(m, Calls) <= InputLimit + InputOf(m, OfKind({"thread"}))

\* "budget exhaustion degrades the research, never the deliverable"
\* (cost_manager.py:457): a call of the tail is refused only when the tail itself
\* and the research that does not ask for the reserve have outgrown it.
TailHasItsReserve ==
  \A c \in OfKind({"tail"}) :
    calls[c].phase = "refused" =>
      \E m \in Limited(c) :
        calls[c].input + InputOf(m, OfKind({"tail", "research", "thread"})) > ReservedTokens

\* What the limits of the ledger are for: a bound on the input, and the tail's reserve.
LimitsHold == InputOverrunBounded /\ TailHasItsReserve
=============================================================================
