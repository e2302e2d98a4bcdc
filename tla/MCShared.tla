------------------------------ MODULE MCShared ------------------------------
(***************************************************************************)
(* What requests and scrapes share before they are sent: the spacer of an  *)
(* endpoint, the token ledger of a question, its Firecrawl credits and the *)
(* pages it has claimed.  A behaviour exercises one of the four.           *)
(***************************************************************************)
EXTENDS FirecrawlBudget, RateGate, CostLedger, MCFetchLadder

CONSTANTS r1, r2, g1, g2

VARIABLE part

\* Two scrapes of resolution sources, two of general research.
MCScrapes == {r1, r2, g1, g2}
MCResolution == {r1, r2}

MCKind == [c \in Calls |-> CASE c \in {1, 2} -> "gated" [] c = 3 -> "tail"
                             [] c = 4 -> "thread" [] OTHER -> "research"]
MCPaid == [c \in Calls |-> c # 5]

SharedSymmetry == Permutations(MCScrapes \ MCResolution) \cup Permutations(MCResolution)
                  \cup Permutations(LoopTasks)

SharedInit == /\ Init /\ GateInit /\ LedgerInit /\ LadderInit
              /\ part \in {"credits", "gate", "ledger", "ladder"}
              /\ part # "credits" => ~exhausted
SharedNext ==
  /\ UNCHANGED part
  /\ \/ part = "credits" /\ Next /\ UNCHANGED <<gateVars, ledgerVars, ladderVars>>
     \/ part = "gate" /\ GateNext /\ UNCHANGED <<vars, ledgerVars, ladderVars>>
     \/ part = "ledger" /\ LedgerNext /\ UNCHANGED <<vars, gateVars, ladderVars>>
     \/ part = "ladder" /\ LadderNext /\ UNCHANGED <<vars, gateVars, ledgerVars>>
     \* All calls of the ledger may be over; the other parts say so themselves.
     \/ part = "ledger" /\ UNCHANGED <<vars, gateVars, ledgerVars, ladderVars>>
SharedSpec == SharedInit /\ [][SharedNext]_<<vars, gateVars, ledgerVars, ladderVars, part>>
=============================================================================
