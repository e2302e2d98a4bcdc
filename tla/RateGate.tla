------------------------------ MODULE RateGate ------------------------------
(***************************************************************************)
(* The request spacer of a rate-limited endpoint: RateGate, the table of   *)
(* gates behind gate_for, and note_failure (bot/llm/provider.py).          *)
(*                                                                         *)
(* A caller looks its endpoint's gate up, reserves the next slot under the *)
(* gate's lock, sleeps until the slot, and sends.  A rate-limit response   *)
(* pushes the gate's next slot back.  Callers are tasks of the event loop  *)
(* or worker threads: a task is never interrupted between its awaits, a    *)
(* thread may be interrupted anywhere outside a lock.                      *)
(***************************************************************************)
EXTENDS Integers, FiniteSets

CONSTANTS
    Callers,            \* calls of one endpoint
    LoopTasks,          \* those that run on the event loop; the others are threads
    NoGate,
    Interval,           \* 60 / requests_per_minute
    Backoffs,           \* the penalties a rate-limit response may ask for
    MaxTries,           \* bound: requests of one call
    Horizon             \* bound: the clock stops here

ASSUME CallersAssumption == LoopTasks \subseteq Callers /\ NoGate \notin Callers
ASSUME TimesAssumption ==
    /\ {Interval, MaxTries} \subseteq Nat \ {0}
    /\ Backoffs \subseteq Nat \ {0}
    /\ Horizon \in Nat

Gates == Callers        \* a gate is named after the caller that made it

VARIABLES
    now,
    table,      \* _GATES at this endpoint's name
    nextAt,     \* _next_at of each gate
    pushedTo,   \* the latest end of a penalty of each gate so far
    gate,       \* the gate each call looked up
    doing, try,
    slots       \* all slots reserved so far: [gate, by, try, at, pushedTo]

gateVars == <<now, table, nextAt, pushedTo, gate, doing, try, slots>>

Later(a, b) == IF a > b THEN a ELSE b
SlotOf(c) == CHOOSE s \in slots : s.by = c /\ s.try = try[c]

-----------------------------------------------------------------------------
GateInit ==
    /\ now = 0
    /\ table = NoGate
    /\ nextAt = [g \in Gates |-> 0]
    /\ pushedTo = [g \in Gates |-> 0]
    /\ gate = [c \in Callers |-> NoGate]
    /\ doing = [c \in Callers |-> "idle"]
    /\ try = [c \in Callers |-> 1]
    /\ slots = {}

\* gate_for: _GATES.get(endpoint.name)
LookUp(c) ==
    /\ doing[c] = "idle"
    /\ c \in LoopTasks => \A d \in LoopTasks : doing[d] # "creating"
    /\ IF table = NoGate
       THEN doing' = [doing EXCEPT ![c] = "creating"] /\ UNCHANGED gate
       ELSE /\ gate' = [gate EXCEPT ![c] = table]
            /\ doing' = [doing EXCEPT ![c] = "reserve"]
    /\ UNCHANGED <<now, table, nextAt, pushedTo, try, slots>>

\* gate_for: RateGate(...), _GATES[endpoint.name] = gate
Create(c) ==
    /\ doing[c] = "creating"
    /\ table' = c
    /\ gate' = [gate EXCEPT ![c] = c]
    /\ doing' = [doing EXCEPT ![c] = "reserve"]
    /\ UNCHANGED <<now, nextAt, pushedTo, try, slots>>

\* Mutant: sleep until the next slot, then advance it.
NextSlotMutant(g, start) == now + Interval

NextSlot(g, start) == start + Interval

\* _reserve
ReserveSlot(c) ==
    /\ doing[c] = "reserve"
    /\ LET g == gate[c]
           start == Later(now, nextAt[g])
       IN  /\ slots' = slots \cup {[gate |-> g, by |-> c, try |-> try[c], at |-> start,
                                    pushedTo |-> pushedTo[g]]}
           /\ nextAt' = [nextAt EXCEPT ![g] = NextSlot(g, start)]
    /\ doing' = [doing EXCEPT ![c] = "sleeping"]
    /\ UNCHANGED <<now, table, pushedTo, gate, try>>

\* The sleep is over, on time or late.
Send(c) ==
    /\ doing[c] = "sleeping" /\ SlotOf(c).at <= now
    /\ doing' = [doing EXCEPT ![c] = "sent"]
    /\ UNCHANGED <<now, table, nextAt, pushedTo, gate, try, slots>>

\* An answer, or an error that says nothing of the rate.
Answered(c) ==
    /\ doing[c] = "sent"
    /\ doing' = [doing EXCEPT ![c] = "done"]
    /\ UNCHANGED <<now, table, nextAt, pushedTo, gate, try, slots>>

\* Mutant: a short penalty ends a long one.
PenaliseMutant(g, seconds) ==
    /\ nextAt' = [nextAt EXCEPT ![g] = now + seconds]
    /\ pushedTo' = [pushedTo EXCEPT ![g] = Later(@, now + seconds)]

Penalise(g, seconds) ==
    /\ nextAt' = [nextAt EXCEPT ![g] = Later(@, now + seconds)]
    /\ pushedTo' = [pushedTo EXCEPT ![g] = Later(@, now + seconds)]

\* Mutant: one try too many.
TryAgainMutant(c) ==
    /\ try[c] <= MaxTries
    /\ doing' = [doing EXCEPT ![c] = "reserve"]
    /\ try' = [try EXCEPT ![c] = @ + 1]

TryAgain(c) ==
    /\ try[c] < MaxTries
    /\ doing' = [doing EXCEPT ![c] = "reserve"]
    /\ try' = [try EXCEPT ![c] = @ + 1]

\* The last try, or a caller that does not retry a spent quota.
GiveUp(c) == doing' = [doing EXCEPT ![c] = "done"] /\ UNCHANGED try

\* 429: note_failure looks the gate up anew and penalises that one.
PushedBack(c) ==
    /\ doing[c] = "sent"
    /\ \E seconds \in Backoffs : Penalise(table, seconds)
    /\ TryAgain(c) \/ GiveUp(c)
    /\ UNCHANGED <<now, table, gate, slots>>

Tick ==
    /\ now < Horizon /\ now' = now + 1
    /\ UNCHANGED <<table, nextAt, pushedTo, gate, doing, try, slots>>

Stopped ==
    /\ now = Horizon /\ \A c \in Callers : doing[c] \in {"sleeping", "done"}
    /\ UNCHANGED gateVars

GateNext ==
    \/ \E c \in Callers : \/ LookUp(c) \/ Create(c) \/ ReserveSlot(c) \/ Send(c)
                          \/ Answered(c) \/ PushedBack(c)
    \/ Tick \/ Stopped

GateSpec == GateInit /\ [][GateNext]_gateVars

-----------------------------------------------------------------------------
(* Properties.                                                             *)

SlotRecords == [gate : Gates, by : Callers, try : 1..MaxTries, at : Nat, pushedTo : Nat]

GateTypeOK ==
    /\ now \in Nat
    /\ table \in Gates \cup {NoGate}
    /\ nextAt \in [Gates -> Nat]
    /\ pushedTo \in [Gates -> Nat]
    /\ gate \in [Callers -> Gates \cup {NoGate}]
    /\ doing \in [Callers -> {"idle", "creating", "reserve", "sleeping", "sent", "done"}]
    /\ try \in [Callers -> 1..MaxTries]
    /\ slots \subseteq SlotRecords

Apart(s, t) == s.at + Interval <= t.at \/ t.at + Interval <= s.at

\* "N concurrent waiters therefore get N distinct, spaced slots": of one gate,
\* with tasks and threads mixed, retries and penalties included.
SlotsSpaced == \A s, t \in slots : s # t /\ s.gate = t.gate => Apart(s, t)

\* After a penalty nobody gets a slot of that gate before its end, whatever shorter
\* penalty or whichever reservation came in between.
PenaltyOutlastsQueue == \A s \in slots : s.pushedTo <= s.at

\* The endpoint as a whole is spaced, as it is while every caller is a task of the
\* event loop: no two of its requests, of whatever gate, have slots closer than the
\* interval.
EndpointSpaced == \A s, t \in slots : s # t => Apart(s, t)

\* A gate's slots keep their distance from each other and from every penalty.
SlotsAreRespected == GateTypeOK /\ SlotsSpaced /\ PenaltyOutlastsQueue
=============================================================================
