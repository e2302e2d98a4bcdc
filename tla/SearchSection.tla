---------------------------- MODULE SearchSection ----------------------------
(***************************************************************************)
(* What the research pipeline relies on when it hands an engine's results  *)
(* to research_from_hits: the results are listed, then pages are read,     *)
(* and the work ends, once, in one of three ways.                          *)
(***************************************************************************)
CONSTANT Pages
VARIABLES stage, read

Outcome == {"text", "poor", "limit"}

Init == stage = "asked" /\ read = {}

List == stage = "asked" /\ stage' = "listed" /\ UNCHANGED read

ReadPages ==
  /\ stage = "listed"
  /\ \E new \in (SUBSET (Pages \ read)) \ {{}} : read' = read \cup new
  /\ UNCHANGED stage

End ==
  /\ stage = "listed"
  /\ stage' \in Outcome
  /\ UNCHANGED read

Next == List \/ ReadPages \/ End
Safety == Init /\ [][Next]_<<stage, read>>
Spec == Safety /\ WF_<<stage, read>>(ReadPages \/ End)
=============================================================================
