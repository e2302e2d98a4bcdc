--------------------------- MODULE MCFetchLadder ---------------------------
(* Small instances of FetchLadder. *)
EXTENDS FetchLadder, TLC

CONSTANTS page, quote, tab1, tab2

\* A plain page and one that an adapter reads.
PageAndQuote == {page, quote}
OwnKeys == [u \in PageAndQuote |-> u]

\* Two tabs of one sheet: the fragment that tells them apart is not in the key.
Tabs == {tab1, tab2}
SheetKey == [u \in Tabs |-> "sheet"]
FetchSymmetry == Permutations(Fetches)
=============================================================================
