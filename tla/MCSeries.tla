------------------------------ MODULE MCSeries ------------------------------
(***************************************************************************)
(* A page that may redirect (for good, or in circles), with two frames,    *)
(* two bundles and three endpoints, each of which may fail or hold the     *)
(* series; one frame more than the ladder climbs.                          *)
(***************************************************************************)
EXTENDS MeasuredSeries

EmptyPage == [ok |-> TRUE, to |-> Nowhere, rows |-> 0, inline |-> 0, frames |-> <<>>,
          bundles |-> <<>>, data |-> <<>>, html |-> FALSE]
\* p the page, q where it redirects to, f, g and h its frames, b its bundle, d and e
\* endpoints.
MCWebs ==
  {[u \in {"p", "q", "f", "g", "h", "b", "d", "e"} |->
     CASE u = "p" -> [EmptyPage EXCEPT !.to = go]
       [] u = "q" -> [EmptyPage EXCEPT !.to = back, !.inline = script, !.frames = <<"f", "g", "h">>,
                                   !.bundles = <<"b">>, !.data = <<"d">>]
       [] u = "f" -> [EmptyPage EXCEPT !.ok = fails]
       [] u = "g" -> [EmptyPage EXCEPT !.data = <<"d">>]
       [] u = "b" -> [EmptyPage EXCEPT !.ok = ~fails, !.data = <<"e">>]
       [] OTHER -> [EmptyPage EXCEPT !.rows = IF u \in full THEN 3 ELSE 2, !.html = (u = html)]] :
     go \in {Nowhere, "q"}, back \in {Nowhere, "p", "q"}, script \in {0, 3},
     fails \in BOOLEAN, full \in SUBSET {"h", "d", "e"}, html \in {"d", "e", Nowhere}}

\* Seven rows of one entity, oldest or newest first, that fall or rise between two levels
\* (to zero, and below zero): every mixture of shifts and outages.
OneEntity ==
  {[format |-> "csv", named |-> TRUE,
    rows |-> [i \in 1..7 |-> [at |-> IF newestFirst THEN 8 - i ELSE i, of |-> 0, value |-> v[i]]]] :
     newestFirst \in BOOLEAN,
     v \in UNION {[1..7 -> levels] : levels \in {{1, 4}, {0, 4}, {-4, -1}}}}

\* Two to four entities of two, three or nine days, day by day or entity by entity, in every
\* format: in the sample of nine rows there are all of them or but one.
Entities ==
  {[format |-> format, named |-> named,
    rows |-> [i \in 1..(n * days) |->
               IF byDay THEN [at |-> (i - 1) \div n, of |-> i % n, value |-> 1]
               ELSE [at |-> i % days, of |-> (i - 1) \div days, value |-> 1]]] :
     format \in Formats, named \in BOOLEAN, n \in 2..4, days \in {2, 3, 9}, byDay \in BOOLEAN}

MCPayloads == OneEntity \cup Entities
=============================================================================
