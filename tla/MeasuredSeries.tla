--------------------------- MODULE MeasuredSeries ---------------------------
(***************************************************************************)
(* The measured history of what a question resolves on: a documented API,  *)
(* else a ladder over the page (itself, its inline scripts, its frames,    *)
(* the endpoints its bundles name), the table read from the payload, and   *)
(* the statistics' rows: sorted, free of outages, and not mixed across     *)
(* entities where the reader looks for an entity column.  A page is the    *)
(* rows it holds and the pages it names.                                   *)
(***************************************************************************)
EXTENDS Integers, Sequences, SequencesExt, FiniteSets, FiniteSetsExt, Listings

CONSTANTS
  Webs,           \* the pages: url -> [ok, to, rows, inline, frames, bundles, data, html]
  Page,           \* the resolution page
  Nowhere,         \* no page: nothing found, no redirect
  MinRows,        \* MIN_SERIES_ROWS
  MaxHops,        \* MAX_REDIRECT_HOPS
  MaxFrames,      \* MAX_IFRAMES
  MaxBundles,     \* MAX_BUNDLES
  MaxCandidates,  \* MAX_CANDIDATES
  Trailing,       \* TRAILING_WINDOW
  MinTrail,       \* the least window an outage is judged against
  SampleRows,     \* the rows in which an entity column is looked for
  Payloads        \* what may be served: [format, named, rows]

\* A row is of a day and an entity.  An entity column is named when it is neither
\* numeric nor a date.  One is looked for in two of the four formats.
Measured == [at : Int, of : Int, value : Int]
Formats == {"json-rows", "json-columns", "json-pairs", "csv"}
Examined == {"json-rows", "csv"}

\* What is served: pages that name pages.
Served(w) ==
  [ok : BOOLEAN, to : (DOMAIN w) \cup {Nowhere}, rows : Nat, inline : Nat, html : BOOLEAN,
   frames : Seq(DOMAIN w), bundles : Seq(DOMAIN w), data : Seq(DOMAIN w)]
ASSUME SeriesAssumption ==
  /\ \A w \in Webs : Page \in DOMAIN w /\ \A url \in DOMAIN w : w[url] \in Served(w)
  /\ MaxHops \in Nat \ {0} /\ MinRows \in Nat \ {0} /\ SampleRows \in Nat \ {0}
  /\ MaxFrames \in Nat /\ MaxBundles \in Nat /\ MaxCandidates \in Nat
  /\ Trailing \in Nat \ {0} /\ MinTrail \in Nat \ {0} /\ MinTrail <= Trailing
  /\ \A p \in Payloads : /\ p \in [format : Formats, named : BOOLEAN, rows : Seq(Measured)]
                         /\ MinRows <= Len(p.rows)

VARIABLES
  ms,       \* start, found, payload, read, reduced; none
  web,      \* the pages as served
  found,    \* where the series was found: Nowhere, "api" or a page
  payload,  \* the payload of the series
  table,    \* the payload as parsed: [rows, panel]
  reduced   \* what is reported: [kept, panel]

seriesVars == <<ms, web, found, payload, table, reduced>>

Unread == [rows |-> <<>>, panel |-> FALSE]
Unreduced == [kept |-> <<>>, panel |-> FALSE]
SeriesInit ==
  /\ ms = "start" /\ web = <<>> /\ found = Nowhere
  /\ payload = <<>> /\ table = Unread /\ reduced = Unreduced

UpTo(s, n) == SubSeq(s, 1, IF Len(s) <= n THEN Len(s) ELSE n)

\* A redirect stub names where to go on; a chain longer than MaxHops is no page.
Landing(w, url) ==
  LET at[n \in 0..MaxHops] ==
        IF n = 0 THEN url
        ELSE LET u == at[n - 1] IN IF u # Nowhere /\ w[u].ok /\ w[u].to # Nowhere THEN w[u].to ELSE u
      last == at[MaxHops - 1]
  IN IF last # Nowhere /\ w[last].ok /\ w[last].to \in {Nowhere, last} THEN last ELSE Nowhere

Holds(w, url) == url # Nowhere /\ w[url].rows >= MinRows

\* The endpoints named by the page and its bundles; one served as a page is none.
Ranked(w, url) ==
  LET names == w[url].data \o
               FlattenSeq([i \in DOMAIN UpTo(w[url].bundles, MaxBundles) |->
                            LET b == w[url].bundles[i] IN IF w[b].ok THEN w[b].data ELSE <<>>])
  IN UpTo(names, MaxCandidates)

\* As if a candidate that fails ended the search.
EndpointOrNone(w, url) ==
  LET urls == Ranked(w, url)
      u == Landing(w, urls[1])
  IN IF urls # <<>> /\ Holds(w, u) /\ ~w[u].html THEN urls[1] ELSE Nowhere

\* The first endpoint that holds a series.
Endpoint(w, url) ==
  LET urls == Ranked(w, url)
      hits == {i \in DOMAIN urls : LET u == Landing(w, urls[i]) IN Holds(w, u) /\ ~w[u].html}
  IN IF hits = {} THEN Nowhere ELSE urls[Min(hits)]

\* One page: itself, its inline scripts, then the series of its frames, then its
\* endpoints.
Climb(w, here, framed) ==
  IF here = Nowhere THEN Nowhere
  ELSE IF Holds(w, here) \/ w[here].inline >= MinRows THEN here
  ELSE IF framed # Nowhere THEN framed ELSE Endpoint(w, here)

\* Frames are climbed one level deep.
InFrame(w, url) == Climb(w, Landing(w, url), Nowhere)

Framed(w, here) ==
  LET inner == [i \in DOMAIN UpTo(w[here].frames, MaxFrames) |-> InFrame(w, w[here].frames[i])]
      hits == {i \in DOMAIN inner : inner[i] # Nowhere}
  IN IF hits = {} THEN Nowhere ELSE inner[Min(hits)]

Discover(w) ==
  LET here == Landing(w, Page)
  IN Climb(w, here, IF here = Nowhere THEN Nowhere ELSE Framed(w, here))

\* A documented API is asked first; it gives the whole series or leaves it to the ladder.
SeekSeries ==
  /\ ms = "start"
  /\ \E w \in Webs, api \in BOOLEAN :
       /\ web' = w /\ found' = (IF api THEN "api" ELSE Discover(w))
       /\ ms' = (IF found' = Nowhere THEN "none" ELSE "found")
  /\ UNCHANGED <<payload, table, reduced>>

(***************************************************************************)
(* The table.                                                              *)
(***************************************************************************)
\* As if two entities needed six rows too.
PanelOfMany(p) ==
  LET sample == UpTo(p.rows, SampleRows)
      periods == {sample[i].at : i \in DOMAIN sample}
      groups == {sample[i].of : i \in DOMAIN sample}
  IN /\ p.format \in Examined /\ p.named
     /\ 10 * Cardinality(periods) < 9 * Len(sample)
     /\ 1 < Cardinality(groups)
     /\ Cardinality(groups) <= Len(sample) \div 3

\* A repeated period is the tell: one series cannot have two rows for a day.
IsPanel(p) ==
  LET sample == UpTo(p.rows, SampleRows)
      periods == {sample[i].at : i \in DOMAIN sample}
      groups == {sample[i].of : i \in DOMAIN sample}
  IN /\ p.format \in Examined /\ p.named
     /\ 10 * Cardinality(periods) < 9 * Len(sample)
     /\ 1 < Cardinality(groups)
     /\ Cardinality(groups) <= Max({2, Len(sample) \div 3})

\* As if the payload's order were taken for the time's.
AsServed(p) == [rows |-> p.rows, panel |-> IsPanel(p)]

\* A panel is left as it is.
SortedTable(p) ==
  LET order == Rising([i \in DOMAIN p.rows |-> p.rows[i].at])
  IN [rows |-> IF IsPanel(p) THEN p.rows ELSE [k \in 1..Len(p.rows) |-> p.rows[order[k]]],
      panel |-> IsPanel(p)]

\* What was found is reduced alike wherever it was found.
HandOn ==
  /\ ms = "found" /\ ms' = "payload" /\ web' = <<>> /\ found' = Nowhere
  /\ UNCHANGED <<payload, table, reduced>>

ReadTable ==
  /\ ms = "payload" /\ ms' = "read"
  /\ \E p \in Payloads : payload' = p /\ table' = SortedTable(p)
  /\ UNCHANGED <<web, found, reduced>>

\* Twice the median of a window.
TwiceMedian(s) ==
  LET n == Len(s)
      at(k) == s[Rising(s)[k]]
  IN IF n % 2 = 1 THEN 2 * at((n + 1) \div 2) ELSE at(n \div 2) + at(n \div 2 + 1)

Preceding(s, i) == SubSeq(s, Max({1, i - Trailing}), i - 1)

\* Below 70% of the median of the window before it.
IsOutage(s, i) ==
  LET w == Preceding(s, i)
  IN Len(w) >= MinTrail /\ TwiceMedian(w) # 0 /\ 20 * s[i] < 7 * TwiceMedian(w)

\* As if the window were of the rows kept so far.
DropAgainstKept(rows) ==
  LET kept[i \in 0..Len(rows)] ==
        IF i = 0 THEN <<>>
        ELSE LET k == kept[i - 1] seen == [j \in DOMAIN k |-> k[j].value]
             IN IF IsOutage(Append(seen, rows[i].value), Len(k) + 1) THEN k ELSE Append(k, rows[i])
  IN kept[Len(rows)]

\* The window is of the rows as served, outages and all.
DropOutages(rows) ==
  LET values == [i \in DOMAIN rows |-> rows[i].value]
      good == Ascending({i \in DOMAIN rows : ~IsOutage(values, i)})
  IN [k \in DOMAIN good |-> rows[good[k]]]


\* As if a table of several entities were one series.
ReduceRegardless == [kept |-> DropOutages(table.rows), panel |-> FALSE]

\* Of a panel only the shape is told.
Reduced ==
  IF table.panel THEN [kept |-> <<>>, panel |-> TRUE]
  ELSE [kept |-> DropOutages(table.rows), panel |-> FALSE]

ReduceSeries ==
  /\ ms = "read"
  /\ ms' = "reduced" /\ reduced' = Reduced
  /\ UNCHANGED <<web, found, payload, table>>

SeriesNext == \/ SeekSeries \/ HandOn \/ ReadTable \/ ReduceSeries
SeriesSpec == SeriesInit /\ [][SeriesNext]_seriesVars

(***************************************************************************)
(* Properties.                                                             *)
(***************************************************************************)
\* Where a page's series may be, in whichever order it is looked for.
Reach(w, url) ==
  {url} \cup {u \in {Landing(w, c) : c \in ToSet(Ranked(w, url))} : u # Nowhere /\ ~w[u].html}

\* A frame, a bundle or a candidate that fails costs the ladder nothing: a series in
\* reach is found, and nothing else is taken for one (discover_series).
SeriesInReachIsFound ==
  web # <<>> /\ found # "api" =>
    LET here == Landing(web, Page)
        frames == IF here = Nowhere THEN {}
                  ELSE {Landing(web, f) : f \in ToSet(UpTo(web[here].frames, MaxFrames))}
        places == UNION {Reach(web, u) : u \in ({here} \cup frames) \ {Nowhere}}
        inline == {u \in ({here} \cup frames) \ {Nowhere} : web[u].inline >= MinRows}
    IN found # Nowhere <=> inline # {} \/ \E u \in places : Holds(web, u)

\* What is reported as the latest value is the newest that is not an outage.
LatestIsNewest ==
  reduced.kept # <<>> =>
    \A i \in DOMAIN reduced.kept : reduced.kept[i].at <= Last(reduced.kept).at

\* Every day of a sample has rows of two entities, and there are enough rows to each.
ShowsItsEntities(sample) ==
  LET entities == {r.of : r \in ToSet(sample)}
  IN /\ \A i \in DOMAIN sample : \E j \in DOMAIN sample :
          sample[j].at = sample[i].at /\ sample[j].of # sample[i].of
     /\ Cardinality(entities) = 2 \/ 3 * Cardinality(entities) <= Len(sample)

\* Where the rows of a named entity column are examined and the first of them show
\* their entities, no statistics are computed; one entity's rows are never refused
\* ("must NOT be reduced as if it were one series", is_panel).  The reader's other
\* tables may mix entities, against that line: README, section 5.
EntitiesAreNotMixed ==
  ms = "reduced" =>
    /\ /\ payload.format \in Examined /\ payload.named
       /\ ShowsItsEntities(UpTo(payload.rows, SampleRows))
       => reduced.panel /\ reduced.kept = <<>>
    /\ reduced.panel => Cardinality({r.of : r \in ToSet(payload.rows)}) > 1

\* Rows at one level for more than half a window before row i.
Settled(i) ==
  /\ i > Trailing
  /\ \A j \in (i - Trailing \div 2 - 1)..(i - 1) : table.rows[j].value = table.rows[i].value

\* A measure that falls for good, to zero even, is not dropped for good: once the new
\* level fills more than half of the window its rows count (_drop_outages).
ShiftIsAccepted ==
  ms = "reduced" /\ ~reduced.panel =>
    \A i \in DOMAIN table.rows :
      Settled(i) /\ table.rows[i].value >= 0 => table.rows[i] \in ToSet(reduced.kept)

\* Below zero it is otherwise, since 70% of a negative median lies above it: a level that
\* has settled there is taken for an outage (series_reduce.py:454; README, section 5).
BelowZeroIsLost ==
  ms = "reduced" /\ ~reduced.panel =>
    \A i \in DOMAIN table.rows :
      /\ Settled(i) /\ table.rows[i].value < 0
      /\ \A j \in (DOMAIN table.rows) \ {i} : table.rows[j].at # table.rows[i].at
      => table.rows[i] \notin ToSet(reduced.kept)

\* The series that is reported is the one in reach, of one entity where that can be
\* seen, and up to its newest row: in that the rows of a settled level count exactly
\* when it is not below zero.
SeriesIsFaithful ==
  /\ SeriesInReachIsFound /\ LatestIsNewest /\ EntitiesAreNotMixed
  /\ ShiftIsAccepted /\ BelowZeroIsLost
=============================================================================
