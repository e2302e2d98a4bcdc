--------------------------- MODULE SourceExplorer ---------------------------
(***************************************************************************)
(* explore: a model browses the resolution source's own site, one action a *)
(* turn, and ends with a report or with nothing.  A text is its length; a  *)
(* page is its length, its links and whether it is read as a document.     *)
(***************************************************************************)
EXTENDS Integers, Sequences, SequencesExt, FiniteSets, Listings

CONSTANTS Site,             \* url -> [ok, doc, len, links]; what it lacks is another host
          Requests,            \* what may be asked for in one fetch: sequences of urls
          Turns,            \* MAX_TURNS
          MaxPages,         \* MAX_PAGES
          MaxLinks,         \* MAX_LINKS_PER_PAGE
          TextChars,        \* TEXT_CHARS
          MaxResult,        \* MAX_RESULT_CHARS
          MaxConversation,  \* MAX_CONVERSATION_CHARS
          Trimmed,          \* TRIMMED_RESULT_CHARS
          Notice            \* the length of a notice or of an error

ASSUME ExplorerAssumption ==
  /\ \A url \in DOMAIN Site : /\ Site[url].ok \in BOOLEAN /\ Site[url].doc \in BOOLEAN
                              /\ Site[url].len \in Nat
                              /\ Site[url].links \in Seq(ToSet(Site[url].links))
  /\ \A urls \in Requests : urls \in Seq(ToSet(urls))
  /\ Turns \in Nat \ {0} /\ MaxPages \in Nat /\ MaxLinks \in Nat /\ TextChars \in Nat
  /\ MaxResult \in Nat /\ MaxConversation \in Nat /\ Trimmed \in Nat /\ Notice \in Nat

VARIABLES
  ex,        \* start, ask; report, nothing, raised, cancelled
  turn,      \* turns answered
  messages,  \* the conversation: [role, len, cut]
  fetched,   \* the pages counted against MAX_PAGES
  texts,     \* those whose text is held
  shown      \* links_shown

expVars == <<ex, turn, messages, fetched, texts, shown>>

Lower(a, b) == IF a <= b THEN a ELSE b
Msg(role, len) == [role |-> role, len |-> len, cut |-> FALSE]

ExplorerInit ==
  /\ ex = "start" /\ turn = 0 /\ messages = <<>>
  /\ fetched = <<>> /\ texts = {} /\ shown = {}

\* No start point on the source's hosts: nothing to explore.
StartExplorer ==
  /\ ex = "start" /\ ex' \in {"ask", "nothing"}
  /\ messages' = <<Msg("system", 1), Msg("user", 1)>>
  /\ UNCHANGED <<turn, fetched, texts, shown>>

(***************************************************************************)
(* _Pages.fetch: one part of the result per url.                           *)
(***************************************************************************)
Part(len, links) == [len |-> len, links |-> links]

\* The first of a page's links that were neither shown nor fetched.
NewLinks(links, acc) ==
  LET new == Ascending({i \in DOMAIN links : links[i] \notin acc.shown \cup ToSet(acc.fetched)})
  IN {links[new[n]] : n \in 1..Lower(MaxLinks, Len(new))}

\* As if one page more were let through.
RefusedLate(acc, url) == url \notin DOMAIN Site \/ Len(acc.fetched) > MaxPages

Refused(acc, url) == url \notin DOMAIN Site \/ Len(acc.fetched) >= MaxPages

\* What one url adds: a notice (refused, unreadable, a document), or a page with its
\* new links.
Visit(acc, url) ==
  IF Refused(acc, url) THEN [acc EXCEPT !.parts = Append(@, Part(Notice, {}))]
  ELSE LET page == Site[url]
           seen == [acc EXCEPT !.fetched = Append(@, url)]
           new == NewLinks(page.links, seen)
       IN IF page.ok /\ ~page.doc
          THEN [seen EXCEPT !.parts = Append(@, Part(page.len + Cardinality(new), new)),
                            !.texts = @ \cup {url}, !.shown = @ \cup new]
          ELSE [seen EXCEPT !.parts = Append(@, Part(Notice, {})),
                            !.texts = IF page.ok THEN @ \cup {url} ELSE @]

Visited(urls) ==
  LET acc[n \in 0..Len(urls)] ==
        IF n = 0 THEN [fetched |-> fetched, texts |-> texts, shown |-> shown, parts |-> <<>>]
        ELSE LET before == acc[n - 1] IN Visit(before, urls[n])
  IN acc[Len(urls)]

Size(parts) == SumFunction([k \in DOMAIN parts |-> parts[k].len])

\* A result longer than MaxResult is cut and says so.
CutResult(len) == IF len > MaxResult THEN MaxResult + Notice ELSE len

(***************************************************************************)
(* _trim: the oldest results are cut until the conversation fits; what was *)
(* cut before is counted as if it were cut again.                          *)
(***************************************************************************)
Chars(ms) == SumFunction([k \in DOMAIN ms |-> ms[k].len])

ShortenedTo(b, i, total) ==
  LET m == b.ms[i] IN
  IF b.total <= MaxConversation \/ m.role # "user" \/ m.len <= Trimmed THEN b
  ELSE [total |-> total, ms |-> [b.ms EXCEPT ![i] = [m EXCEPT !.len = Trimmed + Notice, !.cut = TRUE]]]

\* As if a cut gave back all of a result.
ShortenWhole(b, i) == ShortenedTo(b, i, b.total - b.ms[i].len)

Shorten(b, i) == ShortenedTo(b, i, b.total - (b.ms[i].len - Trimmed))

Untrimmed(ms) == [total |-> Chars(ms), ms |-> ms]

\* As if the newest went first.
TrimNewest(ms) ==
  LET last == Len(ms) - 1
      pass[i \in 3..(last + 1)] ==
        IF i = last + 1 THEN Untrimmed(ms) ELSE LET b == pass[i + 1] IN Shorten(b, i)
  IN pass[3].ms

\* The first two messages and the last are left alone.
Trim(ms) ==
  LET pass[i \in 2..(Len(ms) - 1)] ==
        IF i = 2 THEN Untrimmed(ms) ELSE LET b == pass[i - 1] IN Shorten(b, i)
  IN pass[Len(ms) - 1].ms

\* A reply and its result; the last turn but one says that one is left.
Answer(len) ==
  /\ ex = "ask" /\ turn' = turn + 1
  /\ messages' = Trim(messages \o <<Msg("assistant", 1),
                                    Msg("user", len + (IF turn' = Turns - 1 THEN Notice ELSE 0))>>)
  /\ ex' = IF turn' = Turns THEN "nothing" ELSE "ask"

Record(acc, len) ==
  /\ fetched' = acc.fetched /\ texts' = acc.texts /\ shown' = acc.shown
  /\ Answer(len)

Fetch == \E urls \in Requests : Record(Visited(urls), CutResult(Size(Visited(urls).parts)))

\* text or source: the page is fetched first if it was not read yet, and the whole
\* answer is cut at MaxResult.
ReadText ==
  \E url \in DOMAIN Site :
    LET acc == Visited(IF url \in texts THEN <<>> ELSE <<url>>)
        prelude == CutResult(Size(acc.parts))
    IN Record(acc, IF url \notin acc.texts THEN prelude
                   ELSE Lower(prelude + Lower(Site[url].len, TextChars) + Notice, MaxResult))

\* rows, or a reply that cannot be read, names no action, or reports nothing.
Other == \E len \in {0, Notice, MaxResult} :
           Answer(len) /\ UNCHANGED <<fetched, texts, shown>>

Final == /\ ex = "ask" /\ ex' = "report" /\ turn' = turn + 1
         /\ UNCHANGED <<messages, fetched, texts, shown>>

\* The ladder fails or the time is up: nothing.  A hard limit goes on.
StopExplorer == /\ ex = "ask" /\ ex' \in {"nothing", "raised", "cancelled"}
                /\ UNCHANGED <<turn, messages, fetched, texts, shown>>

ExplorerNext == StartExplorer \/ Fetch \/ ReadText \/ Other \/ Final \/ StopExplorer
ExplorerSpec == ExplorerInit /\ [][ExplorerNext]_expVars

(***************************************************************************)
(* Properties.                                                             *)
(***************************************************************************)
ExplorerTypeOK ==
  /\ ex \in {"start", "ask", "report", "nothing", "raised", "cancelled"}
  /\ turn \in 0..Turns /\ Len(fetched) <= MaxPages
  /\ texts \subseteq ToSet(fetched)

Results == {i \in 3..(Len(messages) - 1) : messages[i].role = "user"}

\* A newer result is not cut while an older one is held whole, and the newest is
\* sent whole (_trim: "the oldest tool results").
OldestGoFirst ==
  /\ messages # <<>> => ~Last(messages).cut
  /\ \A i, j \in Results : i < j /\ messages[j].cut => messages[i].cut \/ messages[i].len <= Trimmed

\* The next turn's conversation fits, but for the notices, or nothing is left to cut.
ConversationFits ==
  LET cut == {i \in Results : messages[i].cut} IN
  \/ Chars(messages) <= MaxConversation + Notice * Cardinality(cut)
  \/ \A i \in Results : messages[i].cut \/ messages[i].len <= Trimmed

\* A conversation that grows past the context gives up its oldest results first, until it fits.
ConversationIsTrimmed == ExplorerTypeOK /\ OldestGoFirst /\ ConversationFits
=============================================================================
