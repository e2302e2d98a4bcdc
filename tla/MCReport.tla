------------------------------ MODULE MCReport ------------------------------
(***************************************************************************)
(* What a report is written from: the resolution pages, the measured       *)
(* series, the explorer, the selections and the query plans; the report;   *)
(* and the forecast.  A behaviour takes one of them.                       *)
(***************************************************************************)
EXTENDS MCForecast, MCSeries, ReportCompiler, ResolutionScrape, SourceExplorer, Selections, QueryPlans

VARIABLE part

\* Reports of one to four sections: one that fits, one with a long research section,
\* one whose resolution source alone is too long, one with an empty section.  A line of one or
\* two values is a claim, one of three a squashed table.
S(name, text) == [name |-> name, text |-> text]
MCReports ==
  {<<S("plan", <<{1}>>), S("research", <<{1}, {2}>>), S("research", <<{2}, {1, 3}>>)>>,
   <<S("resolution", <<{1}, {2}>>), S("research", <<{1}, {3}, {4}, {2}, {5}>>)>>,
   <<S("resolution", <<{1}, {2}, {3}, {4}, {5}>>), S("research", <<{1}, {3}, {4}>>)>>,
   <<S("plan", <<{2}>>), S("research", <<>>), S("research", <<{1}, {2}, {4}, {3}>>),
     S("research", <<{3}, {1, 4, 5}, {2}>>)>>,
   <<S("resolution", <<>>)>>}

\* Up to three sources, the criteria's kept at greater length.
MCSourceLists == {<<>>, <<"criteria">>, <<"criteria", "background">>,
                <<"criteria", "criteria", "background">>}
MCKept == [criteria |-> 7, background |-> 4]

\* Two pages that name each other, a document and a page that fails; x is elsewhere.
Web(len, links) == [ok |-> TRUE, doc |-> FALSE, len |-> len, links |-> links]
MCSite == [a |-> Web(3, <<"b", "c">>), b |-> Web(4, <<"a", "c", "d">>),
           c |-> [Web(2, <<>>) EXCEPT !.doc = TRUE], d |-> [Web(0, <<>>) EXCEPT !.ok = FALSE]]
MCRequests == {<<"a">>, <<"a", "b">>, <<"b", "c">>, <<"x", "d", "a">>}

\* Three models' plans of up to two queries; a is like b, and b like c, but not a like c.
MCQueries == {"a", "b", "c", "d"}
MCPlan == {p \in SeqOf(MCQueries, 2) : Cardinality(ToSet(p)) = Len(p)}
MCPlanSets == {<<p, q, r>> : p, q, r \in MCPlan}
MCAlike == {{"a", "b"}, {"b", "c"}}
MCSearchedSets == {{}, {"c"}}
MCSections == {s \in SeqOf([weight : {1, 3}, len : {1, 4, 9}], 3) : Len(s) > 1}

parts == <<compVars, scrapVars, seriesVars, expVars, selVars, planVars>>
Begun == <<at # "start", rs # "start", ms # "start", ex # "start", task # "start",
           plans # <<>> \/ \E c \in Callers : caller[c].st # "idle">>
Only(k) == \A j \in DOMAIN Begun : j # k => ~Begun[j]

\* The forecast has its own beginnings; beside a report it is one that needs no runs.
ReportInit == /\ CompilerInit /\ ResolutionInit /\ SeriesInit
              /\ ExplorerInit /\ SelectionsInit /\ PlansInit
              /\ \/ part = "forecast" /\ MCInit
                 \/ /\ part = "report"
                    /\ question = Empty /\ runs = <<>> /\ nodes = {}
                    /\ result = [status |-> "abstain"]
                    /\ geometry = Geo(0, 200, 11, FALSE, FALSE, TRUE)
                    /\ replies = <<>> /\ made = Unmade /\ curves = <<>> /\ stage = "idle" /\ final = Nothing
ReportNext ==
  \/ Only(1) /\ CompilerNext /\ UNCHANGED <<scrapVars, seriesVars, expVars, selVars, planVars>>
  \/ Only(2) /\ ResolutionNext /\ UNCHANGED <<compVars, seriesVars, expVars, selVars, planVars>>
  \/ Only(3) /\ SeriesNext /\ UNCHANGED <<compVars, scrapVars, expVars, selVars, planVars>>
  \/ Only(4) /\ ExplorerNext /\ UNCHANGED <<compVars, scrapVars, seriesVars, selVars, planVars>>
  \/ Only(5) /\ SelectionsNext /\ UNCHANGED <<compVars, scrapVars, seriesVars, expVars, planVars>>
  \/ Only(6) /\ PlansNext /\ UNCHANGED <<compVars, scrapVars, seriesVars, expVars, selVars>>
AnswerNext ==
  /\ UNCHANGED part
  /\ \/ part = "report" /\ ReportNext /\ UNCHANGED <<vars, cdfVars>>
     \/ part = "forecast" /\ MCNext /\ UNCHANGED parts

ReportSpec == ReportInit /\ [][AnswerNext]_<<part, parts, vars, cdfVars>>
=============================================================================
