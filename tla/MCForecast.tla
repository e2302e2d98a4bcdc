----------------------------- MODULE MCForecast -----------------------------
(***************************************************************************)
(* The ensemble of a question and, for the numeric questions, the curves   *)
(* its kept replies become.  A behaviour exercises one of the two: either  *)
(* a question with runs, or given replies beside a question with none.     *)
(***************************************************************************)
EXTENDS ForecastEnsemble, NumericCdf

Empty == [kind |-> "numeric", raw |-> FALSE, n |-> 0]
MCPool == <<"opus", "gpt">>
MCQuestions == {Empty} \cup
  {[kind |-> k, raw |-> b, n |-> n] : k \in {"binary", "mc"}, b \in BOOLEAN, n \in {1, 3}} \cup
  {[kind |-> "numeric", raw |-> n = 2, n |-> n] : n \in {1, 2}}
Share(m, s) == [model |-> m, share |-> s]
MCSpecs == { << >>,
             <<Share("opus", 50)>>,
             <<Share("opus", 60), Share("gpt", 50)>>,
             <<Share("opus", 20), Share("gpt", 30), Share("gpt", 0)>> }
MCNumbers == {0, 20, 45}
MCOptionNumbers == { <<7>>, <<9, 30, 70>>, <<0, 100>>, <<50, -50>> }
Rendering(d, s, a, p, fa, fp, b) ==
  [declared |-> d, scaled |-> s, gap |-> [inferred |-> a, plain |-> p],
   flat |-> [inferred |-> fa, plain |-> fp], backed |-> b]
MCRenderings ==
  { Rendering(TRUE, FALSE, "within", "within", FALSE, FALSE, FALSE),
    Rendering(FALSE, TRUE, "beyond", "fails", TRUE, FALSE, FALSE),
    Rendering(TRUE, FALSE, "beyond", "beyond", FALSE, FALSE, FALSE),
    Rendering(TRUE, TRUE, "beyond", "within", FALSE, TRUE, FALSE),
    Rendering(TRUE, TRUE, "beyond", "within", TRUE, TRUE, TRUE),
    Rendering(TRUE, TRUE, "fails", "within", FALSE, FALSE, FALSE) }

Geo(lo, hi, n, ol, oh, pmf) ==
  [lo |-> lo, hi |-> hi, size |-> n, openLo |-> ol, openHi |-> oh, pmf |-> pmf]
MCGeometries == { Geo(100, 300, 5, TRUE, TRUE, FALSE), Geo(100, 300, 5, FALSE, TRUE, FALSE),
                  Geo(0, 200, 11, FALSE, FALSE, TRUE) }
Comp(f, c, s, w) == [family |-> f, center |-> c, spread |-> s, weight |-> w]
Lim(a, b) == [min |-> a, max |-> b]
Mix(cs, s, d, w) ==
  [kind |-> "mixture", components |-> cs, support |-> s, declared |-> d, weight |-> w]
Pmf(v, p, s, d, w) ==
  [kind |-> "pmf", values |-> v, probs |-> p, support |-> s, declared |-> d, weight |-> w]
ComponentLists ==
  { <<Comp("normal", 150, 60, 4)>>, <<Comp("normal", 15, 6, 2), Comp("beta", 25, 4, 1)>>,
    <<Comp("normal", 290, 1, 300), Comp("normal", 284, 9, 300), Comp("normal", 110, 20, 1)>>,
    <<Comp("beta", 120, 20, 3), Comp("normal", 200, 30, 2), Comp("normal", 260, 0, 9),
      Comp("normal", 280, 5, 4)>>,
    <<Comp("normal", 2500, 300, 1), Comp("normal", 1800, 100, 1)>>,
    <<Comp("cauchy", 100, 10, 1)>>, <<Comp("normal", 900, 20, 1)>> }
Declared == {Nothing, <<0, 100, 0>>, <<0, 0, 100>>}
Mixes == {Mix(c, s, d, 1) : c \in ComponentLists, s \in {Nothing, Lim(120, 260)}, d \in Declared}
Pmfs == { Pmf(<<20, 60, 100, 140, 180>>, <<20, 20, 20, 20, 20>>, Nothing, Nothing, 2),
          Pmf(<<80, 100, 120>>, <<1, 2, 1>>, Lim(90, 200), Nothing, 2),
          Pmf([k \in 1..10 |-> 20 * k], [k \in 1..10 |-> 1], Nothing, <<0, 100, 0>>, 2),
          Pmf(<<40, 160>>, <<1, 3>>, Nothing, Nothing, 1) }
MCReplySets ==
  {<<a>> : a \in Mixes \cup Pmfs} \cup {<<a, b>> : a \in Pmfs, b \in Pmfs}
    \cup {<<a, b>> : a \in Mixes, b \in {m \in Mixes : m.support = Nothing
                                                       /\ m.declared = Nothing}}

MCInit == \/ /\ Init
             /\ geometry \in {g \in MCGeometries : g.size = 11}
             /\ replies = << >> /\ made = Unmade /\ curves = << >> /\ stage = "idle" /\ final = Nothing
          \/ /\ CdfInit
             /\ question = Empty /\ runs = << >> /\ nodes = {} /\ result = Pending
MCNext == \/ Next /\ UNCHANGED cdfVars
          \/ CdfNext /\ UNCHANGED vars
=============================================================================
