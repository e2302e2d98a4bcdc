----------------------------- MODULE NumericCdf -----------------------------
(***************************************************************************)
(* From the replies of the numeric runs to the curve that is submitted:    *)
(* bot/forecasters/numeric.py.  A reply holds components (a centre, a      *)
(* spread, a weight) or a list of values with their masses; it is brought  *)
(* into the question's units, guarded, cut at its support, evaluated on    *)
(* the question's grid, held against what the run declared, repaired,      *)
(* averaged and standardised.  A component's density is a block of twice   *)
(* its spread: the shape of a family is left out, its place is not.        *)
(* Masses are integers, Percent standing for a hundredth, Unit for 1.      *)
(***************************************************************************)
EXTENDS Integers, Sequences, FiniteSets, SequencesExt, Listings

CONSTANTS Geometries,     \* [lo, hi, size, openLo, openHi, pmf]
          ReplySets,      \* the replies of a question's usable runs, with weights
          Nothing,        \* no support, no declaration, no curve
          MaxComponents,  \* MAX_COMPONENTS
          InboundDefault, \* DEFAULT_INBOUND_OUTCOME_COUNT
          Percent,        \* bound: the parts that a hundredth of the mass is told in
          MaxSlip         \* bound: the powers of ten a unit may be off by

VARIABLES geometry, replies,
          made,           \* what is computed on the way, kept: see the stages
          curves, stage, final
cdfVars == <<geometry, replies, made, curves, stage, final>>

Unit == 100 * Percent
AtLeast(x, floor) == IF x < floor THEN floor ELSE x
AtMost(x, most) == IF x > most THEN most ELSE x
Bound(x, lo, hi) == AtLeast(AtMost(x, hi), lo)
Abs(x) == IF x < 0 THEN -x ELSE x
Between(x, lo, hi) == lo <= x /\ x <= hi
Masses(c) == [k \in DOMAIN c |-> IF k = 1 THEN c[1] ELSE c[k] - c[k - 1]]
Chosen(list, S) == [i \in 1..Cardinality(S) |-> list[Ascending(S)[i]]]

Rng(g) == g.hi - g.lo
Cell(g) == Rng(g) \div (g.size - 1)
Grid(g) == [k \in 1..g.size |-> g.lo + (Rng(g) * (k - 1)) \div (g.size - 1)]   \* nominal_grid

\* What a question and a usable reply are: a run's weight is a share of the ensemble, and
\* a list of values has as many probabilities, some of them positive.
Geometry == [lo : Int, hi : Int, size : Nat \ {0, 1}, openLo : BOOLEAN, openHi : BOOLEAN,
             pmf : BOOLEAN]
Limits == [min : Int, max : Int]
Component == [family : STRING, center : Int, spread : Int, weight : Int]
Splits == [1..3 -> Nat]                      \* percent below, in and above the band
Mixture == [kind : {"mixture"}, components : Seq(Component), support : Limits \cup {Nothing},
            declared : Splits \cup {Nothing}, weight : Nat \ {0}]
Listed == [kind : {"pmf"}, values : Seq(Int), probs : Seq(Nat), support : Limits \cup {Nothing},
           declared : Splits \cup {Nothing}, weight : Nat \ {0}]
Usable(r) == r.kind = "pmf" => Len(r.values) = Len(r.probs) /\ SumFunction(r.probs) > 0

\* The smallest step a curve may have is at least one part, and Nothing is no curve.
CdfAssumption ==
  /\ Percent \in Nat \ {0} /\ MaxSlip \in Nat /\ MaxComponents \in Nat \ {0}
  /\ InboundDefault \in Nat /\ InboundDefault >= 6
  /\ \A g \in Geometries : g \in Geometry /\ g.lo < g.hi /\ g.size - 1 <= Unit
                            /\ Nothing \notin [1..g.size -> Int]
  /\ \A rs \in ReplySets : rs \in Seq(Mixture \cup Listed) /\ \A k \in DOMAIN rs : Usable(rs[k])
ASSUME CdfAssumption

-----------------------------------------------------------------------------
(* Units.                                                                  *)

Median2(s) == LET o == Rising(s)           \* twice the median
                  n == Len(s)
              IN  IF n % 2 = 1 THEN 2 * s[o[(n + 1) \div 2]]
                  ELSE s[o[n \div 2]] + s[o[n \div 2 + 1]]

InWindow(g, x) == Between(x, g.lo - Rng(g), g.hi + Rng(g))

\* A factor 10^e as [up, down], one of them 1.
TenTo[e \in 0..MaxSlip] == IF e = 0 THEN 1 ELSE 10 * TenTo[e - 1]
Exponents == (-MaxSlip)..MaxSlip
Factor(e) == [up |-> IF e > 0 THEN TenTo[e] ELSE 1, down |-> IF e < 0 THEN TenTo[-e] ELSE 1]
One == Factor(0)
Scaled(x, f) == (x * f.up) \div f.down

\* |log10(grid / centre) - e| <= 0.15
SnapsTo(grid, centre, e) ==
  LET f == Factor(e) IN Between(100 * grid * f.down, 71 * centre * f.up, 141 * centre * f.up)

\* A variant that trusts the ratio of the medians alone.
DetectScaleByRatio(centers, g) ==
  LET abs  == [k \in DOMAIN centers |-> Abs(centers[k])]
      gabs == [k \in 1..g.size |-> Abs(Grid(g)[k])]
      hits == {n \in Exponents : SnapsTo(Median2(gabs), Median2(abs), n)}
  IN  IF hits = {} THEN One ELSE Factor(CHOOSE n \in hits : TRUE)
DetectScale(centers, g) ==
  LET finite == Chosen(centers, {k \in DOMAIN centers : centers[k] # 0})
      abs    == [k \in DOMAIN finite |-> Abs(finite[k])]
      gabs   == [k \in 1..g.size |-> Abs(Grid(g)[k])]
      hits   == {n \in Exponents : SnapsTo(Median2(gabs), Median2(abs), n)}
      e      == CHOOSE n \in hits : TRUE
  IN  IF /\ finite # << >>
         /\ \A k \in DOMAIN finite : ~InWindow(g, finite[k])
         /\ \/ \A k \in DOMAIN finite : finite[k] < g.lo
            \/ \A k \in DOMAIN finite : finite[k] > g.hi
         /\ hits \ {0} # {}
         /\ \A k \in DOMAIN finite : InWindow(g, Scaled(finite[k], Factor(e)))
      THEN Factor(e) ELSE One

Rescale(comps, f) ==
  [k \in DOMAIN comps |-> [comps[k] EXCEPT !.center = Scaled(@, f), !.spread = Scaled(@, f)]]

-----------------------------------------------------------------------------
(* The guardrails of build_mixture_spec_from_components.                   *)

Families == {"normal", "beta"}          \* beta stands for those with no width floor
ValidComponent(c) == c.family \in Families /\ c.spread > 0 /\ c.weight >= 0
Clean(comps) == Chosen(comps, {k \in DOMAIN comps : ValidComponent(comps[k])})
TotalWeight(cs) == SumFunction([k \in DOMAIN cs |-> cs[k].weight])

Nearest(cs, c) ==
  Min({k \in DOMAIN cs : \A j \in DOMAIN cs : Abs(cs[k].center - c.center)
                                                <= Abs(cs[j].center - c.center)})
FoldInto(cs, c) == [cs EXCEPT ![Nearest(cs, c)].weight = @ + c.weight]

Heaviest(cs) == Min({k \in DOMAIN cs : \A j \in DOMAIN cs : cs[k].weight >= cs[j].weight})
Lightest(cs) == Min({k \in DOMAIN cs : \A j \in DOMAIN cs : cs[k].weight <= cs[j].weight})

\* Below COMPONENT_WEIGHT_FLOOR a component's weight goes to its neighbour ...
FoldNegligible(cs) ==
  LET heavy == {k \in DOMAIN cs : 200 * cs[k].weight >= TotalWeight(cs)}
      keep  == IF heavy = {} THEN {Heaviest(cs)} ELSE heavy
      kept  == Chosen(cs, keep)
      given(i) == {k \in DOMAIN cs \ keep : Nearest(kept, cs[k]) = i}
  IN  [i \in DOMAIN kept |->
         [kept[i] EXCEPT !.weight = @ + SumFunction([k \in given(i) |-> cs[k].weight])]]
\* ... and so does the lightest one's, while there are too many.
Others(cs) == Chosen(cs, DOMAIN cs \ {Lightest(cs)})
FoldOne(cs) ==
  IF Len(cs) <= MaxComponents THEN cs ELSE FoldInto(Others(cs), cs[Lightest(cs)])
\* A variant that deletes the lightest components instead.
DropLightest(cs) ==
  LET left[i \in 0..Len(cs)] ==
        IF i = 0 THEN cs
        ELSE IF Len(left[i - 1]) <= MaxComponents THEN left[i - 1] ELSE Others(left[i - 1])
  IN  left[Len(cs)]
FoldLightest(cs) ==
  LET left[i \in 0..Len(cs)] == IF i = 0 THEN cs ELSE FoldOne(left[i - 1])
  IN  left[Len(cs)]

MinScale(g) == AtMost(AtLeast((3 * Cell(g)) \div 2, (3 * Rng(g)) \div 1000), Rng(g) \div 50)
WidthFloor(c, g) ==
  IF c.family = "normal" THEN [c EXCEPT !.spread = AtLeast(@, MinScale(g))] ELSE c

MergeTwo(a, b) ==
  LET w == a.weight + b.weight
      avg(x, y) == (x * a.weight + y * b.weight) \div w
  IN  [a EXCEPT !.center = avg(@, b.center), !.spread = avg(@, b.spread), !.weight = w]
Near(done, c, g) == {k \in DOMAIN done : /\ done[k].family = c.family
                                         /\ 20 * Abs(done[k].center - c.center) <= Rng(g)}
MergeIn(done, c, g) ==
  IF Near(done, c, g) = {} THEN Append(done, c)
  ELSE [done EXCEPT ![Min(Near(done, c, g))] = MergeTwo(@, c)]
\* By family and centre; the sort is stable.
Earlier(cs) ==
  LET less(a, b) == \/ a.family = "beta" /\ b.family = "normal"
                    \/ a.family = b.family /\ a.center < b.center
  IN  {p \in (DOMAIN cs) \X (DOMAIN cs) :
         \/ less(cs[p[1]], cs[p[2]])
         \/ ~less(cs[p[2]], cs[p[1]]) /\ p[1] < p[2]}
MergeNear(cs, g) ==
  LET order == Ordered(DOMAIN cs, Earlier(cs))
      merged[i \in 0..Len(cs)] ==
        IF i = 0 THEN << >> ELSE MergeIn(merged[i - 1], cs[order[i]], g)
  IN  merged[Len(cs)]

Fallback(g) == <<[family |-> "normal", center |-> g.lo + Rng(g) \div 2,
                  spread |-> AtLeast(Rng(g) \div 4, 1), weight |-> 1]>>
\* No component, or none with a weight (build_distribution refuses those): the fallback.
BuildMixture(comps, g) ==
  LET kept == FoldLightest(FoldNegligible(Clean(comps)))
  IN  IF TotalWeight(Clean(comps)) = 0 THEN Fallback(g)
      ELSE MergeNear([k \in DOMAIN kept |-> WidthFloor(kept[k], g)], g)

-----------------------------------------------------------------------------
(* Curves.                                                                 *)

BlockCdf(c, x) == (Unit * Bound(x - (c.center - c.spread), 0, 2 * c.spread)) \div (2 * c.spread)
MixtureCdf(cs, x) ==
  SumFunction([k \in DOMAIN cs |-> cs[k].weight * BlockCdf(cs[k], x)]) \div TotalWeight(cs)
MassUpTo(r, x) == SumFunctionOnSet(r.probs, {k \in DOMAIN r.probs : r.values[k] <= x})
PmfCdf(r, x) == (Unit * MassUpTo(r, x)) \div SumFunction(r.probs)

\* Truncated: the share outside the support is cut, the rest rescaled.
Cut(cs, s, x) ==
  LET lo == MixtureCdf(cs, s.min)
  IN  IF x < s.min THEN 0 ELSE IF x >= s.max THEN Unit
      ELSE (Unit * (MixtureCdf(cs, x) - lo)) \div (MixtureCdf(cs, s.max) - lo)
\* _attach_support: half of the run's own mass must lie inside.
SupportHolds(cs, s) ==
  s # Nothing /\ 2 * (MixtureCdf(cs, s.max) - MixtureCdf(cs, s.min)) >= Unit

\* The probabilities of the values within the support.
PmfKept(r) ==
  [k \in DOMAIN r.probs |-> IF Between(r.values[k], r.support.min, r.support.max)
                            THEN r.probs[k] ELSE 0]
CutPmf(r) ==
  IF r.support = Nothing THEN r
  ELSE IF 2 * SumFunction(PmfKept(r)) >= SumFunction(r.probs)
       THEN [r EXCEPT !.probs = PmfKept(r)] ELSE r

ScaleOf(r, g) == DetectScale([k \in DOMAIN r.components |-> r.components[k].center], g)
ScaleSupport(s, f) == IF s = Nothing THEN s ELSE [min |-> Scaled(s.min, f), max |-> Scaled(s.max, f)]

\* numeric_response_to_raw_cdf: of a list of values, and of the components cs that
\* were built, with the support s.
PmfCurve(r, g) == [k \in 1..g.size |-> PmfCdf(CutPmf(r), Grid(g)[k])]
MixtureCurve(cs, s, g) ==
  IF SupportHolds(cs, s) THEN [k \in 1..g.size |-> Cut(cs, s, Grid(g)[k])]
  ELSE [k \in 1..g.size |-> MixtureCdf(cs, Grid(g)[k])]

-----------------------------------------------------------------------------
(* The witness: what the run declared lies below, in and above the band.   *)

Rendered(c) == <<c[1], c[Len(c)] - c[1], Unit - c[Len(c)]>>
Contradicts(c, d) ==
  d # Nothing /\ \E b \in 1..3 : Abs(Rendered(c)[b] - Percent * d[b]) > 20 * Percent
Low(c) == c[Len(c)] < 2 * Percent
High(c) == c[1] > Unit - 2 * Percent
Flat(c) == c[Len(c)] - c[1] < 2 * Percent /\ (High(c) \/ Low(c))
OffGrid(c, d) == Flat(c) /\ (d = Nothing \/ (IF High(c) THEN d[1] ELSE d[3]) <= 90)

\* The curve a run contributes, of the one drawn under the factor f and the one
\* without it, or Nothing when the run is dropped.
Accepted(r, f, drawn) ==
  LET used == IF ~Contradicts(drawn.scaled, r.declared) THEN drawn.scaled
              ELSE IF f # One /\ ~Contradicts(drawn.plain, r.declared) THEN drawn.plain
              ELSE Nothing
  IN  IF used = Nothing THEN Nothing ELSE IF OffGrid(used, r.declared) THEN Nothing ELSE used

-----------------------------------------------------------------------------
(* repair_coarse_pmf_run_cdfs: index space is doubled, bin k is [2k-1,2k+1]. *)

Occupied(m) == {k \in 2..Len(m) : m[k] > 0}
\* Occupied bins that follow each other, and how many of them are d apart.
Neighbours(O) == {p \in O \X O : p[1] < p[2] /\ ~ \E k \in O : p[1] < k /\ k < p[2]}
Apart(O, d) == Cardinality({p \in Neighbours(O) : p[2] - p[1] = d})
UniformCoarse(O) ==
  LET all == Cardinality(Neighbours(O))
  IN  all >= 4 /\ \E p \in Neighbours(O) : /\ p[2] - p[1] >= 2
                                           /\ 5 * Apart(O, p[2] - p[1]) >= 4 * all

\* A variant that asks no other run.
FillsAlone(all, r, O, p) ==
  LET skipped == p[2] - p[1] - 1 IN skipped > 0 /\ (UniformCoarse(O) \/ skipped <= 3)

\* May the gap between two such bins of run r be filled?
Fills(all, r, O, p) ==
  LET skipped == p[2] - p[1] - 1
  IN  /\ skipped > 0
      /\ UniformCoarse(O) \/ skipped <= 3
      /\ \A k \in (p[1] + 1)..(p[2] - 1) :
           Cardinality(DOMAIN all) = 1 \/ \E q \in DOMAIN all \ {r} : Masses(all[q])[k] > 0
Filled(all, r) ==
  LET O == Occupied(Masses(all[r])) IN {p \in Neighbours(O) : Fills(all, r, O, p)}

\* The cell of an occupied bin, out to the middle of the gaps that are filled, and how
\* much of it lies in or below bin k.
LeftEnd(filled, j) ==
  IF \E p \in filled : p[2] = j THEN (CHOOSE p \in filled : p[2] = j)[1] + j ELSE 2 * j - 1
RightEnd(filled, j) ==
  IF \E p \in filled : p[1] = j THEN j + (CHOOSE p \in filled : p[1] = j)[2] ELSE 2 * j + 1
Covered(k, left, right) == Bound(2 * k + 1 - left, 0, right - left)
SpreadMass(filled, m, j, k) ==
  LET left  == LeftEnd(filled, j)
      right == RightEnd(filled, j)
  IN  (m[j] * Covered(k, left, right)) \div (right - left)
RepairCoarse(all, r) ==
  LET m == Masses(all[r])
      filled == Filled(all, r)
  IN  IF replies[r].kind # "pmf" \/ filled = {} THEN all[r]
      ELSE [k \in DOMAIN m |->
              m[1] + SumFunction([j \in Occupied(m) |-> SpreadMass(filled, m, j, k)])]

-----------------------------------------------------------------------------
(* Averaging and standardising.                                            *)

Kept == {r \in DOMAIN curves : curves[r] # Nothing}
WeightSum == SumFunction([r \in Kept |-> replies[r].weight])
Average(x) == SumFunction([r \in Kept |-> replies[r].weight * x[r]]) \div WeightSum

Shaped == {r \in Kept : curves[r][Len(curves[r])] > curves[r][1]}
\* The levels are quarters of a bin; where run r's in-grid shape first reaches one.
Levels4(g) == 0..4 * g.size
Position(r, l) ==
  LET c == curves[r] n == Len(c)
  IN  IF l = 0 THEN Max({k \in 1..n : c[k] = c[1]})
      ELSE Min({k \in 1..n : 4 * n * (c[k] - c[1]) >= l * (c[n] - c[1])})
\* A variant that inverts the whole curve: tail mass lands on the edge cells.
QuantileAverageClamped(g) ==
  LET n == g.size
      w == SumFunction([r \in Kept |-> replies[r].weight])
      pos == [l \in Levels4(g) |-> SumFunction([r \in Kept |-> replies[r].weight *
                Min({n} \cup {k \in 1..n : 4 * n * curves[r][k] >= l * Unit})])]
      level(k) == IF k = n THEN 4 * n ELSE Max({0} \cup {l \in Levels4(g) : pos[l] <= k * w})
  IN  [k \in 1..n |-> (Unit * level(k)) \div (4 * n)]
QuantileAverage(g) ==
  LET n   == g.size
      low == Average([r \in Kept |-> curves[r][1]])
      top == Average([r \in Kept |-> Unit - curves[r][n]])
      w   == SumFunction([r \in Shaped |-> replies[r].weight])
      pos == [l \in Levels4(g) |->
                SumFunction([r \in Shaped |-> replies[r].weight * Position(r, l)])]
      level(k) == IF k = n THEN 4 * n ELSE Max({0} \cup {l \in Levels4(g) : pos[l] <= k * w})
      shape(k) == IF k = 1 THEN 0
                  ELSE IF Shaped = {} THEN (4 * n * (k - 1)) \div (n - 1) ELSE level(k)
  IN  [k \in 1..n |-> low + ((Unit - low - top) * shape(k)) \div (4 * n)]
AggregateCdf(g) ==
  IF Cardinality(Kept) = 1 THEN curves[CHOOSE r \in Kept : TRUE]
  ELSE IF g.pmf THEN [k \in 1..g.size |-> Average([r \in Kept |-> curves[r][k]])]
  ELSE QuantileAverage(g)

\* _standardize_cdf, in hundredths of Unit.  Fine stands for 1.
Fine == 100 * Unit
Margin(open) == IF open THEN 10 * Percent ELSE 0
ApplyMinimum(c, g) ==
  LET n == Len(c)
      lo == IF g.openLo THEN 0 ELSE c[1]
      hi == IF g.openHi THEN Unit ELSE c[n]
      keep == 9900 * Percent - Margin(g.openLo) - Margin(g.openHi)
  IN  [k \in 1..n |-> (keep * (c[k] - lo)) \div (hi - lo) + (Unit * (k - 1)) \div (n - 1)
                      + Margin(g.openLo)]
\* get_max_pmf_value without and with its wiggle room
CellCap(n) == (2000 * Percent * InboundDefault) \div (n - 1)
SafeCap(n) == (95 * CellCap(n)) \div 100
\* Once the inner bins of S are at the cap: what is left for the others, what they hold,
\* and those that are over the cap when they are scaled up to it.
Spare(c, S) == c[Len(c)] - c[1] - SafeCap(Len(c)) * Cardinality(S)
Rest(c, S) == SumFunctionOnSet(Masses(c), (2..Len(c)) \ S)
CapMore(c, S) ==
  LET m == Masses(c)
      cap == SafeCap(Len(c))
      spare == Spare(c, S)
      rest == Rest(c, S)
  IN  S \cup {k \in (2..Len(c)) \ S : m[k] * spare > cap * rest}
\* Scale the inner bins up from 1 under the cap until the masses add up again.
CapMasses(c) ==
  LET capped[i \in 0..Len(c)] == IF i = 0 THEN {} ELSE CapMore(c, capped[i - 1])
      full == capped[Len(c)]
      m    == Masses(c)
      mass == [k \in 2..Len(c) |-> IF k \in full THEN SafeCap(Len(c))
                                   ELSE (m[k] * Spare(c, full)) \div Rest(c, full)]
  IN  [k \in 1..Len(c) |-> c[1] + SumFunctionOnSet(mass, 2..k)]
\* A variant without the cap.
StandardizeUncapped(c, g) == ApplyMinimum(c, g)
Standardize(c, g) == CapMasses(ApplyMinimum(c, g))

-----------------------------------------------------------------------------
(* The stages.  Nothing awaits between them, and each hands on what it made. *)

Unmade == [factor |-> Nothing, built |-> Nothing, drawn |-> Nothing,
           accepted |-> Nothing, average |-> Nothing]
Mixtures == {r \in DOMAIN replies : replies[r].kind = "mixture"}
Units == {"scaled", "plain"}
FactorOf(r, u) == IF u = "plain" THEN One ELSE made.factor[r]

CdfInit ==
  /\ geometry \in Geometries
  /\ replies \in ReplySets
  /\ made = Unmade
  /\ curves = [r \in DOMAIN replies |-> Nothing]
  /\ stage = "infer" /\ final = Nothing

Infer ==
  /\ stage = "infer" /\ stage' = "guard"
  /\ made' = [made EXCEPT !.factor =
       [r \in DOMAIN replies |-> IF r \in Mixtures THEN ScaleOf(replies[r], geometry) ELSE One]]
  /\ UNCHANGED <<geometry, replies, curves, final>>

Guard ==
  /\ stage = "guard" /\ stage' = "draw"
  /\ made' = [made EXCEPT !.built = [r \in Mixtures |-> [u \in Units |->
       BuildMixture(Rescale(replies[r].components, FactorOf(r, u)), geometry)]]]
  /\ UNCHANGED <<geometry, replies, curves, final>>

Draw ==
  /\ stage = "draw" /\ stage' = "witness"
  /\ made' = [made EXCEPT !.drawn = [r \in DOMAIN replies |-> [u \in Units |->
       IF r \in Mixtures
       THEN MixtureCurve(made.built[r][u], ScaleSupport(replies[r].support, FactorOf(r, u)), geometry)
       ELSE PmfCurve(replies[r], geometry)]]]
  /\ UNCHANGED <<geometry, replies, curves, final>>

Witness ==
  /\ stage = "witness"
  /\ curves' = [r \in DOMAIN replies |-> Accepted(replies[r], made.factor[r], made.drawn[r])]
  /\ made' = [made EXCEPT !.accepted = curves']
  /\ stage' = IF \E r \in DOMAIN replies : curves'[r] # Nothing THEN "repair" ELSE "abstain"
  /\ UNCHANGED <<geometry, replies, final>>

Repair ==
  /\ stage = "repair" /\ stage' = "aggregate"
  /\ LET all == [r \in Kept |-> curves[r]]
     IN  curves' = [r \in DOMAIN curves |->
                      IF r \in Kept THEN RepairCoarse(all, r) ELSE Nothing]
  /\ UNCHANGED <<geometry, replies, made, final>>

Combine ==
  /\ stage = "aggregate" /\ stage' = "standardize"
  /\ made' = [made EXCEPT !.average = AggregateCdf(geometry)]
  /\ UNCHANGED <<geometry, replies, curves, final>>

Submit ==
  /\ stage = "standardize"
  /\ LET c == made.average
         flat == /\ (IF geometry.openLo THEN 0 ELSE c[1])
                      = (IF geometry.openHi THEN Unit ELSE c[Len(c)])
     IN  /\ final' = IF flat THEN Nothing ELSE Standardize(c, geometry)
         /\ stage' = IF flat THEN "error" ELSE "submit"  \* division by no mass at all
  /\ UNCHANGED <<geometry, replies, made, curves>>

CdfNext == Infer \/ Guard \/ Draw \/ Witness \/ Repair \/ Combine \/ Submit
CdfSpec == CdfInit /\ [][CdfNext]_cdfVars

-----------------------------------------------------------------------------
\* "NO CENTRE IS EVER MOVED FROM ON-GRID TO OFF-GRID" (numeric.py:700): the
\* inferred unit factor brings every centre into the window or is 1.
NoCentreLeavesTheGrid ==
  made.factor # Nothing => \A r \in Mixtures :
    LET f == made.factor[r]
    IN  f # One => \A k \in DOMAIN replies[r].components :
          LET c == replies[r].components[k].center
          IN  c # 0 => ~InWindow(geometry, c) /\ InWindow(geometry, Scaled(c, f))

\* The guardrails move probability, they never delete it; what they build is
\* never narrower than the floor, nor more than the limit, and stays inside the
\* hull of the centres the run gave.
GuardrailsKeepTheMass ==
  made.built # Nothing => \A r \in Mixtures, u \in Units :
    LET clean == Clean(Rescale(replies[r].components, FactorOf(r, u)))
        built == made.built[r][u]
        cs    == {clean[k].center : k \in DOMAIN clean}
    IN  TotalWeight(clean) > 0 =>
          /\ TotalWeight(built) = TotalWeight(clean)
          /\ Len(built) \in 1..MaxComponents
          /\ \A k \in DOMAIN built :
               /\ \E a, b \in cs : Between(built[k].center, a, b)
               /\ built[k].family = "normal" => built[k].spread >= MinScale(geometry)

\* A repaired count run keeps its mass in and below the grid, gains none outside
\* the span of its own values, and only where another run sees something.
RepairKeepsTheMass ==
  stage = "aggregate" =>
    \A r \in Kept :
      LET before == Masses(made.accepted[r])
          after  == Masses(curves[r])
      IN  /\ after[1] = before[1]
          /\ curves[r][geometry.size] = made.accepted[r][geometry.size]
          /\ \A k \in 2..geometry.size :
               (after[k] > 0 /\ before[k] = 0) =>
                 /\ \E a, b \in Occupied(before) : a < k /\ k < b
                 /\ Cardinality(Kept) > 1 =>
                      \E q \in Kept \ {r} : Masses(made.accepted[q])[k] > 0

\* The mass the ensemble puts beyond each end is the weighted mean of what its
\* runs put there: averaging shapes never piles a tail onto an edge cell.
AverageKeepsTheTails ==
  stage = "standardize" =>
    LET a == made.average n == geometry.size
    IN  /\ Cardinality(Kept) > 1 =>
             /\ a[1] = Average([r \in Kept |-> curves[r][1]])
             /\ Unit - a[n] \in {Average([r \in Kept |-> Unit - curves[r][n]]),
                                 Average([r \in Kept |-> Unit - curves[r][n]]) + 1}
        /\ \A k \in 2..n : a[k] >= a[k - 1]
        /\ \A k \in 2..n : a[k] > a[k - 1] =>
             Shaped = {} \/ \E r \in Shaped : \E j \in 2..k : curves[r][j] > curves[r][j - 1]

\* What is submitted is what Metaculus accepts: closed ends are exact, open ends
\* keep a margin, every step has its minimum and none exceeds the cap.
SubmissionIsAccepted ==
  stage = "submit" =>
    LET n == geometry.size m == Masses(final)
    IN  /\ IF geometry.openLo THEN final[1] >= Margin(TRUE) ELSE final[1] = 0
        /\ final[n] <= Fine - Margin(geometry.openHi)
        /\ geometry.openHi \/ final[n] >= Fine - n
        /\ \A k \in 2..n : m[k] >= Unit \div (n - 1) /\ m[k] <= CellCap(n)

\* Between a run's reply and the curve of the ensemble probability is moved, never
\* lost, and never to where no run put any.
MassIsKept ==
  NoCentreLeavesTheGrid /\ GuardrailsKeepTheMass /\ RepairKeepsTheMass /\ AverageKeepsTheTails
=============================================================================
